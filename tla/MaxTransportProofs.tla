-------------------------- MODULE MaxTransportProofs --------------------------
(***************************************************************************)
(* Proofs about MaxTransport, for every dedupe window, channel, page and   *)
(* chat: the safety properties that the run "transport" checks.            *)
(***************************************************************************)
EXTENDS MaxTransport, TLAPS

-----------------------------------------------------------------------------
(* The inductive invariant. *)

\* The ids and places that the loop holds are messages of the chat.
InChat == /\ ids \subseteq 1..Len(log) /\ afterID \in 0..Len(log)
          /\ \A i \in 1..Len(delivered) : delivered[i] \in 1..Len(log)

\* What is left of a page is a stretch of the chat.
PageContiguous == \A i \in 1..Len(page) : page[i] = page[1] + i - 1 /\ page[i] \in 1..Len(log)

\* The queue of the window is the end of the history of accepted ids, and all of that
\* history as long as the window has not been full.
WindowIsRecent ==
    /\ Len(fifo) <= Len(accepted)
    /\ \A i \in 1..Len(fifo) : fifo[i] = accepted[(Len(accepted) - Len(fifo)) + i]
    /\ Len(fifo) = DedupeMax \/ Len(fifo) = Len(accepted)

\* The message being put on the channel has passed the echo filter.
FilteredBeforeSend == loop = "sending" => ~Echo(log[Place])

\* A message that needs no more attention, or is being put on the channel.
Handled(i) == log[i] = "self" \/ \E j \in 1..Len(delivered) : delivered[j] = i
Settled(i) == Handled(i) \/ (loop = "sending" /\ Place = i)

\* While the loop runs, everything up to after_id and everything in the window is settled,
\* and so is what comes before the message being read, which after_id may lag behind.
Caught == loop # "stopped" =>
            /\ \A i \in 1..afterID : Settled(i)
            /\ \A i \in ids : Settled(i)
            /\ loop \in {"reading", "sending"} => \A i \in 1..(Place - 1) : Handled(i)

WindowInv == WindowConsistent /\ WindowIsRecent /\ NoEarlyDuplicate
ChatInv   == InChat /\ PageContiguous
EchoInv   == FilteredBeforeSend /\ NoEcho
TransportInv == TypeOK /\ ChatInv /\ WindowInv /\ EchoInv /\ Caught

-----------------------------------------------------------------------------
(* Facts about sequences. *)

\* The last element of Append(s, e) is e, the others are those of s.
LEMMA AppendFacts ==
    ASSUME NEW S, NEW s \in Seq(S), NEW e \in S
    PROVE  /\ Append(s, e) \in Seq(S) /\ Len(Append(s, e)) = Len(s) + 1
           /\ \A i \in 1..Len(s) : Append(s, e)[i] = s[i]
           /\ Append(s, e)[Len(s) + 1] = e
  OBVIOUS

\* Tail(s) is s moved by one place.
LEMMA TailFacts ==
    ASSUME NEW S, NEW s \in Seq(S), s # <<>>
    PROVE  /\ Tail(s) \in Seq(S) /\ Len(s) \in Nat \ {0} /\ Len(Tail(s)) = Len(s) - 1
           /\ \A i \in 1..Len(Tail(s)) : Tail(s)[i] = s[i + 1]
           /\ Head(s) = s[1] /\ Head(s) \in S
  OBVIOUS

-----------------------------------------------------------------------------
(* Type correctness. *)

\* The transport starts with values of the right types.
LEMMA InitTyped == Init => TypeOK
<1> SUFFICES ASSUME Init PROVE TypeOK
    OBVIOUS
<1>1. closed \in BOOLEAN /\ cancelled \in BOOLEAN /\ refused \in BOOLEAN
    BY Zenon DEF Init
<1>2. unread \in 0..ChanCap
    <2>1. unread = 0 /\ ChanCap \in Nat
        BY BoundsAssumption DEF Init
    <2> QED
        BY <2>1
<1> QED
    BY <1>1, <1>2 DEF Init, TypeOK

\* Going on to the next message of a page leaves a page if the loop reads on.
LEMMA ContinueTyped ==
    ASSUME TypeOK, loop \in {"reading", "sending"}, Continue
    PROVE  /\ page' \in Seq(Nat) /\ page' = Tail(page)
           /\ Len(page') = Len(page) - 1 /\ Len(page) \in Nat \ {0}
           /\ loop' \in {"head", "reading"}
           /\ loop' \in {"reading", "sending"} => page' # <<>>
<1>1. page \in Seq(Nat) /\ page # <<>>
    BY DEF TypeOK
<1>2. /\ Tail(page) \in Seq(Nat) /\ Len(page) \in Nat \ {0} /\ Len(Tail(page)) = Len(page) - 1
    BY <1>1, TailFacts
<1>3. page' = Tail(page) /\ loop' = IF Len(page) = 1 THEN "head" ELSE "reading"
    BY DEF Continue
<1>4. Len(page) # 1 => Tail(page) # <<>>
    <2>1. Len(page) # 1 => Len(Tail(page)) # 0
        BY <1>2
    <2>2. Len(<<>>) = 0
        OBVIOUS
    <2> QED
        BY <2>1, <2>2
<1> QED
    BY <1>2, <1>3, <1>4

\* Every step keeps the types.
LEMMA NextTyped == TypeOK /\ [Next]_vars => TypeOK'
<1> SUFFICES ASSUME TypeOK, [Next]_vars PROVE TypeOK'
    OBVIOUS
<1> USE DEF window, channel
<1>1. CASE MessagePosted
    BY <1>1 DEF MessagePosted, Post, TypeOK
<1>2. CASE SendThrottled
    BY <1>2 DEF SendThrottled, Throttled, TypeOK
<1>3. CASE Receive
    BY <1>3 DEF Receive, TypeOK
<1>4. CASE Consume
    <2>1. unread' \in 0..ChanCap
        <3>1. unread \in 0..ChanCap /\ ChanCap \in Nat /\ unread > 0 /\ unread' = unread - 1
            BY <1>4, BoundsAssumption DEF Consume, TypeOK
        <3> QED
            BY <3>1
    <2> QED
        BY <1>4, <2>1 DEF Consume, TypeOK
<1>5. CASE Close \/ Cancel
    BY <1>5 DEF Close, Cancel, TypeOK
<1>6. CASE StopsCancelled \/ StartPoll \/ PollFailsTransiently \/ WaitEnds \/ PollPassesDeadline
    <2>1. /\ loop' \in {"head", "polling", "waiting", "stopped"}
          /\ UNCHANGED <<log, window, channel, closed, cancelled, throttled, refused>>
        BY <1>6, Zenon DEF StopsCancelled, StartPoll, PollFailsTransiently, WaitEnds,
                           PollPassesDeadline, Turns
    <2>2. page' \in Seq(Nat)
        <3>1. page' = page \/ page' = <<>>
            BY <1>6, Zenon DEF StopsCancelled, StartPoll, PollFailsTransiently, WaitEnds,
                               PollPassesDeadline
        <3>2. page \in Seq(Nat) /\ <<>> \in Seq(Nat)
            BY DEF TypeOK
        <3> QED
            BY <3>1, <3>2, Zenon
    <2> QED
        BY <2>1, <2>2 DEF TypeOK
<1>7. CASE PollThrottled \/ PollRefused
    <2>1. /\ loop' \in {"waiting", "stopped"}
          /\ UNCHANGED <<log, window, channel, page, closed, cancelled>>
        BY <1>7, Zenon DEF PollThrottled, PollRefused, Turns
    <2>2. refused' \in BOOLEAN
        <3>1. refused' = TRUE \/ refused' = refused
            BY <1>7, Zenon DEF PollThrottled, PollRefused
        <3> QED
            BY <3>1, Zenon DEF TypeOK
    <2>3. throttled' \in Nat
        BY <1>7 DEF PollThrottled, PollRefused, Throttled, TypeOK
    <2> QED
        BY <2>1, <2>2, <2>3 DEF TypeOK
<1>8. CASE PollReturns
    <2>1. PICK first \in 1..(afterID + 1), n \in 0..PageMax :
            page' = Page(first, n) /\ Turns(IF n = 0 THEN "waiting" ELSE "reading")
        BY <1>8 DEF PollReturns
    <2>2. afterID \in Nat /\ PageMax \in Nat
        BY BoundsAssumption DEF TypeOK
    <2>3. first \in Nat /\ n \in Nat
        BY <2>1, <2>2
    <2>4. page' \in Seq(Nat) /\ Len(page') = n
        BY <2>1, <2>3 DEF Page
    <2>5. loop' \in {"reading", "sending"} => page' # <<>>
        BY <2>1, <2>4 DEF Turns
    <2> QED
        BY <1>8, <2>1, <2>4, <2>5 DEF PollReturns, Turns, TypeOK
<1>9. CASE SkipDuplicate
    BY <1>9, ContinueTyped DEF SkipDuplicate, Read, TypeOK
<1>10. CASE Accept
    <2>1. page \in Seq(Nat) /\ page # <<>> /\ Place \in Nat
        BY <1>10, TailFacts DEF Accept, Read, TypeOK, Place
    <2>2. ids' \subseteq Nat
        <3> Place \in Nat /\ ids \subseteq Nat
            BY <2>1 DEF TypeOK
        <3> QED
            BY <1>10 DEF Accept, Add
    <2>3. fifo' \in Seq(Nat)
        <3>1. fifo \in Seq(Nat) /\ DedupeMax \in Nat \ {0}
            BY WindowAssumption DEF TypeOK
        <3>2. CASE Len(fifo) >= DedupeMax
            <4>1. fifo # <<>> /\ Tail(fifo) \in Seq(Nat)
                BY <3>1, <3>2
            <4> QED
                BY <1>10, <2>1, <3>2, <4>1, AppendFacts DEF Accept, Add
        <3>3. CASE ~(Len(fifo) >= DedupeMax)
            BY <1>10, <2>1, <3>1, <3>3, AppendFacts DEF Accept, Add
        <3> QED
            BY <3>2, <3>3
    <2>4. accepted' \in Seq(Nat) /\ afterID' \in Nat
        BY <1>10, <2>1 DEF Accept, NewAfterID, TypeOK
    <2>5. /\ page' \in Seq(Nat) /\ loop' \in {"head", "reading", "sending"}
          /\ loop' \in {"reading", "sending"} => page' # <<>>
        BY <1>10, <2>1, ContinueTyped DEF Accept, Read
    <2> QED
        BY <1>10, <2>2, <2>3, <2>4, <2>5 DEF Accept, TypeOK
<1>11. CASE AcceptWithoutID
    BY <1>11 DEF AcceptWithoutID, Read, TypeOK
<1>12. CASE Deliver
    <2>1. page \in Seq(Nat) /\ page # <<>> /\ Place \in Nat
        BY <1>12, TailFacts DEF Deliver, TypeOK, Place
    <2>2. delivered' \in Seq(Nat)
        BY <1>12, <2>1 DEF Deliver, TypeOK
    <2>3. unread' \in 0..ChanCap
        <3>1. unread \in 0..ChanCap /\ ChanCap \in Nat /\ unread < ChanCap /\ unread' = unread + 1
            BY <1>12, BoundsAssumption DEF Deliver, TypeOK
        <3> QED
            BY <3>1
    <2> QED
        BY <1>12, <2>2, <2>3, ContinueTyped DEF Deliver, TypeOK
<1>13. CASE UNCHANGED vars
    BY <1>13 DEF vars, TypeOK
<1> QED
    BY <1>1, <1>2, <1>3, <1>4, <1>5, <1>6, <1>7, <1>8, <1>9, <1>10, <1>11, <1>12, <1>13
       DEF Next, LoopStep, AtRest

\* Every variable keeps its type; in particular the channel never holds more than its
\* capacity and a loop that reads or sends has a message to do it with.
THEOREM TypeCorrect == Spec => []TypeOK
  BY InitTyped, NextTyped, PTL DEF Spec

-----------------------------------------------------------------------------
(* The dedupe window. *)

\* What add does to the queue: the oldest id leaves if the window is full, the others move
\* up, and the new one comes last.
LEMMA QueueAfterAdd ==
    ASSUME TypeOK, WindowConsistent, NEW id \in Nat, Add(id)
    PROVE  \E k \in 0..1 :
             /\ k = 1 <=> Len(fifo) = DedupeMax
             /\ k <= Len(fifo) /\ Len(fifo') = (Len(fifo) - k) + 1
             /\ \A i \in 1..(Len(fifo) - k) : fifo'[i] = fifo[i + k]
             /\ fifo'[(Len(fifo) - k) + 1] = id
             /\ ids' = (IF k = 1 THEN ids \ {fifo[1]} ELSE ids) \cup {id}
<1>1. fifo \in Seq(Nat) /\ DedupeMax \in Nat \ {0} /\ Len(fifo) \in Nat /\ Len(fifo) <= DedupeMax
    BY WindowAssumption DEF TypeOK, WindowConsistent
<1>2. CASE Len(fifo) >= DedupeMax
    <2>1. Len(fifo) = DedupeMax /\ Len(fifo) >= 1 /\ fifo # <<>>
        BY <1>1, <1>2
    <2>2. /\ Tail(fifo) \in Seq(Nat) /\ Len(Tail(fifo)) = Len(fifo) - 1
          /\ \A i \in 1..Len(Tail(fifo)) : Tail(fifo)[i] = fifo[i + 1]
          /\ Head(fifo) = fifo[1]
        BY <1>1, <2>1, TailFacts
    <2>3. fifo' = Append(Tail(fifo), id) /\ ids' = (ids \ {fifo[1]}) \cup {id}
        BY <1>2, <2>2 DEF Add
    <2>4. /\ Len(fifo') = (Len(fifo) - 1) + 1
          /\ \A i \in 1..(Len(fifo) - 1) : fifo'[i] = fifo[i + 1]
          /\ fifo'[(Len(fifo) - 1) + 1] = id
        BY <2>2, <2>3, AppendFacts
    <2> WITNESS 1 \in 0..1
    <2> QED
        BY <2>1, <2>3, <2>4
<1>3. CASE ~(Len(fifo) >= DedupeMax)
    <2>1. fifo' = Append(fifo, id) /\ ids' = ids \cup {id}
        BY <1>3 DEF Add
    <2>2. /\ Len(fifo') = (Len(fifo) - 0) + 1
          /\ \A i \in 1..(Len(fifo) - 0) : fifo'[i] = fifo[i + 0]
          /\ fifo'[(Len(fifo) - 0) + 1] = id
        BY <1>1, <2>1, AppendFacts
    <2>3. Len(fifo) # DedupeMax /\ 0 <= Len(fifo)
        BY <1>1, <1>3
    <2> WITNESS 0 \in 0..1
    <2> QED
        BY <2>1, <2>2, <2>3
<1> QED
    BY <1>2, <1>3

\* Accepting a new id keeps the window consistent, the most recent stretch of the history,
\* and the history free of early duplicates.
LEMMA AcceptKeepsWindow ==
    ASSUME TypeOK, WindowInv, Accept
    PROVE  WindowInv'
<1> DEFINE n == Len(fifo)
           m == Len(accepted)
<1>1. /\ fifo \in Seq(Nat) /\ accepted \in Seq(Nat) /\ n \in Nat /\ m \in Nat
      /\ DedupeMax \in Nat \ {0} /\ ids \subseteq Nat
    BY WindowAssumption DEF TypeOK
<1>2. Place \in Nat /\ Place \notin ids /\ Add(Place)
    <2>1. page \in Seq(Nat) /\ page # <<>>
        BY DEF Accept, Read, TypeOK
    <2> QED
        BY <2>1, TailFacts DEF Accept, Place
<1> DEFINE p == Place
<1>3. PICK k \in 0..1 :
             /\ k = 1 <=> n = DedupeMax
             /\ k <= n /\ Len(fifo') = (n - k) + 1
             /\ \A i \in 1..(n - k) : fifo'[i] = fifo[i + k]
             /\ fifo'[(n - k) + 1] = p
             /\ ids' = (IF k = 1 THEN ids \ {fifo[1]} ELSE ids) \cup {p}
    BY <1>2, QueueAfterAdd DEF WindowInv
<1>4. /\ Len(accepted') = m + 1 /\ \A i \in 1..m : accepted'[i] = accepted[i]
      /\ accepted'[m + 1] = p
    <2>1. accepted' = Append(accepted, p)
        BY DEF Accept
    <2> HIDE DEF p
    <2> QED
        BY <1>1, <1>2, <2>1, AppendFacts DEF p
<1>5. p \in Nat /\ p \notin ids
    BY <1>2
<1>6. /\ ids = {fifo[i] : i \in 1..n} /\ \A i, j \in 1..n : fifo[i] = fifo[j] => i = j
      /\ n <= DedupeMax
    BY DEF WindowInv, WindowConsistent
<1>7. /\ n <= m /\ \A i \in 1..n : fifo[i] = accepted[(m - n) + i]
      /\ n = DedupeMax \/ n = m
    BY DEF WindowInv, WindowIsRecent
<1>8. \A i, j \in 1..m : i < j /\ accepted[i] = accepted[j] => j - i > DedupeMax
    BY DEF WindowInv, NoEarlyDuplicate
<1> HIDE DEF p, n, m
<1> DEFINE q == (n - k) + 1
<1>9. WindowConsistent'
    <2>1. ids' = {fifo'[i] : i \in 1..q}
        <3>1. ASSUME NEW x \in ids' PROVE \E i \in 1..q : x = fifo'[i]
            <4>1. CASE x = p
                BY <1>1, <1>3, <4>1
            <4>2. CASE x # p
                <5>1. x \in ids /\ (k = 1 => x # fifo[1])
                    BY <1>3, <3>1, <4>2
                <5>2. PICK i \in 1..n : x = fifo[i]
                    BY <1>6, <5>1
                <5>3. i - k \in 1..(n - k)
                    BY <1>1, <1>3, <5>1, <5>2
                <5>4. fifo'[i - k] = fifo[(i - k) + k] /\ (i - k) + k = i
                    BY <1>1, <1>3, <5>3
                <5>5. i - k \in 1..q
                    BY <1>1, <1>3, <5>3
                <5> QED
                    BY <5>2, <5>4, <5>5
            <4> QED
                BY <4>1, <4>2
        <3>2. ASSUME NEW i \in 1..q PROVE fifo'[i] \in ids'
            <4>1. CASE i = q
                BY <1>3, <4>1
            <4>2. CASE i # q
                <5>1. i \in 1..(n - k) /\ i + k \in 1..n
                    BY <1>1, <1>3, <3>2, <4>2
                <5>2. fifo'[i] = fifo[i + k] /\ fifo[i + k] \in ids
                    BY <1>3, <1>6, <5>1
                <5>3. k = 1 => fifo[i + k] # fifo[1]
                    BY <1>1, <1>3, <1>6, <5>1
                <5> QED
                    BY <1>3, <5>2, <5>3
            <4> QED
                BY <4>1, <4>2
        <3> QED
            BY <3>1, <3>2
    <2>2. ASSUME NEW i \in 1..q, NEW j \in 1..q, fifo'[i] = fifo'[j] PROVE i = j
        <3>1. ASSUME NEW h \in 1..(n - k) PROVE fifo'[h] # p /\ h + k \in 1..n
            <4>1. h + k \in 1..n
                BY <1>1, <1>3, <3>1
            <4>2. fifo[h + k] \in ids
                BY <1>6, <4>1
            <4> QED
                BY <1>3, <1>5, <4>1, <4>2
        <3>2. CASE i = q \/ j = q
            BY <1>1, <1>3, <2>2, <3>1, <3>2
        <3>3. CASE i # q /\ j # q
            <4>1. i \in 1..(n - k) /\ j \in 1..(n - k)
                BY <1>1, <1>3, <2>2, <3>3
            <4>2. fifo[i + k] = fifo[j + k] /\ i + k \in 1..n /\ j + k \in 1..n
                BY <1>3, <2>2, <3>1, <4>1
            <4>3. i + k = j + k
                BY <1>6, <4>2
            <4> QED
                BY <1>3, <4>1, <4>3
        <3> QED
            BY <3>2, <3>3
    <2>3. q <= DedupeMax
        BY <1>1, <1>3, <1>6
    <2>4. Len(fifo') = q
        BY <1>3
    <2> HIDE DEF q
    <2> QED
        BY <2>1, <2>2, <2>3, <2>4 DEF WindowConsistent
<1>10. WindowIsRecent'
    <2>1. q <= m + 1
        BY <1>1, <1>3, <1>7
    <2>2. ASSUME NEW i \in 1..q PROVE fifo'[i] = accepted'[((m + 1) - q) + i]
        <3>1. CASE i = q
            <4>1. ((m + 1) - q) + i = m + 1
                BY <1>1, <1>3, <3>1
            <4> QED
                BY <1>3, <1>4, <3>1, <4>1
        <3>2. CASE i # q
            <4>1. i \in 1..(n - k) /\ i + k \in 1..n
                BY <1>1, <1>3, <2>2, <3>2
            <4>2. fifo'[i] = accepted[(m - n) + (i + k)]
                BY <1>3, <1>7, <4>1
            <4>3. (m - n) + (i + k) = ((m + 1) - q) + i /\ (m - n) + (i + k) \in 1..m
                BY <1>1, <1>3, <1>7, <4>1
            <4> QED
                BY <1>4, <4>2, <4>3
        <3> QED
            BY <3>1, <3>2
    <2>3. q = DedupeMax \/ q = m + 1
        BY <1>1, <1>3, <1>7
    <2>4. Len(fifo') = q /\ Len(accepted') = m + 1
        BY <1>3, <1>4
    <2> HIDE DEF q
    <2> QED
        BY <2>1, <2>2, <2>3, <2>4 DEF WindowIsRecent
<1>11. NoEarlyDuplicate'
    <2> SUFFICES ASSUME NEW i \in 1..(m + 1), NEW j \in 1..(m + 1),
                        i < j, accepted'[i] = accepted'[j]
                 PROVE  j - i > DedupeMax
        BY <1>4 DEF NoEarlyDuplicate
    <2>1. i \in 1..m /\ accepted'[i] = accepted[i]
        BY <1>1, <1>4
    <2>2. CASE j \in 1..m
        BY <1>4, <1>8, <2>1, <2>2
    <2>3. CASE j = m + 1
        <3>1. accepted[i] = p
            BY <1>4, <2>1, <2>3
        <3>2. ~(i > m - n)
            <4>1. SUFFICES ASSUME i > m - n PROVE FALSE
                OBVIOUS
            <4>2. i - (m - n) \in 1..n /\ (m - n) + (i - (m - n)) = i
                BY <1>1, <1>7, <2>1, <4>1
            <4>3. fifo[i - (m - n)] = accepted[i]
                BY <1>7, <4>2
            <4> QED
                BY <1>5, <1>6, <3>1, <4>2, <4>3
        <3>3. n = DedupeMax
            BY <1>1, <1>7, <2>1, <3>2
        <3> QED
            BY <1>1, <1>7, <2>1, <2>3, <3>2, <3>3
    <2> QED
        BY <1>1, <2>2, <2>3
<1> QED
    BY <1>9, <1>10, <1>11 DEF WindowInv

-----------------------------------------------------------------------------
(* The chat, the page and what was delivered. *)

\* The steps that move no message: they leave the chat, the window, the page and the
\* delivered messages alone, and do not drop the message being sent but by stopping.
Idle == /\ UNCHANGED <<log, ids, fifo, afterID, accepted, delivered>>
        /\ \/ page' = page /\ loop' = loop
           \/ page' \in {page, <<>>} /\ loop' = "stopped"
           \/ /\ page' = page /\ loop \notin {"sending", "stopped"}
              /\ loop' \notin {"reading", "sending"}

\* Every step is idle, or is one of the six that move messages.
LEMMA StepCases ==
    ASSUME [Next]_vars
    PROVE  \/ Idle \/ MessagePosted \/ PollReturns \/ SkipDuplicate
           \/ Accept \/ AcceptWithoutID \/ Deliver
<1> USE DEF window, channel, Idle
<1>1. CASE SendThrottled \/ Consume \/ Close \/ Cancel
    BY <1>1, Zenon DEF SendThrottled, Consume, Close, Cancel
<1>2. CASE Receive
    BY <1>2 DEF Receive
<1>3. CASE StopsCancelled
    BY <1>3 DEF StopsCancelled, Turns
<1>4. CASE StartPoll \/ PollFailsTransiently \/ PollThrottled
    BY <1>4 DEF StartPoll, PollFailsTransiently, PollThrottled, Turns
<1>5. CASE PollRefused \/ PollPassesDeadline \/ WaitEnds
    BY <1>5 DEF PollRefused, PollPassesDeadline, WaitEnds, Turns
<1>6. CASE UNCHANGED vars
    BY <1>6, Zenon DEF vars
<1> QED
    BY <1>1, <1>2, <1>3, <1>4, <1>5, <1>6 DEF Next, LoopStep, AtRest

\* The message being read or sent is one of the chat; the rest of the page follows it.
LEMMA PlaceInChat ==
    ASSUME TypeOK, ChatInv, loop \in {"reading", "sending"}
    PROVE  /\ Place \in 1..Len(log) /\ Place = page[1] /\ log \in Seq(Authors) /\ Len(log) \in Nat
           /\ \A i \in 1..Len(Tail(page)) : Tail(page)[i] = (Place + 1) + (i - 1)
<1>1. page \in Seq(Nat) /\ page # <<>> /\ log \in Seq(Authors) /\ Len(log) \in Nat
    BY DEF TypeOK
<1>2. /\ Len(page) \in Nat \ {0} /\ Head(page) = page[1]
      /\ \A i \in 1..Len(Tail(page)) : Tail(page)[i] = page[i + 1] /\ i + 1 \in 1..Len(page)
    <2>1. /\ Len(page) \in Nat \ {0} /\ Head(page) = page[1] /\ Len(Tail(page)) = Len(page) - 1
          /\ \A i \in 1..Len(Tail(page)) : Tail(page)[i] = page[i + 1]
        BY <1>1, TailFacts
    <2> QED
        BY <2>1
<1>3. \A i \in 1..Len(page) : page[i] = page[1] + i - 1 /\ page[i] \in 1..Len(log)
    BY DEF ChatInv, PageContiguous
<1>4. page[1] \in 1..Len(log)
    BY <1>2, <1>3
<1>5. ASSUME NEW i \in 1..Len(Tail(page)) PROVE Tail(page)[i] = (page[1] + 1) + (i - 1)
    <2>1. Tail(page)[i] = page[i + 1] /\ page[i + 1] = page[1] + (i + 1) - 1
        BY <1>2, <1>3
    <2>2. Len(Tail(page)) \in Nat
        BY <1>1, TailFacts
    <2> QED
        BY <1>1, <1>4, <2>1, <2>2
<1> QED
    BY <1>1, <1>2, <1>4, <1>5 DEF Place

\* Going on with the page leaves a stretch of the chat, and the next place is the next one.
LEMMA ContinueInChat ==
    ASSUME TypeOK, ChatInv, loop \in {"reading", "sending"}, Continue, log' = log
    PROVE  /\ PageContiguous'
           /\ loop' \in {"reading", "sending"} => Place' = Place + 1
<1>1. /\ page' = Tail(page) /\ page' \in Seq(Nat) /\ Len(page') = Len(page) - 1
      /\ Len(page) \in Nat \ {0} /\ loop' \in {"reading", "sending"} => page' # <<>>
    BY ContinueTyped
<1>2. /\ Place \in 1..Len(log) /\ Len(log) \in Nat
      /\ \A i \in 1..Len(page') : page'[i] = (Place + 1) + (i - 1)
    BY <1>1, PlaceInChat
<1>3. \A i \in 1..Len(page') : page'[i] \in 1..Len(log)
    <2>1. page \in Seq(Nat) /\ page # <<>>
        BY DEF TypeOK
    <2>2. \A i \in 1..Len(page') : page'[i] = page[i + 1]
        BY <1>1, <2>1, TailFacts
    <2>3. \A i \in 1..Len(page) : page[i] \in 1..Len(log)
        BY DEF ChatInv, PageContiguous
    <2>4. \A i \in 1..Len(page') : i + 1 \in 1..Len(page)
        BY <1>1
    <2> QED
        BY <2>2, <2>3, <2>4
<1>4. ASSUME NEW i \in 1..Len(page') PROVE page'[i] = page'[1] + i - 1
    <2>1. 1 \in 1..Len(page') /\ Place \in Nat /\ i \in Nat
        BY <1>1, <1>2
    <2>2. page'[1] = (Place + 1) + (1 - 1) /\ page'[i] = (Place + 1) + (i - 1)
        BY <1>2, <2>1
    <2> QED
        BY <2>1, <2>2
<1>5. loop' \in {"reading", "sending"} => Place' = Place + 1
    <2> HAVE loop' \in {"reading", "sending"}
    <2>1. page' # <<>>
        BY <1>1
    <2>2. Head(page') = page'[1] /\ Len(page') \in Nat \ {0}
        BY <1>1, <2>1, TailFacts
    <2> QED
        BY <1>2, <2>2 DEF Place
<1>6. PageContiguous'
    BY <1>3, <1>4, Zenon DEF PageContiguous
<1> QED
    BY <1>5, <1>6

\* A message more in the chat leaves the others where they are.
LEMMA ChatGrows ==
    ASSUME TypeOK, MessagePosted
    PROVE  /\ Len(log) \in Nat /\ Len(log') = Len(log) + 1
           /\ \A i \in 1..Len(log) : log'[i] = log[i]
<1>1. PICK a \in Authors : log' = Append(log, a)
    BY DEF MessagePosted, Post
<1>2. log \in Seq(Authors) /\ Len(log) \in Nat
    BY DEF TypeOK
<1> QED
    BY <1>1, <1>2, AppendFacts

\* A poll returns a stretch of the chat that starts no later than after after_id.
LEMMA PageReturned ==
    ASSUME TypeOK, PollReturns
    PROVE  /\ UNCHANGED <<log, ids, fifo, afterID, accepted, delivered>>
           /\ loop = "polling" /\ loop' \in {"waiting", "reading"}
           /\ PageContiguous'
           /\ loop' = "reading" => Place' \in 1..(afterID + 1)
<1>1. PICK first \in 1..(afterID + 1), n \in 0..PageMax :
        /\ first + n - 1 <= Len(log)
        /\ page' = Page(first, n) /\ Turns(IF n = 0 THEN "waiting" ELSE "reading")
    BY DEF PollReturns
<1>2. afterID \in Nat /\ PageMax \in Nat /\ Len(log) \in Nat
    <2>1. log \in Seq(Authors) /\ afterID \in Nat
        BY DEF TypeOK
    <2>2. PageMax \in Nat
        BY BoundsAssumption
    <2> QED
        BY <2>1, <2>2
<1>3. first \in Nat \ {0} /\ n \in Nat
    BY <1>1, <1>2
<1>4. /\ page' \in Seq(Nat) /\ Len(page') = n
      /\ \A i \in 1..n : page'[i] = first + i - 1
    <2>1. page' = [i \in 1..n |-> first + i - 1]
        BY <1>1 DEF Page
    <2>2. page' \in Seq(Nat) /\ Len(page') = n
        BY <1>3, <2>1
    <2> QED
        BY <2>1, <2>2
<1>5. ASSUME NEW i \in 1..n PROVE page'[i] = page'[1] + i - 1 /\ page'[i] \in 1..Len(log)
    <2>1. 1 \in 1..n
        BY <1>3, <1>5
    <2>2. page'[1] = first + 1 - 1 /\ page'[i] = first + i - 1
        BY <1>4, <2>1
    <2> QED
        BY <1>1, <1>2, <1>3, <2>2
<1>6. loop' = "reading" => Place' \in 1..(afterID + 1)
    <2> HAVE loop' = "reading"
    <2>1. n # 0
        BY <1>1 DEF Turns
    <2>2. 1 \in 1..n /\ page'[1] = first + 1 - 1
        BY <1>3, <1>4, <2>1
    <2>3. page' # <<>>
        BY <1>4, <2>1
    <2>4. Head(page') = page'[1]
        BY <1>4, <2>3, TailFacts
    <2>5. Place' = first
        BY <1>3, <2>2, <2>4 DEF Place
    <2> QED
        BY <1>1, <2>5
<1>7. /\ UNCHANGED <<log, ids, fifo, afterID, accepted, delivered>>
      /\ loop = "polling" /\ loop' \in {"waiting", "reading"}
    BY <1>1 DEF PollReturns, Turns, window, channel
<1>8. PageContiguous'
    BY <1>4, <1>5, <1>7, Zenon DEF PageContiguous
<1> QED
    BY <1>6, <1>7, <1>8

\* The loop never holds an id or a place outside the chat.
LEMMA NextInChat == TypeOK /\ TypeOK' /\ ChatInv /\ [Next]_vars => ChatInv'
<1> SUFFICES ASSUME TypeOK, TypeOK', ChatInv, [Next]_vars PROVE ChatInv'
    OBVIOUS
<1> USE DEF window, channel
<1>1. CASE Idle
    <2>1. InChat'
        BY <1>1, Zenon DEF ChatInv, InChat, Idle
    <2>2. CASE page' = page
        BY <1>1, <2>1, <2>2, Zenon DEF ChatInv, PageContiguous, Idle
    <2>3. CASE page' = <<>>
        <3>1. 1..Len(page') = {}
            BY <2>3
        <3> QED
            BY <2>1, <3>1 DEF ChatInv, PageContiguous
    <2> QED
        BY <1>1, <2>2, <2>3 DEF Idle
<1>2. CASE MessagePosted
    <2>1. /\ Len(log) \in Nat /\ Len(log') = Len(log) + 1
          /\ UNCHANGED <<ids, afterID, delivered, page>>
        BY <1>2, ChatGrows DEF MessagePosted
    <2>2. \A i \in 1..Len(log) : i \in 1..Len(log')
        BY <2>1
    <2>3. \A i \in 0..Len(log) : i \in 0..Len(log')
        BY <2>1
    <2>4. InChat'
        <3>1. ids' \subseteq 1..Len(log')
            BY <2>1, <2>2, Zenon DEF ChatInv, InChat
        <3>2. afterID' \in 0..Len(log')
            BY <2>1, <2>3, Zenon DEF ChatInv, InChat
        <3>3. \A i \in 1..Len(delivered') : delivered'[i] \in 1..Len(log')
            BY <2>1, <2>2, Zenon DEF ChatInv, InChat
        <3> QED
            BY <3>1, <3>2, <3>3, Zenon DEF InChat
    <2>5. PageContiguous'
        BY <2>1, <2>2, Zenon DEF ChatInv, PageContiguous
    <2> QED
        BY <2>4, <2>5, Zenon DEF ChatInv
<1>3. CASE PollReturns
    BY <1>3, PageReturned, Zenon DEF ChatInv, InChat
<1>4. CASE SkipDuplicate
    <2>1. UNCHANGED <<log, ids, afterID, delivered>> /\ Continue /\ loop = "reading"
        BY <1>4, Zenon DEF SkipDuplicate, Read
    <2>2. PageContiguous'
        BY <2>1, ContinueInChat
    <2> QED
        BY <2>1, <2>2, Zenon DEF ChatInv, InChat
<1>5. CASE Accept
    <2>1. UNCHANGED <<log, delivered>> /\ loop = "reading" /\ Place \in 1..Len(log)
        BY <1>5, PlaceInChat DEF Accept, Read
    <2>2. ids' \subseteq ids \cup {Place} /\ afterID' = Place
        BY <1>5 DEF Accept, Add, NewAfterID
    <2>3. InChat'
        <3>1. afterID' \in 0..Len(log)
            BY <2>1, <2>2
        <3> QED
            BY <2>1, <2>2, <3>1, Zenon DEF ChatInv, InChat
    <2>4. PageContiguous'
        <3>1. Continue \/ page' = page
            BY <1>5, Zenon DEF Accept
        <3>2. CASE Continue
            BY <2>1, <3>2, ContinueInChat
        <3>3. CASE page' = page
            BY <2>1, <3>3, Zenon DEF ChatInv, PageContiguous
        <3> QED
            BY <3>1, <3>2, <3>3
    <2> QED
        BY <2>3, <2>4, Zenon DEF ChatInv
<1>6. CASE AcceptWithoutID
    BY <1>6, Zenon DEF AcceptWithoutID, ChatInv, InChat, PageContiguous
<1>7. CASE Deliver
    <2>1. /\ UNCHANGED <<log, ids, afterID>> /\ loop = "sending" /\ Continue
          /\ Place \in 1..Len(log) /\ delivered' = Append(delivered, Place)
        BY <1>7, PlaceInChat DEF Deliver
    <2>2. PageContiguous'
        BY <2>1, ContinueInChat
    <2>3. ASSUME NEW i \in 1..Len(delivered') PROVE delivered'[i] \in 1..Len(log)
        <3>1. delivered \in Seq(Nat) /\ Place \in Nat /\ Len(delivered) \in Nat
            BY <2>1 DEF TypeOK
        <3>2. /\ Len(delivered') = Len(delivered) + 1 /\ delivered'[Len(delivered) + 1] = Place
              /\ \A j \in 1..Len(delivered) : delivered'[j] = delivered[j]
            BY <2>1, <3>1, AppendFacts
        <3>3. i \in 1..Len(delivered) \/ i = Len(delivered) + 1
            BY <3>1, <3>2
        <3> QED
            BY <2>1, <3>2, <3>3, Zenon DEF ChatInv, InChat
    <2> QED
        BY <2>1, <2>2, <2>3, Zenon DEF ChatInv, InChat
<1> QED
    BY <1>1, <1>2, <1>3, <1>4, <1>5, <1>6, <1>7, StepCases

\* No message of this endpoint passes the filter, or is delivered.
LEMMA NextEcho == TypeOK /\ ChatInv /\ EchoInv /\ [Next]_vars => EchoInv'
<1> SUFFICES ASSUME TypeOK, ChatInv, EchoInv, [Next]_vars PROVE EchoInv'
    OBVIOUS
<1> USE DEF window, channel
<1>1. CASE Idle
    <2>1. NoEcho'
        BY <1>1, Zenon DEF EchoInv, NoEcho, Idle
    <2>2. FilteredBeforeSend'
        BY <1>1 DEF EchoInv, FilteredBeforeSend, Idle, Echo, Place
    <2> QED
        BY <2>1, <2>2 DEF EchoInv
<1>2. CASE MessagePosted
    <2>1. \A i \in 1..Len(log) : log'[i] = log[i]
        BY <1>2, ChatGrows
    <2>2. UNCHANGED <<loop, page, delivered>>
        BY <1>2, Zenon DEF MessagePosted
    <2>3. loop = "sending" => log'[Place] = log[Place] /\ Place' = Place
        BY <2>1, <2>2, PlaceInChat DEF Place
    <2>4. FilteredBeforeSend'
        BY <2>2, <2>3, Zenon DEF EchoInv, FilteredBeforeSend, Echo
    <2>5. NoEcho'
        BY <2>1, <2>2, Zenon DEF EchoInv, NoEcho, ChatInv, InChat
    <2> QED
        BY <2>4, <2>5 DEF EchoInv
<1>3. CASE PollReturns
    <2>1. loop' # "sending" /\ UNCHANGED <<log, delivered>>
        BY <1>3, PageReturned
    <2> QED
        BY <2>1, Zenon DEF EchoInv, FilteredBeforeSend, NoEcho
<1>4. CASE SkipDuplicate
    <2>1. loop' # "sending" /\ UNCHANGED <<log, delivered>>
        BY <1>4, ContinueTyped DEF SkipDuplicate, Read
    <2> QED
        BY <2>1, Zenon DEF EchoInv, FilteredBeforeSend, NoEcho
<1>5. CASE Accept
    <2>1. UNCHANGED <<log, delivered>>
        BY <1>5, Zenon DEF Accept
    <2>2. CASE Echo(log[Place])
        <3>1. loop' # "sending"
            BY <1>5, <2>2, ContinueTyped DEF Accept, Read
        <3> QED
            BY <2>1, <3>1, Zenon DEF EchoInv, FilteredBeforeSend, NoEcho
    <2>3. CASE ~Echo(log[Place])
        <3>1. page' = page
            BY <1>5, <2>3, Zenon DEF Accept
        <3>2. Place' = Place
            BY <3>1, Zenon DEF Place
        <3> QED
            BY <2>1, <2>3, <3>2, Zenon DEF EchoInv, FilteredBeforeSend, NoEcho, Echo
    <2> QED
        BY <2>2, <2>3
<1>6. CASE AcceptWithoutID
    <2>1. UNCHANGED <<log, delivered, page>> /\ log[Place] = "anon"
        BY <1>6, Zenon DEF AcceptWithoutID, HasID
    <2>2. ~Echo(log[Place])
        BY <2>1, BoundsAssumption DEF Echo
    <2>3. Place' = Place
        BY <2>1, Zenon DEF Place
    <2> QED
        BY <2>1, <2>2, <2>3, Zenon DEF EchoInv, FilteredBeforeSend, NoEcho, Echo
<1>7. CASE Deliver
    <2>1. /\ log' = log /\ loop = "sending" /\ loop' # "sending"
          /\ delivered' = Append(delivered, Place) /\ Place \in Nat
        BY <1>7, ContinueTyped, PlaceInChat DEF Deliver
    <2>2. FromHandle # "" => log[Place] # "self"
        BY <2>1, BoundsAssumption DEF EchoInv, FilteredBeforeSend, Echo
    <2>3. NoEcho'
        <3>1. delivered \in Seq(Nat) /\ Len(delivered) \in Nat
            BY DEF TypeOK
        <3>2. /\ Len(delivered') = Len(delivered) + 1 /\ delivered'[Len(delivered) + 1] = Place
              /\ \A j \in 1..Len(delivered) : delivered'[j] = delivered[j]
            BY <2>1, <3>1, AppendFacts
        <3>3. \A i \in 1..Len(delivered') : i \in 1..Len(delivered) \/ i = Len(delivered) + 1
            BY <3>1, <3>2
        <3> QED
            BY <2>1, <2>2, <3>2, <3>3, Zenon DEF EchoInv, NoEcho
    <2> QED
        BY <2>1, <2>3, Zenon DEF EchoInv, FilteredBeforeSend
<1> QED
    BY <1>1, <1>2, <1>3, <1>4, <1>5, <1>6, <1>7, StepCases

\* after_id and the window never run ahead of the deliveries.
LEMMA NextCaught == TypeOK /\ ChatInv /\ EchoInv /\ Caught /\ [Next]_vars => Caught'
<1> SUFFICES ASSUME TypeOK, ChatInv, EchoInv, Caught, [Next]_vars, loop' # "stopped"
             PROVE  /\ \A i \in 1..afterID' : Settled(i)'
                    /\ \A i \in ids' : Settled(i)'
                    /\ loop' \in {"reading", "sending"} => \A i \in 1..(Place' - 1) : Handled(i)'
    BY Zenon DEF Caught
<1> USE DEF window, channel
<1>1. CASE Idle
    <2>1. CASE page' = page /\ loop' = loop
        BY <1>1, <2>1, Zenon DEF Idle, Caught, Settled, Handled, Place
    <2>2. CASE loop \notin {"sending", "stopped"} /\ loop' \notin {"reading", "sending"}
        <3>1. \A i : Settled(i) => Settled(i)'
            BY <1>1, <2>2 DEF Idle, Settled, Handled
        <3>2. UNCHANGED <<ids, afterID>>
            BY <1>1, Zenon DEF Idle
        <3> QED
            BY <2>2, <3>1, <3>2 DEF Caught
    <2> QED
        BY <1>1, <2>1, <2>2 DEF Idle
<1>2. CASE MessagePosted
    <2>1. \A i \in 1..Len(log) : log'[i] = log[i]
        BY <1>2, ChatGrows
    <2>2. UNCHANGED <<loop, page, delivered, ids, afterID>>
        BY <1>2, Zenon DEF MessagePosted
    <2>3. Place' = Place
        BY <2>2, Zenon DEF Place
    <2>4. \A i \in 1..Len(log) : Handled(i) => Handled(i)'
        BY <2>1, <2>2, Zenon DEF Handled
    <2>5. \A i \in 1..Len(log) : Settled(i) => Settled(i)'
        BY <2>2, <2>3, <2>4, Zenon DEF Settled
    <2>6. \A i \in 1..afterID : i \in 1..Len(log)
        <3>1. afterID \in 0..Len(log) /\ Len(log) \in Nat
            BY <1>2, ChatGrows DEF ChatInv, InChat
        <3> QED
            BY <3>1
    <2>7. loop \in {"reading", "sending"} => \A i \in 1..(Place - 1) : i \in 1..Len(log)
        <3> HAVE loop \in {"reading", "sending"}
        <3>1. Place \in 1..Len(log) /\ Len(log) \in Nat
            BY PlaceInChat
        <3> QED
            BY <3>1
    <2>8. ids \subseteq 1..Len(log)
        BY Zenon DEF ChatInv, InChat
    <2>9. /\ \A i \in 1..afterID : Settled(i)
          /\ \A i \in ids : Settled(i)
          /\ loop \in {"reading", "sending"} => \A i \in 1..(Place - 1) : Handled(i)
        BY <2>2, Zenon DEF Caught
    <2> QED
        BY <2>2, <2>3, <2>4, <2>5, <2>6, <2>7, <2>8, <2>9, Zenon
<1>3. CASE PollReturns
    <2>1. /\ UNCHANGED <<log, ids, afterID, delivered>> /\ loop = "polling"
          /\ loop' \in {"waiting", "reading"}
          /\ loop' = "reading" => Place' \in 1..(afterID + 1)
        BY <1>3, PageReturned
    <2>2. /\ \A i \in 1..afterID : Handled(i)
          /\ \A i \in ids : Handled(i)
        BY <2>1 DEF Caught, Settled
    <2>3. \A i : Handled(i) => Handled(i)' /\ Settled(i)'
        BY <2>1, Zenon DEF Handled, Settled
    <2>4. loop' = "reading" => \A i \in 1..(Place' - 1) : i \in 1..afterID
        <3>1. afterID \in Nat
            BY DEF TypeOK
        <3> QED
            BY <2>1, <3>1
    <2> QED
        BY <2>1, <2>2, <2>3, <2>4
<1>4. CASE loop = "reading" /\ (SkipDuplicate \/ Accept \/ AcceptWithoutID)
    <2>1. /\ \A i \in 1..afterID : Handled(i)
          /\ \A i \in ids : Handled(i)
          /\ \A i \in 1..(Place - 1) : Handled(i)
        BY <1>4 DEF Caught, Settled
    <2>2. UNCHANGED <<log, delivered>>
        BY <1>4, Zenon DEF SkipDuplicate, Accept, AcceptWithoutID
    <2>3. \A i : Handled(i) => Handled(i)' /\ Settled(i)'
        BY <2>2, Zenon DEF Handled, Settled
    <2>4. Place \in Nat
        BY <1>4, PlaceInChat
    <2>5. ASSUME Continue, Handled(Place)
          PROVE  loop' \in {"reading", "sending"} => \A i \in 1..(Place' - 1) : Handled(i)'
        <3> HAVE loop' \in {"reading", "sending"}
        <3>1. Place' = Place + 1
            BY <1>4, <2>2, <2>5, ContinueInChat
        <3>2. \A i \in 1..(Place' - 1) : i \in 1..(Place - 1) \/ i = Place
            BY <2>4, <3>1
        <3> QED
            BY <2>1, <2>3, <2>5, <3>2, Zenon
    <2>6. CASE SkipDuplicate
        <3>1. Place \in ids /\ Continue /\ UNCHANGED <<ids, afterID>>
            BY <2>6, Zenon DEF SkipDuplicate
        <3> QED
            BY <2>1, <2>3, <2>5, <3>1, Zenon
    <2>7. CASE AcceptWithoutID
        <3>1. UNCHANGED <<ids, afterID, page>>
            BY <2>7, Zenon DEF AcceptWithoutID
        <3>2. Place' = Place
            BY <3>1, Zenon DEF Place
        <3> QED
            BY <2>1, <2>3, <3>1, <3>2, Zenon
    <2>8. CASE Accept
        <3>1. afterID' = Place /\ ids' \subseteq ids \cup {Place}
            BY <2>8 DEF Accept, Add, NewAfterID
        <3>2. \A i \in 1..afterID' : i \in 1..(Place - 1) \/ i = Place
            BY <2>4, <3>1
        <3>3. CASE Echo(log[Place])
            <4>1. Handled(Place) /\ Continue
                BY <2>8, <3>3, BoundsAssumption DEF Accept, Echo, Handled
            <4> QED
                BY <2>1, <2>3, <2>5, <3>1, <3>2, <4>1, Zenon
        <3>4. CASE ~Echo(log[Place])
            <4>1. loop' = "sending" /\ page' = page
                BY <2>8, <3>4, Zenon DEF Accept
            <4>2. Place' = Place
                BY <4>1, Zenon DEF Place
            <4>3. Settled(Place)'
                BY <4>1, <4>2, Zenon DEF Settled
            <4> QED
                BY <2>1, <2>3, <3>1, <3>2, <4>2, <4>3, Zenon
        <3> QED
            BY <3>3, <3>4
    <2> QED
        BY <1>4, <2>6, <2>7, <2>8
<1>5. CASE Deliver
    <2>1. PICK p \in Nat :
            /\ p = Place /\ delivered' = Append(delivered, p)
            /\ UNCHANGED <<log, ids, afterID>> /\ loop = "sending" /\ Continue
        BY <1>5, PlaceInChat DEF Deliver
    <2>2. delivered \in Seq(Nat) /\ Len(delivered) \in Nat
        BY DEF TypeOK
    <2>3. /\ Len(delivered') = Len(delivered) + 1 /\ delivered'[Len(delivered) + 1] = p
          /\ \A j \in 1..Len(delivered) : delivered'[j] = delivered[j]
        BY <2>1, <2>2, AppendFacts
    <2>4. /\ \A j \in 1..Len(delivered) : j \in 1..Len(delivered')
          /\ Len(delivered) + 1 \in 1..Len(delivered')
        BY <2>2, <2>3
    <2>5. \A i : Handled(i) => Handled(i)'
        BY <2>1, <2>3, <2>4, Zenon DEF Handled
    <2>6. Handled(p)'
        BY <2>3, <2>4, Zenon DEF Handled
    <2>7. \A i : Settled(i) => Handled(i)' /\ Settled(i)'
        BY <2>1, <2>5, <2>6 DEF Settled
    <2>8. loop' \in {"reading", "sending"} => \A i \in 1..(Place' - 1) : Handled(i)'
        <3> HAVE loop' \in {"reading", "sending"}
        <3>1. Place' = p + 1
            BY <2>1, ContinueInChat
        <3>2. \A i \in 1..(Place' - 1) : i \in 1..(p - 1) \/ i = p
            BY <3>1
        <3>3. \A i \in 1..(p - 1) : Handled(i)
            BY <2>1 DEF Caught
        <3> QED
            BY <2>5, <2>6, <3>2, <3>3, Zenon
    <2> QED
        BY <2>1, <2>7, <2>8 DEF Caught
<1> QED
    BY <1>1, <1>2, <1>3, <1>4, <1>5, StepCases DEF SkipDuplicate, Accept, AcceptWithoutID, Read

-----------------------------------------------------------------------------
(* The theorems. *)

\* The window changes in Accept only.
LEMMA NextWindow == TypeOK /\ WindowInv /\ [Next]_vars => WindowInv'
<1> SUFFICES ASSUME TypeOK, WindowInv, [Next]_vars PROVE WindowInv'
    OBVIOUS
<1>1. CASE Accept
    BY <1>1, AcceptKeepsWindow
<1>2. CASE ~Accept
    <2>1. UNCHANGED <<ids, fifo, accepted>>
        <3>1. CASE Idle
            BY <3>1, Zenon DEF Idle
        <3>2. CASE MessagePosted \/ SkipDuplicate \/ AcceptWithoutID \/ Deliver
            BY <3>2, Zenon DEF MessagePosted, SkipDuplicate, AcceptWithoutID, Deliver, window
        <3>3. CASE PollReturns
            BY <3>3, PageReturned
        <3> QED
            BY <1>2, <3>1, <3>2, <3>3, StepCases
    <2> QED
        BY <2>1, Zenon DEF WindowInv, WindowConsistent, WindowIsRecent, NoEarlyDuplicate
<1> QED
    BY <1>1, <1>2

\* The transport starts in the invariant.
LEMMA InitInv == Init => TransportInv
<1> SUFFICES ASSUME Init PROVE TransportInv
    OBVIOUS
<1>1. TypeOK
    BY InitTyped
<1>2. /\ log = <<>> /\ ids = {} /\ fifo = <<>> /\ afterID = 0 /\ accepted = <<>>
      /\ page = <<>> /\ delivered = <<>> /\ loop = "idle"
    BY DEF Init
<1>3. /\ Len(fifo) = 0 /\ Len(log) = 0 /\ Len(accepted) = 0 /\ Len(delivered) = 0
      /\ Len(page) = 0 /\ 1..0 = {}
    BY <1>2
<1>4. ChatInv
    BY <1>2, <1>3 DEF ChatInv, InChat, PageContiguous
<1>5. WindowInv
    <2>1. WindowConsistent
        BY <1>2, <1>3, WindowAssumption DEF WindowConsistent
    <2>2. WindowIsRecent
        BY <1>2, <1>3, WindowAssumption DEF WindowIsRecent
    <2>3. NoEarlyDuplicate
        BY <1>3 DEF NoEarlyDuplicate
    <2> QED
        BY <2>1, <2>2, <2>3 DEF WindowInv
<1>6. EchoInv
    BY <1>2, <1>3 DEF EchoInv, FilteredBeforeSend, NoEcho
<1>7. Caught
    BY <1>2, <1>3 DEF Caught
<1> QED
    BY <1>1, <1>4, <1>5, <1>6, <1>7 DEF TransportInv

\* Types, window, chat, echo filter and deliveries together are inductive.
THEOREM TransportInvariant == Spec => []TransportInv
<1>1. Init => TransportInv
    BY InitInv
<1>2. TransportInv /\ [Next]_vars => TransportInv'
    BY NextTyped, NextInChat, NextWindow, NextEcho, NextCaught DEF TransportInv
<1> QED
    BY <1>1, <1>2, PTL DEF Spec

\* The map and the queue of the dedupe window agree and stay within dedupe_max_ids, for
\* every capacity and whatever the server replays.
THEOREM WindowAlwaysConsistent == Spec => []WindowConsistent
<1>1. TransportInv => WindowConsistent
    BY DEF TransportInv, WindowInv
<1> QED
    BY <1>1, TransportInvariant, PTL

\* A message passes the window a second time only after dedupe_max_ids others, for every
\* capacity: what the comment of dedupeSet promises, and the least it could.
THEOREM NoEarlyDuplicateAlways == Spec => []NoEarlyDuplicate
<1>1. TransportInv => NoEarlyDuplicate
    BY DEF TransportInv, WindowInv
<1> QED
    BY <1>1, TransportInvariant, PTL

\* An endpoint that knows its handle never receives its own messages.
THEOREM NoEchoAlways == Spec => []NoEcho
<1>1. TransportInv => NoEcho
    BY DEF TransportInv, EchoInv
<1> QED
    BY <1>1, TransportInvariant, PTL

\* after_id never passes a message of the peer that was not delivered, although it advances
\* before the delivery, jumps back on a replay and does not move for messages without an id.
THEOREM NothingSkippedAlways == Spec => []NothingSkipped
<1>1. TransportInv => NothingSkipped
    BY Zenon DEF TransportInv, Caught, Settled, Handled, NothingSkipped
<1> QED
    BY <1>1, TransportInvariant, PTL
=============================================================================
