------------------------- MODULE RelayMetricsProofs -------------------------
(***************************************************************************)
(* The counters of RelayExchange account for every request, for any number *)
(* of requests, handlers and chunks and any of the faults. Each side is an *)
(* invariant of its own: a counter equals the sizes of sets of requests or *)
(* of handlers, which have to be known finite at every step, though        *)
(* Requests and Handlers need not be.                                      *)
(***************************************************************************)
EXTENDS RelayExchangeProofs

Lost    == Ended({"bad_body", "denied", "cut"})
Told    == Ended({"ok", "hit"})
Working == {h \in Handlers : hpc[h] \notin {"free", "dead"}}
Answered == {h \in Handlers : hpc[h] = "done" \/ (hpc[h] = "failed" /\ outcome[h] # "ok")}

ProxyAccount ==
    /\ IsFiniteSet(Running) /\ IsFiniteSet(Lost) /\ IsFiniteSet(Told)
    /\ metrics["ProxyRequests"] = metrics["ProxyResponses"] + metrics["ProxyErrors"]
         + Cardinality(Running) + Cardinality(Lost)
    /\ metrics["ProxyResponses"] = Cardinality(Told)

ExitAccount ==
    /\ IsFiniteSet(Working)
    /\ metrics["ExitRequests"] = Cardinality(Working)
    /\ metrics["ExitResponses"] + metrics["ExitErrors"] = Cardinality(Answered)

AccountInv == Unanswered /\ ProxyAccount /\ ExitAccount

-----------------------------------------------------------------------------
(* Counting. *)

\* A finite set with one more element.
LEMMA OneMore ==
    ASSUME NEW S, IsFiniteSet(S), NEW x, x \notin S
    PROVE  /\ IsFiniteSet(S \cup {x}) /\ Cardinality(S) \in Nat
           /\ Cardinality(S \cup {x}) = Cardinality(S) + 1
  BY FS_AddElement, FS_CardinalityType

\* A finite set with one element less.
LEMMA OneLess ==
    ASSUME NEW S, IsFiniteSet(S), NEW x \in S
    PROVE  /\ IsFiniteSet(S \ {x}) /\ Cardinality(S \ {x}) \in Nat /\ Cardinality(S) \in Nat
           /\ Cardinality(S) = Cardinality(S \ {x}) + 1
<1>1. IsFiniteSet(S \ {x}) /\ Cardinality(S \ {x}) = Cardinality(S) - 1
  BY FS_RemoveElement
<1>2. Cardinality(S) \in Nat /\ Cardinality(S \ {x}) \in Nat
  BY <1>1, FS_CardinalityType
<1> QED
  BY <1>1, <1>2

\* What Count does to each of the six counters.
LEMMA CountOf ==
    ASSUME NEW names, Count(names), metrics \in [Counters -> Nat]
    PROVE  /\ metrics' \in [Counters -> Nat]
           /\ \A c \in Counters : /\ c \in names => metrics'[c] = metrics[c] + 1
                                  /\ c \notin names => metrics'[c] = metrics[c]
  BY DEF Count

\* The six counters by name.
LEMMA CounterNames ==
    {"ProxyRequests", "ProxyResponses", "ProxyErrors", "ExitRequests", "ExitResponses",
     "ExitErrors"} = Counters
  BY DEF Counters, ExitCounters

\* The sums of the proxy's account: requests, responses, errors, pending and lost.
Balanced(a, b, c, p, l) == a = b + c + p + l

\* The ways in which a step of the proxy moves one request from one summand to another.
LEMMA Balances ==
    ASSUME TypeInv, ProxyAccount,
           NEW a, a = metrics["ProxyRequests"], NEW b, b = metrics["ProxyResponses"],
           NEW c, c = metrics["ProxyErrors"],
           NEW p, p = Cardinality(Running), NEW l, l = Cardinality(Lost)
    PROVE  /\ Balanced(a + 1, b + 1, c, p, l)
           /\ Balanced(a + 1, b, c + 1, p, l)
           /\ Balanced(a + 1, b, c, p + 1, l)
           /\ Balanced(a + 1, b, c, p, l + 1)
           /\ \A k \in Nat : p = k + 1 => /\ Balanced(a, b + 1, c, k, l)
                                          /\ Balanced(a, b, c + 1, k, l)
           /\ a \in Nat /\ b \in Nat /\ c \in Nat /\ p \in Nat /\ l \in Nat
           /\ Balanced(a, b, c, p, l)
<1>1. metrics \in [Counters -> Nat]
  BY DEF TypeInv
<1>2. a \in Nat /\ b \in Nat /\ c \in Nat
  BY <1>1, CounterNames
<1>3. p \in Nat /\ l \in Nat
  BY FS_CardinalityType DEF ProxyAccount
<1>4. Balanced(a, b, c, p, l)
  BY DEF ProxyAccount, Balanced
<1> QED
  BY <1>2, <1>3, <1>4 DEF Balanced

-----------------------------------------------------------------------------
(* The proxy's side. *)

\* The sets after a request ends with an answer.
LEMMA EndsSets ==
    ASSUME TypeInv, Unanswered, NEW r \in Requests, pc[r] # "done", NEW kind, NEW execs,
           Ends(r, Answer(kind, execs))
    PROVE  /\ Running' = Running \ {r}
           /\ r \notin Lost /\ r \notin Told
           /\ Lost' = IF kind \in {"bad_body", "denied", "cut"} THEN Lost \cup {r} ELSE Lost
           /\ Told' = IF kind \in {"ok", "hit"} THEN Told \cup {r} ELSE Told
<1>1. /\ pc \in [Requests -> {"idle", "sending", "waiting", "done"}]
      /\ reply \in [Requests -> Replies] /\ reply[r].kind = "none"
  BY DEF TypeInv, ProxyInv, ProxyTypes, Unanswered
<1>2. /\ pc'[r] = "done" /\ reply'[r].kind = kind
      /\ \A q \in Requests \ {r} : pc'[q] = pc[q] /\ reply'[q] = reply[q]
  BY <1>1 DEF Ends, Answer
<1>3. Running' = Running \ {r}
  BY <1>2 DEF Running, InFlight
<1>4. r \notin Lost /\ r \notin Told
  BY <1>1 DEF Lost, Told, Ended
<1>5. Lost' = IF kind \in {"bad_body", "denied", "cut"} THEN Lost \cup {r} ELSE Lost
  BY <1>1, <1>2 DEF Lost, Ended
<1>6. Told' = IF kind \in {"ok", "hit"} THEN Told \cup {r} ELSE Told
  BY <1>1, <1>2 DEF Told, Ended
<1> QED
  BY <1>3, <1>4, <1>5, <1>6

\* An idle request ends: nothing was pending.
LEMMA ProxyRefuses ==
    ASSUME TypeInv, Unanswered, ProxyAccount, NEW r \in Requests, RefuseLocally(r) \/ TooMany(r)
    PROVE  ProxyAccount'
<1>1. PICK why \in LocalRefusals :
         /\ Ends(r, Answer(why, {}))
         /\ Count(CASE why = "not_implemented" -> {}
                    [] why = "too_many" -> {"ProxyRequests", "ProxyErrors"}
                    [] OTHER -> {"ProxyRequests"})
         /\ pc[r] = "idle"
  BY DEF RefuseLocally, TooMany, LocalRefusals
<1>2. /\ Running' = Running \ {r} /\ r \notin Lost /\ Told' = Told
      /\ Lost' = IF why \in {"bad_body", "denied", "cut"} THEN Lost \cup {r} ELSE Lost
  BY <1>1, EndsSets DEF LocalRefusals
<1>3. Running' = Running
  BY <1>1, <1>2 DEF Running, InFlight
<1>4. metrics \in [Counters -> Nat]
  BY DEF TypeInv
<1>5. IsFiniteSet(Lost)
  BY DEF ProxyAccount
<1> DEFINE a == metrics["ProxyRequests"]
           b == metrics["ProxyResponses"]
           c == metrics["ProxyErrors"]
           p == Cardinality(Running)
           l == Cardinality(Lost)
<1>b. Balanced(a + 1, b, c + 1, p, l) /\ Balanced(a + 1, b, c, p, l + 1)
  BY Balances
<1>6. CASE why = "not_implemented"
  <2>1. Lost' = Lost
    BY <1>2, <1>6
  <2>2. \A name \in Counters : metrics'[name] = metrics[name]
    BY <1>1, <1>4, <1>6, CountOf
  <2> QED
    BY <1>2, <1>3, <2>1, <2>2, CounterNames DEF ProxyAccount
<1>7. CASE why = "too_many"
  <2>1. Lost' = Lost
    BY <1>2, <1>7
  <2>2. Count({"ProxyRequests", "ProxyErrors"})
    BY <1>1, <1>7
  <2>3. /\ metrics'["ProxyRequests"] = metrics["ProxyRequests"] + 1
        /\ metrics'["ProxyErrors"] = metrics["ProxyErrors"] + 1
        /\ metrics'["ProxyResponses"] = metrics["ProxyResponses"]
    BY <1>4, <2>2, CountOf, CounterNames
  <2>4. Balanced(a, b, c, p, l)'
    BY <1>3, <1>b, <2>1, <2>3
  <2> QED
    BY <1>2, <1>3, <2>1, <2>3, <2>4 DEF ProxyAccount, Balanced
<1>8. CASE why \in {"bad_body", "denied"}
  <2>1. Lost' = Lost \cup {r}
    BY <1>2, <1>8
  <2>2. IsFiniteSet(Lost') /\ Cardinality(Lost') = Cardinality(Lost) + 1
    BY <1>2, <1>5, <2>1, OneMore
  <2>3. Count({"ProxyRequests"})
    BY <1>1, <1>8
  <2>4. /\ metrics'["ProxyRequests"] = metrics["ProxyRequests"] + 1
        /\ metrics'["ProxyErrors"] = metrics["ProxyErrors"]
        /\ metrics'["ProxyResponses"] = metrics["ProxyResponses"]
    BY <1>4, <2>3, CountOf, CounterNames
  <2>5. Balanced(a, b, c, p, l)'
    BY <1>3, <1>b, <2>2, <2>4
  <2> QED
    BY <1>2, <1>3, <2>2, <2>4, <2>5 DEF ProxyAccount, Balanced
<1> QED
  BY <1>6, <1>7, <1>8 DEF LocalRefusals

\* A cache hit counts as a request and as a response.
LEMMA ProxyHits ==
    ASSUME TypeInv, Unanswered, ProxyAccount, NEW r \in Requests, ServeFromCache(r)
    PROVE  ProxyAccount'
<1>1. /\ Ends(r, Answer("hit", {})) /\ Count({"ProxyRequests", "ProxyResponses"})
      /\ pc[r] = "idle"
  BY DEF ServeFromCache
<1>2. /\ Running' = Running \ {r} /\ Lost' = Lost
      /\ r \notin Told /\ Told' = Told \cup {r}
  BY <1>1, EndsSets
<1>3. Running' = Running
  BY <1>1, <1>2 DEF Running, InFlight
<1>4. metrics \in [Counters -> Nat] /\ IsFiniteSet(Told)
  BY DEF TypeInv, ProxyAccount
<1>5. IsFiniteSet(Told') /\ Cardinality(Told') = Cardinality(Told) + 1
  BY <1>2, <1>4, OneMore
<1>6. /\ metrics'["ProxyRequests"] = metrics["ProxyRequests"] + 1
      /\ metrics'["ProxyErrors"] = metrics["ProxyErrors"]
      /\ metrics'["ProxyResponses"] = metrics["ProxyResponses"] + 1
  BY <1>1, <1>4, CountOf, CounterNames
<1> DEFINE a == metrics["ProxyRequests"]
           b == metrics["ProxyResponses"]
           c == metrics["ProxyErrors"]
           p == Cardinality(Running)
           l == Cardinality(Lost)
<1>7. Balanced(a + 1, b + 1, c, p, l)
  BY Balances
<1>8. Balanced(a, b, c, p, l)'
  BY <1>2, <1>3, <1>6, <1>7
<1> QED
  BY <1>2, <1>3, <1>5, <1>6, <1>8 DEF ProxyAccount, Balanced

\* A request is admitted: one more is pending.
LEMMA ProxyAdmits ==
    ASSUME TypeInv, ProxyAccount, NEW r \in Requests, Admit(r)
    PROVE  ProxyAccount'
<1>1. /\ pc \in [Requests -> {"idle", "sending", "waiting", "done"}] /\ pc[r] = "idle"
      /\ pc' = [pc EXCEPT ![r] = "sending"] /\ reply' = reply /\ Count({"ProxyRequests"})
      /\ metrics \in [Counters -> Nat]
  BY DEF Admit, TypeInv, ProxyInv, ProxyTypes
<1>2. Running' = Running \cup {r} /\ r \notin Running /\ Lost' = Lost /\ Told' = Told
  BY <1>1 DEF Running, InFlight, Lost, Told, Ended
<1>3. IsFiniteSet(Running') /\ Cardinality(Running') = Cardinality(Running) + 1
  BY <1>2, OneMore DEF ProxyAccount
<1>4. /\ metrics'["ProxyRequests"] = metrics["ProxyRequests"] + 1
      /\ metrics'["ProxyErrors"] = metrics["ProxyErrors"]
      /\ metrics'["ProxyResponses"] = metrics["ProxyResponses"]
  BY <1>1, CountOf, CounterNames
<1> DEFINE a == metrics["ProxyRequests"]
           b == metrics["ProxyResponses"]
           c == metrics["ProxyErrors"]
           p == Cardinality(Running)
           l == Cardinality(Lost)
<1>5. Balanced(a + 1, b, c, p + 1, l)
  BY Balances
<1>6. Balanced(a, b, c, p, l)'
  BY <1>2, <1>3, <1>4, <1>5
<1> QED
  BY <1>2, <1>3, <1>4, <1>6 DEF ProxyAccount, Balanced

\* A pending request ends with an answer or an error: the counter of that goes up.
LEMMA ProxyAnswers ==
    ASSUME TypeInv, Unanswered, ProxyAccount, NEW r \in Requests, InFlight(r),
           NEW kind \in {"ok", "error", "invalid", "bad_gateway"}, NEW execs,
           Ends(r, Answer(kind, execs)),
           Count({IF kind = "ok" THEN "ProxyResponses" ELSE "ProxyErrors"})
    PROVE  ProxyAccount'
<1>1. /\ Running' = Running \ {r} /\ r \notin Told /\ Lost' = Lost
      /\ Told' = IF kind = "ok" THEN Told \cup {r} ELSE Told
  BY EndsSets DEF InFlight
<1>2. r \in Running
  BY DEF Running
<1>3. /\ IsFiniteSet(Running') /\ Cardinality(Running') \in Nat
      /\ Cardinality(Running) = Cardinality(Running') + 1
  BY <1>1, <1>2, OneLess DEF ProxyAccount
<1>4. metrics \in [Counters -> Nat]
  BY DEF TypeInv
<1> DEFINE a == metrics["ProxyRequests"]
           b == metrics["ProxyResponses"]
           c == metrics["ProxyErrors"]
           p == Cardinality(Running)
           l == Cardinality(Lost)
<1>5. ASSUME NEW k \in Nat, p = k + 1
      PROVE  Balanced(a, b + 1, c, k, l) /\ Balanced(a, b, c + 1, k, l)
  BY <1>5, Balances
<1>6. Balanced(a, b + 1, c, p', l) /\ Balanced(a, b, c + 1, p', l)
  BY <1>3, <1>5
<1>7. CASE kind = "ok"
  <2>1. Count({"ProxyResponses"})
    BY <1>7
  <2>2. a' = a /\ b' = b + 1 /\ c' = c
    BY <1>4, <2>1, CountOf, CounterNames
  <2>3. IsFiniteSet(Told') /\ Cardinality(Told') = Cardinality(Told) + 1
    BY <1>1, <1>7, OneMore DEF ProxyAccount
  <2>4. Balanced(a, b, c, p, l)'
    BY <1>1, <1>6, <2>2
  <2> QED
    BY <1>1, <1>3, <2>2, <2>3, <2>4 DEF ProxyAccount, Balanced
<1>8. CASE kind # "ok"
  <2>1. Count({"ProxyErrors"})
    BY <1>8
  <2>2. a' = a /\ b' = b /\ c' = c + 1
    BY <1>4, <2>1, CountOf, CounterNames
  <2>3. Balanced(a, b, c, p, l)'
    BY <1>1, <1>6, <2>2
  <2> QED
    BY <1>1, <1>3, <1>8, <2>2, <2>3 DEF ProxyAccount, Balanced
<1> QED
  BY <1>7, <1>8

\* runClient returns: what is pending is cut and counts as lost.
LEMMA ProxyCuts ==
    ASSUME TypeInv, Unanswered, ProxyAccount, ProxyExits
    PROVE  ProxyAccount'
<1>1. /\ pc' = [r \in Requests |-> IF InFlight(r) THEN "done" ELSE pc[r]]
      /\ reply' = [r \in Requests |-> IF InFlight(r) THEN Answer("cut", {}) ELSE reply[r]]
      /\ metrics' = metrics
  BY DEF ProxyExits
<1>2. \A r \in Running : r \in Requests /\ reply[r].kind = "none" /\ reply'[r].kind = "cut"
  BY <1>1 DEF Running, InFlight, Unanswered, Answer
<1>3. \A r \in Requests \ Running : reply'[r] = reply[r]
  BY <1>1 DEF Running
<1>4. Running' = {}
  BY <1>1 DEF Running, InFlight
<1>5. Lost' = Lost \cup Running /\ Lost \cap Running = {} /\ Told' = Told
  BY <1>2, <1>3 DEF Lost, Told, Ended
<1>6. IsFiniteSet(Lost') /\ Cardinality(Lost') =
           Cardinality(Lost) + (Cardinality(Running) - Cardinality(Lost \cap Running))
  BY <1>5, FS_Union DEF ProxyAccount
<1>7. IsFiniteSet(Running') /\ Cardinality(Running') = 0 /\ Cardinality(Lost \cap Running) = 0
  BY <1>4, <1>5, FS_EmptySet
<1> DEFINE a == metrics["ProxyRequests"]
           b == metrics["ProxyResponses"]
           c == metrics["ProxyErrors"]
           p == Cardinality(Running)
           l == Cardinality(Lost)
<1>8. /\ a \in Nat /\ b \in Nat /\ c \in Nat /\ p \in Nat /\ l \in Nat
      /\ Balanced(a, b, c, p, l)
  BY Balances
<1>9. l' = l + (p - 0) /\ p' = 0 /\ a' = a /\ b' = b /\ c' = c
  <2>1. l' = l + (p - 0)
    BY <1>6, <1>7, Zenon
  <2>2. a' = a /\ b' = b /\ c' = c /\ p' = 0
    BY <1>1, <1>7
  <2> QED
    BY <2>1, <2>2, Zenon
<1>10. Balanced(a', b', c', p', l')
  <2> HIDE DEF a, b, c, p, l
  <2> QED
    BY <1>8, <1>9 DEF Balanced
<1> QED
  BY <1>1, <1>5, <1>6, <1>7, <1>10 DEF ProxyAccount, Balanced

\* The proxy's counters and requests are as they were.
ProxyIdle ==
    /\ \A c \in {"ProxyRequests", "ProxyResponses", "ProxyErrors"} : metrics'[c] = metrics[c]
    /\ reply' = reply /\ Running' = Running

\* Whatever leaves the proxy's counters and requests alone keeps its account.
LEMMA ProxyStays == ProxyAccount /\ ProxyIdle => ProxyAccount'
<1> SUFFICES ASSUME ProxyAccount, ProxyIdle PROVE ProxyAccount'
  OBVIOUS
<1>1. Lost' = Lost /\ Told' = Told /\ Running' = Running
  BY DEF ProxyIdle, Lost, Told, Ended
<1>2. /\ metrics'["ProxyRequests"] = metrics["ProxyRequests"]
      /\ metrics'["ProxyResponses"] = metrics["ProxyResponses"]
      /\ metrics'["ProxyErrors"] = metrics["ProxyErrors"]
  BY DEF ProxyIdle
<1> QED
  BY <1>1, <1>2 DEF ProxyAccount

\* Each step of a ServeHTTP keeps the proxy's account.
LEMMA ProxyRequestStep ==
    ASSUME TypeInv, Unanswered, ProxyAccount, NEW r \in Requests, RequestStep(r)
    PROVE  ProxyAccount'
<1>1. CASE RefuseLocally(r) \/ ServeFromCache(r) \/ TooMany(r)
  BY <1>1, ProxyRefuses, ProxyHits
<1>2. CASE Admit(r)
  BY <1>2, ProxyAdmits
<1>3. CASE SendRequestChunk(r)
  <2>1. /\ pc \in [Requests -> {"idle", "sending", "waiting", "done"}] /\ pc[r] = "sending"
        /\ \E to \in {"sending", "waiting"} : pc' = [pc EXCEPT ![r] = to]
        /\ reply' = reply /\ metrics' = metrics
    BY <1>3 DEF SendRequestChunk, TypeInv, ProxyInv, ProxyTypes
  <2>2. Running' = Running
    BY <2>1 DEF Running, InFlight
  <2> QED
    BY <2>1, <2>2, ProxyStays DEF ProxyIdle
<1>4. CASE RequestSendFails(r) \/ TimeOut(r)
  <2>1. InFlight(r) /\ Ends(r, Answer("bad_gateway", {})) /\ Count({"ProxyErrors"})
    BY <1>4 DEF RequestSendFails, TimeOut, GiveUp, InFlight
  <2> QED
    BY <2>1, ProxyAnswers
<1>5. CASE Take(r)
  <2>1. InFlight(r)
    BY <1>5 DEF Take, InFlight
  <2>2. PICK execs : \/ Ends(r, Answer("error", execs)) /\ Count({"ProxyErrors"})
                     \/ Ends(r, Answer("ok", execs)) /\ Count({"ProxyResponses"})
                     \/ Ends(r, Answer("invalid", execs)) /\ Count({"ProxyErrors"})
    BY <1>5 DEF Take
  <2> QED
    BY <2>1, <2>2, ProxyAnswers
<1> QED
  BY <1>1, <1>2, <1>3, <1>4, <1>5 DEF RequestStep

\* The other actions leave the proxy's requests alone and count at the exit, if at all.
LEMMA ProxyOtherStep ==
    ASSUME TypeInv, [Next]_vars, ~ProxyExits, \A r \in Requests : ~RequestStep(r)
    PROVE  ProxyIdle
<1>1. UNCHANGED <<pc, reply>>
  BY DEF Next, Dispatch, SessionDies, Stop, ExitReceive, HandlerStep, RefuseAtExit, Perform,
         NotPerformed, UpstreamFails, UpstreamAnswers, Answers, SendResponseChunk,
         ResponseSendFails, Crash, Restart, LoseToExit, LoseToProxy, EvictRequest, EvictResponse,
         AtRest, vars, proxyVars
<1>2. Running' = Running
  BY <1>1 DEF Running, InFlight
<1>3. metrics \in [Counters -> Nat]
  BY DEF TypeInv
<1>4. ASSUME NEW names \in SUBSET ExitCounters, Count(names)
      PROVE  \A c \in Counters \ ExitCounters : metrics'[c] = metrics[c]
  BY <1>3, <1>4, CountOf
<1>5. \A c \in Counters \ ExitCounters : metrics'[c] = metrics[c]
  <2>1. CASE ExitReceive
    <3>1. metrics' = metrics \/ Count({"ExitRequests"})
      BY <2>1 DEF ExitReceive
    <3> QED
      BY <1>4, <3>1 DEF ExitCounters
  <2>2. ASSUME NEW h \in Handlers, SendResponseChunk(h) \/ ResponseSendFails(h)
        PROVE  \A c \in Counters \ ExitCounters : metrics'[c] = metrics[c]
    <3>1. Count({}) \/ Count({"ExitResponses"}) \/ Count({"ExitErrors"})
      BY <2>2 DEF SendResponseChunk, ResponseSendFails, CountedOnFailure
    <3> QED
      BY <1>4, <3>1 DEF ExitCounters
  <2>3. CASE Crash
    BY <2>3 DEF Crash
  <2>4. CASE metrics' = metrics
    BY <2>4
  <2> QED
    BY <2>1, <2>2, <2>3, <2>4
    DEF Next, Dispatch, SessionDies, Stop, HandlerStep, RefuseAtExit, Perform,
        NotPerformed, UpstreamFails, UpstreamAnswers, Answers, Restart, LoseToExit, LoseToProxy,
        EvictRequest, EvictResponse, AtRest, vars
<1>6. {"ProxyRequests", "ProxyResponses", "ProxyErrors"} \subseteq Counters \ ExitCounters
  BY DEF Counters, ExitCounters
<1> QED
  BY <1>1, <1>2, <1>5, <1>6 DEF ProxyIdle

\* Every step of the exchange keeps the proxy's account.
LEMMA ProxyAccountStep ==
    TypeInv /\ Unanswered /\ ProxyAccount /\ [Next]_vars => ProxyAccount'
<1> SUFFICES ASSUME TypeInv, Unanswered, ProxyAccount, [Next]_vars PROVE ProxyAccount'
  OBVIOUS
<1>1. CASE \E r \in Requests : RequestStep(r)
  BY <1>1, ProxyRequestStep
<1>2. CASE ProxyExits
  BY <1>2, ProxyCuts
<1>3. CASE ~ProxyExits /\ \A r \in Requests : ~RequestStep(r)
  BY <1>3, ProxyOtherStep, ProxyStays
<1> QED
  BY <1>1, <1>2, <1>3

-----------------------------------------------------------------------------
(* The exit's side. *)

\* What the exit's account counts is finite.
LEMMA ExitNumbers ==
    ASSUME TypeInv, ExitAccount
    PROVE  /\ metrics \in [Counters -> Nat]
           /\ metrics["ExitRequests"] \in Nat /\ metrics["ExitResponses"] \in Nat
           /\ metrics["ExitErrors"] \in Nat
           /\ IsFiniteSet(Working) /\ IsFiniteSet(Answered)
           /\ Cardinality(Working) \in Nat /\ Cardinality(Answered) \in Nat
<1>1. metrics \in [Counters -> Nat]
  BY DEF TypeInv
<1>2. /\ metrics["ExitRequests"] \in Nat /\ metrics["ExitResponses"] \in Nat
      /\ metrics["ExitErrors"] \in Nat
  BY <1>1, CounterNames
<1>3. Answered \subseteq Working
  BY DEF Answered, Working
<1>4. IsFiniteSet(Working) /\ IsFiniteSet(Answered)
  BY <1>3, FS_Subset DEF ExitAccount
<1> QED
  BY <1>1, <1>2, <1>4, FS_CardinalityType

\* The exit's counters and handlers are as they were.
ExitIdle ==
    /\ \A c \in ExitCounters : metrics'[c] = metrics[c]
    /\ Working' = Working /\ Answered' = Answered

\* Whatever leaves the exit's counters and handlers alone keeps its account.
LEMMA ExitStays == ExitAccount /\ ExitIdle => ExitAccount'
<1> SUFFICES ASSUME ExitAccount, ExitIdle PROVE ExitAccount'
  OBVIOUS
<1>1. /\ metrics'["ExitRequests"] = metrics["ExitRequests"]
      /\ metrics'["ExitResponses"] = metrics["ExitResponses"]
      /\ metrics'["ExitErrors"] = metrics["ExitErrors"]
  BY DEF ExitIdle, ExitCounters
<1> QED
  BY <1>1 DEF ExitIdle, ExitAccount

\* A handler has sent its answer, or its error, whether or not that arrived.
LEMMA ExitAnswers ==
    ASSUME TypeInv, ExitAccount, NEW h \in Handlers, Working' = Working, h \notin Answered,
           Answered' = Answered \cup {h}, NEW name \in {"ExitResponses", "ExitErrors"},
           Count({name})
    PROVE  ExitAccount'
<1> DEFINE a == metrics["ExitResponses"]
           b == metrics["ExitErrors"]
           n == Cardinality(Answered)
<1>1. /\ metrics \in [Counters -> Nat] /\ a \in Nat /\ b \in Nat /\ n \in Nat
      /\ IsFiniteSet(Answered)
  BY ExitNumbers
<1>2. n' = n + 1
  BY <1>1, OneMore
<1>3. metrics'["ExitRequests"] = metrics["ExitRequests"]
  BY <1>1, CountOf, CounterNames
<1>4. a + b = n
  BY DEF ExitAccount
<1>5. a' + b' = n'
  <2>1. CASE name = "ExitResponses"
    <3>1. a' = a + 1 /\ b' = b
      BY <1>1, <2>1, CountOf, CounterNames
    <3> HIDE DEF a, b, n
    <3> QED
      BY <1>1, <1>2, <1>4, <3>1
  <2>2. CASE name = "ExitErrors"
    <3>1. a' = a /\ b' = b + 1
      BY <1>1, <2>2, CountOf, CounterNames
    <3> HIDE DEF a, b, n
    <3> QED
      BY <1>1, <1>2, <1>4, <3>1
  <2> QED
    BY <2>1, <2>2
<1> QED
  BY <1>3, <1>5 DEF ExitAccount

\* A reassembled request is counted as its handler starts.
LEMMA ExitReceives ==
    ASSUME TypeInv, ExitAccount, ExitReceive
    PROVE  ExitAccount'
<1>1. hpc \in [Handlers -> {"free", "run", "called", "reply", "done", "failed", "dead"}]
  BY DEF TypeInv, ExitInv, ExitTypes
<1>2. CASE UNCHANGED <<hpc, metrics>>
  <2>1. outcome' = outcome
    BY DEF ExitReceive
  <2> QED
    BY <1>2, <2>1, ExitStays DEF ExitIdle, Working, Answered
<1>3. ASSUME NEW h \in Handlers, hpc[h] = "free", hpc' = [hpc EXCEPT ![h] = "run"],
             Count({"ExitRequests"})
      PROVE  ExitAccount'
  <2>1. Working' = Working \cup {h} /\ h \notin Working /\ Answered' = Answered
    BY <1>1, <1>3 DEF ExitReceive, Working, Answered
  <2>2. metrics \in [Counters -> Nat] /\ IsFiniteSet(Working) /\ Cardinality(Working) \in Nat
    BY ExitNumbers
  <2>3. IsFiniteSet(Working') /\ Cardinality(Working') = Cardinality(Working) + 1
    BY <2>1, <2>2, OneMore
  <2>4. /\ metrics'["ExitRequests"] = metrics["ExitRequests"] + 1
        /\ metrics'["ExitResponses"] = metrics["ExitResponses"]
        /\ metrics'["ExitErrors"] = metrics["ExitErrors"]
    BY <1>3, <2>2, CountOf, CounterNames
  <2> QED
    BY <2>1, <2>3, <2>4 DEF ExitAccount
<1> QED
  BY <1>2, <1>3 DEF ExitReceive

\* Each step of a handleRequest keeps the exit's account.
LEMMA ExitHandlerStep ==
    ASSUME TypeInv, ExitAccount, NEW h \in Handlers, HandlerStep(h)
    PROVE  ExitAccount'
<1>1. /\ hpc \in [Handlers -> {"free", "run", "called", "reply", "done", "failed", "dead"}]
      /\ outcome \in [Handlers -> Outcomes] /\ metrics \in [Counters -> Nat]
  BY DEF TypeInv, ExitInv, ExitTypes
<1>2. ASSUME NEW code, Answers(h, code), hpc[h] \in {"run", "called"} PROVE ExitAccount'
  BY <1>1, <1>2, ExitStays DEF Answers, ExitIdle, Working, Answered
<1>3. CASE RefuseAtExit(h) \/ NotPerformed(h) \/ UpstreamFails(h) \/ UpstreamAnswers(h)
  BY <1>2, <1>3 DEF RefuseAtExit, NotPerformed, UpstreamFails, UpstreamAnswers
<1>4. CASE Perform(h)
  BY <1>1, <1>4, ExitStays DEF Perform, ExitIdle, Working, Answered
<1>5. CASE SendResponseChunk(h) /\ ~LastChunk(h)
  <2>1. UNCHANGED <<hpc, outcome>> /\ Count({})
    BY <1>1, <1>5 DEF SendResponseChunk
  <2>2. \A c \in Counters : metrics'[c] = metrics[c]
    BY <1>1, <2>1, CountOf
  <2> QED
    BY <2>1, <2>2, ExitStays DEF ExitIdle, Working, Answered, Counters
<1>6. CASE SendResponseChunk(h) /\ LastChunk(h)
  <2>1. /\ hpc[h] = "reply" /\ hpc' = [hpc EXCEPT ![h] = "done"] /\ outcome' = outcome
        /\ Count({"ExitResponses"}) \/ Count({"ExitErrors"})
    BY <1>6 DEF SendResponseChunk
  <2>2. Working' = Working /\ h \notin Answered /\ Answered' = Answered \cup {h}
    BY <1>1, <2>1 DEF Working, Answered
  <2> QED
    BY <2>1, <2>2, ExitAnswers
<1>7. CASE ResponseSendFails(h)
  <2>1. /\ hpc[h] = "reply" /\ hpc' = [hpc EXCEPT ![h] = "failed"] /\ outcome' = outcome
        /\ Count(CountedOnFailure(h))
    BY <1>7 DEF ResponseSendFails
  <2>2. Working' = Working /\ h \notin Answered
    BY <1>1, <2>1 DEF Working, Answered
  <2>3. CASE outcome[h] = "ok"
    <3>1. Answered' = Answered
      BY <1>1, <2>1, <2>3 DEF Answered
    <3>2. \A c \in Counters : metrics'[c] = metrics[c]
      BY <1>1, <2>1, <2>3, CountOf DEF CountedOnFailure
    <3> QED
      BY <2>2, <3>1, <3>2, ExitStays DEF ExitIdle, Counters
  <2>4. CASE outcome[h] # "ok"
    <3>1. Answered' = Answered \cup {h}
      BY <1>1, <2>1, <2>4 DEF Answered
    <3>2. Count({"ExitErrors"})
      BY <2>1, <2>4 DEF CountedOnFailure
    <3> QED
      BY <2>2, <3>1, <3>2, ExitAnswers
  <2> QED
    BY <2>3, <2>4
<1> QED
  BY <1>3, <1>4, <1>5, <1>6, <1>7 DEF HandlerStep

\* A crash loses the handlers and the counters together.
LEMMA ExitCrashes ==
    ASSUME TypeInv, Crash
    PROVE  ExitAccount'
<1>1. Working' = {} /\ Answered' = {}
  BY DEF Crash, Working, Answered
<1>2. /\ metrics'["ExitRequests"] = 0 /\ metrics'["ExitResponses"] = 0
      /\ metrics'["ExitErrors"] = 0
  BY DEF Crash, Counters, ExitCounters
<1> QED
  BY <1>1, <1>2, FS_EmptySet DEF ExitAccount

\* Every step of the exchange keeps the exit's account.
LEMMA ExitAccountStep == TypeInv /\ ExitAccount /\ [Next]_vars => ExitAccount'
<1> SUFFICES ASSUME TypeInv, ExitAccount, [Next]_vars PROVE ExitAccount'
  OBVIOUS
<1>1. CASE ExitReceive
  BY <1>1, ExitReceives
<1>2. CASE \E h \in Handlers : HandlerStep(h)
  BY <1>2, ExitHandlerStep
<1>3. CASE Crash
  BY <1>3, ExitCrashes
<1>4. CASE ~ExitReceive /\ ~Crash /\ \A h \in Handlers : ~HandlerStep(h)
  <2>1. UNCHANGED <<hpc, outcome>>
    BY <1>4
    DEF Next, RequestStep, RefuseLocally, ServeFromCache, Admit, TooMany, SendRequestChunk,
        RequestSendFails, TimeOut, GiveUp, Take, Dispatch, SessionDies, Stop, ProxyExits,
        Restart, LoseToExit, LoseToProxy, EvictRequest, EvictResponse, AtRest, vars, exitVars
  <2>2. metrics \in [Counters -> Nat]
    BY DEF TypeInv
  <2>3. ASSUME NEW r \in Requests, RequestStep(r)
        PROVE  \A c \in ExitCounters : metrics'[c] = metrics[c]
    <3>1. metrics' = metrics \/ \E names \in SUBSET {"ProxyRequests", "ProxyResponses",
                                                    "ProxyErrors"} : Count(names)
      <4>1. CASE RefuseLocally(r) \/ ServeFromCache(r)
        BY <4>1 DEF RefuseLocally, ServeFromCache
      <4>2. CASE Admit(r)
        BY <4>2 DEF Admit
      <4>3. CASE TooMany(r)
        BY <4>3 DEF TooMany
      <4>4. CASE SendRequestChunk(r)
        BY <4>4 DEF SendRequestChunk
      <4>5. CASE RequestSendFails(r) \/ TimeOut(r)
        BY <4>5 DEF RequestSendFails, TimeOut, GiveUp
      <4>6. CASE Take(r)
        BY <4>6 DEF Take
      <4> QED
        BY <2>3, <4>1, <4>2, <4>3, <4>4, <4>5, <4>6 DEF RequestStep
    <3>2. ExitCounters \cap {"ProxyRequests", "ProxyResponses", "ProxyErrors"} = {}
      BY DEF ExitCounters
    <3>3. ExitCounters \subseteq Counters
      BY DEF Counters
    <3>4. ASSUME NEW names \in SUBSET {"ProxyRequests", "ProxyResponses", "ProxyErrors"},
                 Count(names)
          PROVE  \A c \in ExitCounters : metrics'[c] = metrics[c]
      BY <2>2, <3>2, <3>3, <3>4, CountOf
    <3> QED
      BY <3>1, <3>4
  <2>4. \A c \in ExitCounters : metrics'[c] = metrics[c]
    BY <1>4, <2>3
    DEF Next, Dispatch, SessionDies, Stop, ProxyExits, Restart, LoseToExit,
        LoseToProxy, EvictRequest, EvictResponse, AtRest, vars
  <2> QED
    BY <2>1, <2>4, ExitStays DEF ExitIdle, Working, Answered
<1> QED
  BY <1>1, <1>2, <1>3, <1>4

-----------------------------------------------------------------------------
\* At first nothing is counted and there is nothing to count.
LEMMA AccountInit == Init => AccountInv
<1> SUFFICES ASSUME Init PROVE AccountInv
  OBVIOUS
<1>1. /\ pc = [r \in Requests |-> "idle"] /\ reply = [r \in Requests |-> Answer("none", {})]
      /\ hpc = [h \in Handlers |-> "free"] /\ metrics = [c \in Counters |-> 0]
  BY DEF Init, ProxyInit, ExitInit
<1>2. Running = {} /\ Lost = {} /\ Told = {} /\ Unanswered
  BY <1>1 DEF Running, InFlight, Lost, Told, Ended, Answer, Unanswered
<1>3. Working = {} /\ Answered = {}
  BY <1>1 DEF Working, Answered
<1>4. \A c \in Counters : metrics[c] = 0
  BY <1>1
<1>5. /\ metrics["ProxyRequests"] = 0 /\ metrics["ProxyResponses"] = 0
      /\ metrics["ProxyErrors"] = 0
  BY <1>4, CounterNames
<1>6. /\ metrics["ExitRequests"] = 0 /\ metrics["ExitResponses"] = 0 /\ metrics["ExitErrors"] = 0
  BY <1>4, CounterNames
<1>7. IsFiniteSet({}) /\ Cardinality({}) = 0
  BY FS_EmptySet
<1>8. ProxyAccount
  BY <1>2, <1>5, <1>7 DEF ProxyAccount
<1>9. ExitAccount
  BY <1>3, <1>6, <1>7 DEF ExitAccount
<1> QED
  BY <1>2, <1>8, <1>9 DEF AccountInv

\* The six counters account for every request at every moment, whatever fails and however
\* often the exit crashes: no request is counted twice or forgotten.
THEOREM MetricsAlwaysAccount == Spec => []MetricsAccount
<1>1. TypeInv /\ AccountInv /\ [Next]_vars => AccountInv'
  BY UnansweredStep, ProxyAccountStep, ExitAccountStep DEF AccountInv
<1>2. AccountInv => MetricsAccount
  BY DEF AccountInv, ProxyAccount, ExitAccount, MetricsAccount, Lost, Told, Working, Answered
<1> QED
  BY <1>1, <1>2, AccountInit, TypeInit, TypeStep, PTL DEF Spec
=============================================================================
