---------------------------- MODULE MaxTransport ----------------------------
(***************************************************************************)
(* The messenger transport, internal/maxtransport/maxapi.go: Send posts a  *)
(* text to a chat, and the poll loop started by Receive turns repeated     *)
(* GET /messages/poll calls into a channel, skipping the messages it has   *)
(* seen and those this endpoint sent.                                      *)
(*                                                                         *)
(* The MAX server is external: the chat is a log, a message's id is its    *)
(* place in it, and a poll returns a page of the log after after_id or, if *)
(* the fault "replay" is allowed, from an earlier place.  A message is     *)
(* abstracted to its author: the peer, this endpoint ("self"), or a peer   *)
(* whose messages carry no message_id ("anon").                            *)
(***************************************************************************)
EXTENDS Naturals, Sequences

CONSTANTS
    DedupeMax,      \* MaxTransportConfig.DedupeMaxIDs
    FromHandle,     \* MaxTransportConfig.FromHandle: "self", or "" when it is not set
    ChanCap,        \* capacity of the channel Receive returns (256)
    PageMax,        \* messages in a page
    MaxLog,         \* bound on the chat
    MaxReceived,    \* bound on the messages gone through
    Max429,         \* bound on the 429 responses
    Authors,        \* who posts, a subset of {"peer", "self", "anon"}
    Faults          \* subset of {"replay", "429", "transient", "auth", "deadline", "stop"}

ASSUME WindowAssumption == DedupeMax \in Nat \ {0}
ASSUME BoundsAssumption == /\ ChanCap \in Nat \ {0} /\ PageMax \in Nat \ {0}
                           /\ MaxLog \in Nat /\ MaxReceived \in Nat /\ Max429 \in Nat
                           /\ Authors \subseteq {"peer", "self", "anon"}
                           /\ FromHandle \in {"", "self"}

VARIABLES
    log,         \* the chat: the author of each message
    loop,        \* "idle" before Receive, then where pollLoop is: "head", "polling",
                 \* "waiting", "reading", "sending"; "stopped" once it has returned
    ids, fifo,   \* dedupeSet: the ids of the window and their order
    afterID,     \* the after_id of the next poll, 0 if none
    page,        \* the rest of the page being read: places in the log
    unread,      \* messages in the channel
    closed,      \* Close has been called
    cancelled,   \* pollCtx is done
    throttled,   \* history: 429 responses
    refused,     \* history: the server answered 401 or 403
    accepted,    \* history: ids that entered the window
    delivered    \* history: messages put on the channel

window  == <<ids, fifo, afterID, accepted>>
channel == <<unread, delivered>>
vars    == <<log, loop, window, page, channel, closed, cancelled, throttled, refused>>

Post(author) == log' = Append(log, author)

Init == /\ log = <<>> /\ loop = "idle"
        /\ ids = {} /\ fifo = <<>> /\ afterID = 0 /\ accepted = <<>>
        /\ page = <<>>
        /\ unread = 0 /\ delivered = <<>>
        /\ closed = FALSE /\ cancelled = FALSE
        /\ throttled = 0 /\ refused = FALSE

-----------------------------------------------------------------------------
(* The chat and the callers of the transport. *)

\* The other endpoint posts; or Send does, whatever it reports (its answer may be lost).
MessagePosted == /\ Len(log) < MaxLog
                 /\ \E a \in Authors : Post(a)
                 /\ UNCHANGED <<loop, window, page, channel, closed, cancelled, throttled, refused>>

\* checkStatus on a 429, for Send and for the poll. The on429 that WithOn429 may register,
\* which cmd/chunkbridge does not, changes nothing of the transport and is left out.
Throttled == /\ "429" \in Faults /\ throttled < Max429
             /\ throttled' = throttled + 1

SendThrottled == /\ Throttled
                 /\ UNCHANGED <<log, loop, window, page, channel, closed, cancelled, refused>>

\* Only the first call of Receive starts the loop.
Receive == /\ loop = "idle"
           /\ loop' = "head"
           /\ UNCHANGED <<log, window, page, channel, closed, cancelled, throttled, refused>>

Consume == /\ unread > 0
           /\ unread' = unread - 1
           /\ UNCHANGED <<log, loop, window, page, delivered, closed, cancelled, throttled, refused>>

\* Close is idempotent. A goroutine of the loop cancels pollCtx for it some time later; the
\* end of the caller's context cancels it at once.
Close == /\ "stop" \in Faults /\ ~closed
         /\ closed' = TRUE
         /\ UNCHANGED <<log, loop, window, page, channel, cancelled, throttled, refused>>

Cancel == /\ loop \notin {"idle", "stopped"} /\ ~cancelled
          /\ closed \/ "stop" \in Faults
          /\ cancelled' = TRUE
          /\ UNCHANGED <<log, loop, window, page, channel, closed, throttled, refused>>

-----------------------------------------------------------------------------
(* pollLoop. *)

Turns(to) == /\ loop' = to
             /\ UNCHANGED <<log, window, channel, closed, cancelled>>

\* Variant: the send of a message does not watch the context.
StopsBetweenSends == /\ cancelled /\ loop \in {"head", "polling", "waiting"}
                     /\ Turns("stopped") /\ page' = <<>> /\ UNCHANGED <<throttled, refused>>

\* The loop's context is done: at the head of the loop, in a poll in flight, in a wait, or
\* in the send of a message, which is then lost.
StopsCancelled == /\ cancelled /\ loop \in {"head", "polling", "waiting", "sending"}
                  /\ Turns("stopped") /\ page' = <<>> /\ UNCHANGED <<throttled, refused>>

StartPoll == /\ loop = "head" /\ ~cancelled
             /\ Turns("polling") /\ UNCHANGED <<page, throttled, refused>>

\* The places a poll may return: contiguous, and none skipped after after_id.
Page(first, n) == [i \in 1..n |-> first + i - 1]

PollReturns ==
    /\ loop = "polling" /\ Len(accepted) + Len(delivered) < MaxReceived
    /\ \E first \in 1..(afterID + 1), n \in 0..PageMax :
         /\ first = afterID + 1 \/ "replay" \in Faults
         /\ first + n - 1 <= Len(log)
         /\ n = 0 => first > Len(log)
         /\ page' = Page(first, n)
         /\ Turns(IF n = 0 THEN "waiting" ELSE "reading")
    /\ UNCHANGED <<throttled, refused>>

\* Variant: every error ends the loop.
StopOnError == /\ "transient" \in Faults /\ loop = "polling"
               /\ Turns("stopped") /\ UNCHANGED <<page, throttled, refused>>

\* 404, 413, 5xx, a network error or a body that does not decode.
PollFailsTransiently == /\ "transient" \in Faults /\ loop = "polling"
                        /\ Turns("waiting") /\ UNCHANGED <<page, throttled, refused>>

PollThrottled == /\ loop = "polling"
                 /\ Throttled
                 /\ Turns("waiting") /\ UNCHANGED <<page, refused>>

PollRefused == /\ "auth" \in Faults /\ loop = "polling"
               /\ refused' = TRUE
               /\ Turns("stopped") /\ UNCHANGED <<page, throttled>>

\* http.Client gives up (pollTimeoutSec + 10 s, or a dial or TLS timeout): its error is a
\* context.DeadlineExceeded to errors.Is.
PollPassesDeadline == /\ "deadline" \in Faults /\ loop = "polling"
                      /\ Turns("stopped") /\ UNCHANGED <<page, throttled, refused>>

WaitEnds == /\ loop = "waiting"
            /\ Turns("head") /\ UNCHANGED <<page, throttled, refused>>

-----------------------------------------------------------------------------
(* The messages of a page. *)

\* Variants of dedupeSet: a full window forgets its newest id; it forgets none in the map.
AddEvictingNewest(id) ==
    LET full == Len(fifo) >= DedupeMax IN
      /\ ids' = (IF full THEN ids \ {fifo[Len(fifo)]} ELSE ids) \cup {id}
      /\ fifo' = Append(IF full THEN SubSeq(fifo, 1, Len(fifo) - 1) ELSE fifo, id)
AddWithoutDelete(id) ==
    /\ ids' = ids \cup {id}
    /\ fifo' = Append(IF Len(fifo) >= DedupeMax THEN Tail(fifo) ELSE fifo, id)

\* dedupeSet.add
Add(id) == LET full == Len(fifo) >= DedupeMax IN
             /\ ids' = (IF full THEN ids \ {Head(fifo)} ELSE ids) \cup {id}
             /\ fifo' = Append(IF full THEN Tail(fifo) ELSE fifo, id)

\* Variant: from_handle is not looked at.
NoEchoFilter(author) == FALSE
Echo(author) == FromHandle # "" /\ author = FromHandle

\* Variant: the loop over the page runs once too often.
ReadOn == page' = Tail(page) /\ loop' = "reading"

\* continue: the next message of the page or, after the last, the next poll.
Continue == /\ page' = Tail(page)
            /\ loop' = IF Len(page) = 1 THEN "head" ELSE "reading"

Read == loop = "reading"
Place == Head(page)
HasID == log[Place] # "anon"

SkipDuplicate == /\ Read /\ HasID /\ Place \in ids
                 /\ Continue
                 /\ UNCHANGED <<window, log, channel, closed, cancelled, throttled, refused>>

\* Variant: after_id jumps to the end of the page.
EndOfPage == page[Len(page)]
NewAfterID == Place

\* The id enters the window and becomes after_id before the message is delivered.
Accept == /\ Read /\ HasID /\ Place \notin ids
          /\ Add(Place)
          /\ afterID' = NewAfterID
          /\ accepted' = Append(accepted, Place)
          /\ IF Echo(log[Place]) THEN Continue ELSE loop' = "sending" /\ UNCHANGED page
          /\ UNCHANGED <<log, channel, closed, cancelled, throttled, refused>>

AcceptWithoutID == /\ Read /\ ~HasID
                   /\ loop' = "sending"
                   /\ UNCHANGED <<log, window, page, channel, closed, cancelled, throttled, refused>>

Deliver == /\ loop = "sending" /\ unread < ChanCap
           /\ unread' = unread + 1
           /\ delivered' = Append(delivered, Place)
           /\ Continue
           /\ UNCHANGED <<log, window, closed, cancelled, throttled, refused>>

LoopStep == \/ StopsCancelled \/ StartPoll \/ PollReturns \/ PollFailsTransiently \/ PollThrottled
            \/ PollRefused \/ PollPassesDeadline \/ WaitEnds
            \/ SkipDuplicate \/ Accept \/ AcceptWithoutID \/ Deliver

\* The bounds are used up, or nobody calls Receive or reads the channel any more.
AtRest == /\ \/ loop = "stopped"
             \/ Len(accepted) + Len(delivered) >= MaxReceived
          /\ UNCHANGED vars

Next == \/ MessagePosted \/ SendThrottled \/ Receive \/ Consume \/ Close \/ Cancel
        \/ LoopStep \/ AtRest

Spec == Init /\ [][Next]_vars

\* The goroutines run, the server answers polls, the timers fire, and the caller starts the
\* loop. Nobody is obliged to read the channel.
FairSpec == Spec /\ WF_vars(Receive) /\ WF_vars(Cancel /\ closed) /\ WF_vars(LoopStep)

\* What delivery needs of others: the caller reads the channel, and among the polls that are
\* tried for ever some succeed.
ReadAndAnswered == WF_vars(Consume) /\ SF_vars(PollReturns)

-----------------------------------------------------------------------------
(* Properties. *)

\* Every variable has its type.
TypeOK == /\ log \in Seq(Authors)
          /\ loop \in {"idle", "head", "polling", "waiting", "reading", "sending", "stopped"}
          /\ ids \subseteq Nat /\ fifo \in Seq(Nat) /\ afterID \in Nat
          /\ page \in Seq(Nat) /\ unread \in 0..ChanCap
          /\ closed \in BOOLEAN /\ cancelled \in BOOLEAN /\ refused \in BOOLEAN
          /\ throttled \in Nat
          /\ accepted \in Seq(Nat) /\ delivered \in Seq(Nat)
          /\ loop \in {"reading", "sending"} => page # <<>>

\* The map and the queue of the dedupe window hold the same ids, none twice, and never more
\* than dedupe_max_ids: the window does not leak.
WindowConsistent ==
    /\ ids = {fifo[i] : i \in 1..Len(fifo)}
    /\ \A i, j \in 1..Len(fifo) : fifo[i] = fifo[j] => i = j
    /\ Len(fifo) <= DedupeMax

\* A message comes through a second time only after dedupe_max_ids other messages did: the
\* re-delivery the comment of dedupeSet allows, and no other.
NoEarlyDuplicate ==
    \A i, j \in 1..Len(accepted) :
        i < j /\ accepted[i] = accepted[j] => j - i > DedupeMax

\* No message this endpoint sent is delivered to it, if it knows its own handle.
NoEcho == FromHandle # "" => \A i \in 1..Len(delivered) : log[delivered[i]] # "self"

\* after_id, which the server takes for "everything up to here was received", never runs
\* ahead of what was delivered: each message of the peer up to it is on the channel, is
\* the one being put on it, or was given up because the loop was told to stop.
NothingSkipped ==
    loop # "stopped" =>
        \A i \in 1..afterID : \/ log[i] = "self"
                              \/ \E j \in 1..Len(delivered) : delivered[j] = i
                              \/ (loop = "sending" /\ Place = i)

\* maxapi.go:323, "Network / 5xx errors: wait one poll interval then retry.", and
\* docs/max-transport.md:120: only its owner or the server's refusal of the credentials
\* stops the loop.
StopsOnPurpose == loop = "stopped" => cancelled \/ refused

\* Once closed, the loop ends, and with it the channel, though nobody reads it any more and
\* a poll may be in flight.
CloseStops == closed /\ loop # "idle" ~> loop = "stopped"

\* A message of the peer is delivered, whatever transient errors and 429s the polls meet,
\* unless the owner stops the loop or the server refuses the credentials.
EventuallyDelivered ==
    ReadAndAnswered =>
      \A i \in 1..MaxLog :
        i <= Len(log) /\ log[i] = "peer" ~> \/ \E j \in 1..Len(delivered) : delivered[j] = i
                                           \/ cancelled \/ refused
=============================================================================
