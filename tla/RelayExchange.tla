--------------------------- MODULE RelayExchange ---------------------------
(***************************************************************************)
(* One proxy and one exit node joined by an unreliable messenger.          *)
(*                                                                         *)
(* Proxy  internal/proxy/http_proxy.go: one goroutine per browser request  *)
(*        runs ServeHTTP (of its cache, here only that a hit ends it).     *)
(* Session  relaykit's relay.Session, which is not in the repository: the  *)
(*        pending table, its limit, the chunk loop, the timer and the      *)
(*        response dispatcher, as http_proxy.go and docs/architecture.md   *)
(*        use and describe them.                                           *)
(* Exit   internal/exit/http_executor.go: the receive loop starts one      *)
(*        goroutine, a handler, per reassembled request.                   *)
(* Network  any transport.Transport: it reorders, and, when the constant   *)
(*        Faults allows it, loses and delivers again.                      *)
(*                                                                         *)
(* A payload is abstracted to where it comes from: a request is its id, a  *)
(* response chunk is the handler (one execution of the request) that       *)
(* produced it.                                                            *)
(***************************************************************************)
EXTENDS Naturals, FiniteSets

CONSTANTS
    Requests,       \* browser requests, each with its RequestID (newID)
    Handlers,       \* exit goroutines; bounds the executions of a behaviour
    None,           \* "no handler", "empty inbox"
    ReqChunks,      \* chunks of a request frame
    RespChunks,     \* chunks of a DATA response frame (a FrameERROR is one)
    MaxPending,     \* cfg.Proxy.MaxConcurrentRequests
    ErrorCodes,     \* the upstream failures explored, a subset of AllCodes
    MaxRedeliver,   \* bound on second deliveries of a message
    MaxCrash,       \* bound on exit crashes
    Faults          \* which faults may happen, a subset of AllFaults

AllFaults == {"loss", "redeliver", "send", "timeout", "evict", "upstream",
              "crash", "deaf", "stop"}

AllCodes == {"upstream_timeout", "upstream_unavailable", "policy_denied",
             "internal_error", "response_too_large"}

ASSUME ChunksAssumption == /\ ReqChunks \in Nat \ {0}
                           /\ RespChunks \in Nat \ {0}
ASSUME BoundsAssumption == /\ MaxPending \in Nat \ {0}
                           /\ MaxRedeliver \in Nat
                           /\ MaxCrash \in Nat
ASSUME NoneAssumption == None \notin Handlers \cup Requests
ASSUME FaultsAssumption == Faults \subseteq AllFaults /\ ErrorCodes \subseteq AllCodes

VARIABLES
    serve,        \* "up"; "deaf": session.Start has returned; "stopped": so has Serve; "exited"
    pc,           \* pc[r]: where the goroutine serving r is
    verdict,      \* verdict[r]: what the exit's checks say of r
    sent,         \* sent[r]: chunks of r handed to the transport
    pending,      \* the session's pending table: the requests that have an entry
    inbox,        \* inbox[r]: the channel of r's entry, of capacity one
    respParts,    \* respParts[r]: the session reassembler's chunks of r's response
    reply,        \* reply[r]: what the browser was answered
    toExit,       \* messages in flight to the exit
    toProxy,      \* messages in flight to the proxy
    redelivered,  \* messages that were delivered and stayed in flight
    exitUp,       \* the exit process is running
    crashes,      \* exit crashes so far
    reqParts,     \* reqParts[r]: the exit reassembler's chunks of r
    hpc,          \* hpc[h]: where handler h is
    hreq,         \* hreq[h]: the request h handles
    hsent,        \* hsent[h]: response chunks h has sent
    outcome,      \* outcome[h]: "ok" or the FrameERROR code of h's answer
    performed,    \* handlers whose upstream request took effect
    metrics       \* observability.Metrics of both processes

proxyVars == <<serve, pc, verdict, sent, pending, inbox, respParts, reply>>
exitVars  == <<exitUp, crashes, reqParts, hpc, hreq, hsent, outcome, performed>>
netVars   == <<toExit, toProxy, redelivered>>
vars      == <<proxyVars, exitVars, netVars, metrics>>

-----------------------------------------------------------------------------
(* Data. *)

Verdicts == {"forward", "bad_request", "policy_denied"}
Outcomes == {"none", "ok", "bad_request"} \cup AllCodes
ExitCounters == {"ExitRequests", "ExitResponses", "ExitErrors"}
Counters == {"ProxyRequests", "ProxyResponses", "ProxyErrors"} \cup ExitCounters

\* Variant: newID returns the same id for every request.
SharedRequestFrame(r, i) == [req |-> CHOOSE q \in Requests : TRUE, idx |-> i]
RequestFrame(r, i) == [req |-> r, idx |-> i]

\* Variant: the RequestID of the answer is not that of the handled frame.
MisaddressedFrame(h, i) ==
    [req |-> CHOOSE q \in Requests : TRUE, exec |-> h, idx |-> i,
     kind |-> IF outcome[h] = "ok" THEN "data" ELSE "error"]

\* The answer of h copies the RequestID of the frame it handles.
ResponseFrame(h, i) ==
    [req |-> hreq[h], exec |-> h, idx |-> i,
     kind |-> IF outcome[h] = "ok" THEN "data" ELSE "error"]

RequestFrames  == [req : Requests, idx : 1..ReqChunks]
ResponseFrames == [req : Requests, exec : Handlers, idx : 1..RespChunks,
                   kind : {"data", "error"}]

Answer(kind, execs) == [kind |-> kind, execs |-> execs]
LocalRefusals == {"not_implemented", "bad_body", "denied", "too_many"}
LocalAnswers == LocalRefusals \cup {"hit"}
Replies == [kind : {"none", "ok", "error", "bad_gateway", "invalid", "cut"} \cup LocalAnswers,
            execs : SUBSET Handlers]
Arrivals == [kind : {"data", "error"}, execs : SUBSET Handlers]

NoParts == [i \in 1..RespChunks |-> None]

Accepting == serve \in {"up", "deaf"}
InFlight(r) == pc[r] \in {"sending", "waiting"}
Running == {r \in Requests : InFlight(r)}
Active(h) == hpc[h] \in {"run", "called", "reply"}
HandlersOf(r) == {h \in Handlers : hreq[h] = r}

\* The counters in names go up by one.
Count(names) == metrics' = [c \in Counters |->
                              IF c \in names THEN metrics[c] + 1 ELSE metrics[c]]

Ends(r, answer) == /\ pc' = [pc EXCEPT ![r] = "done"]
                   /\ reply' = [reply EXCEPT ![r] = answer]

-----------------------------------------------------------------------------
\* NewHTTPProxy
ProxyInit ==
    /\ serve = "up"
    /\ pc = [r \in Requests |-> "idle"]
    /\ verdict = [r \in Requests |-> "forward"]
    /\ sent = [r \in Requests |-> 0]
    /\ pending = {}
    /\ inbox = [r \in Requests |-> None]
    /\ respParts = [r \in Requests |-> NoParts]
    /\ reply = [r \in Requests |-> Answer("none", {})]

\* NewHTTPExecutor
ExitInit ==
    /\ exitUp = TRUE /\ crashes = 0
    /\ reqParts = [r \in Requests |-> {}]
    /\ hpc = [h \in Handlers |-> "free"]
    /\ hreq = [h \in Handlers |-> None]
    /\ hsent = [h \in Handlers |-> 0]
    /\ outcome = [h \in Handlers |-> "none"]
    /\ performed = {}

Init == /\ ProxyInit /\ ExitInit
        /\ toExit = {} /\ toProxy = {} /\ redelivered = {}
        /\ metrics = [c \in Counters |-> 0]

-----------------------------------------------------------------------------
(* The proxy. *)

\* CONNECT (501, before the counter), unreadable body (400), proxy policy (403).
RefuseLocally(r) ==
    /\ Accepting /\ pc[r] = "idle"
    /\ \E why \in LocalRefusals \ {"too_many"} :
         /\ Ends(r, Answer(why, {}))
         /\ Count(IF why = "not_implemented" THEN {} ELSE {"ProxyRequests"})
    /\ UNCHANGED <<serve, verdict, sent, pending, inbox, respParts, exitVars, netVars>>

\* A cache hit is answered without the relay (what it shows is module CachingProxy).
ServeFromCache(r) ==
    /\ Accepting /\ pc[r] = "idle"
    /\ Ends(r, Answer("hit", {}))
    /\ Count({"ProxyRequests", "ProxyResponses"})
    /\ UNCHANGED <<serve, verdict, sent, pending, inbox, respParts, exitVars, netVars>>

HasRoom == Cardinality(pending) < MaxPending

\* SendRequest registers the request; the exit's verdict on it is fixed by its payload.
Admit(r) ==
    /\ Accepting /\ pc[r] = "idle" /\ HasRoom
    /\ pc' = [pc EXCEPT ![r] = "sending"]
    /\ pending' = pending \cup {r}
    /\ \E v \in Verdicts : verdict' = [verdict EXCEPT ![r] = v]
    /\ Count({"ProxyRequests"})
    /\ UNCHANGED <<serve, sent, inbox, respParts, reply, exitVars, netVars>>

\* SendRequest at the limit: "relay: too many concurrent requests" becomes 429.
TooMany(r) ==
    /\ Accepting /\ pc[r] = "idle" /\ ~HasRoom
    /\ Ends(r, Answer("too_many", {}))
    /\ Count({"ProxyRequests", "ProxyErrors"})
    /\ UNCHANGED <<serve, verdict, sent, pending, inbox, respParts, exitVars, netVars>>

SendRequestChunk(r) ==
    /\ serve # "exited" /\ pc[r] = "sending"
    /\ sent' = [sent EXCEPT ![r] = @ + 1]
    /\ toExit' = toExit \cup {RequestFrame(r, sent[r] + 1)}
    /\ pc' = [pc EXCEPT ![r] = IF sent[r] + 1 = ReqChunks THEN "waiting" ELSE @]
    /\ UNCHANGED <<serve, verdict, pending, inbox, respParts, reply, toProxy, redelivered,
                   exitVars, metrics>>

\* Variant: the entry outlives the call of SendRequest that made it.
KeepEntry(r) == /\ UNCHANGED pending
                /\ inbox' = [inbox EXCEPT ![r] = None]

\* SendRequest returns: the entry of r is removed, and its channel with it.
RemoveEntry(r) == /\ pending' = pending \ {r}
                  /\ inbox' = [inbox EXCEPT ![r] = None]

\* The request ends without an answer of the exit: 502.
GiveUp(r) ==
    /\ Ends(r, Answer("bad_gateway", {}))
    /\ RemoveEntry(r)
    /\ Count({"ProxyErrors"})
    /\ UNCHANGED <<serve, verdict, respParts, exitVars, toProxy, redelivered>>

\* transport.Send or the limiter fails: the remaining chunks are never sent. The chunk that
\* failed may have got through (a POST whose response is late or lost).
RequestSendFails(r) ==
    /\ "send" \in Faults /\ serve # "exited" /\ pc[r] = "sending"
    /\ sent' = [sent EXCEPT ![r] = @ + 1]
    /\ \/ UNCHANGED toExit
       \/ toExit' = toExit \cup {RequestFrame(r, sent[r] + 1)}
    /\ GiveUp(r)

\* Nothing that is still to happen can bring r an answer.
Stuck(r) ==
    /\ pc[r] = "waiting" /\ inbox[r] = None
    /\ exitUp => \A m \in toExit : m.req # r
    /\ serve = "up" => \A m \in toProxy : m.req # r
    /\ \A h \in HandlersOf(r) : ~Active(h)

\* Variants: SendRequest without a deadline; one whose timer outlives the answer.
NoTimeOut(r) == FALSE
LateTimeOut(r) == /\ serve # "exited" /\ pc[r] \in {"waiting", "done"}
                  /\ GiveUp(r)
                  /\ UNCHANGED <<sent, toExit>>

\* The timer of SendRequest fires, or the browser hangs up (r.Context()). The select may
\* prefer it to an inbox already filled. Without the fault "timeout" the timers are long:
\* they fire only once r is stuck.
TimeOut(r) ==
    /\ serve # "exited" /\ InFlight(r)
    /\ "timeout" \in Faults \/ Stuck(r)
    /\ GiveUp(r)
    /\ UNCHANGED <<sent, toExit>>

\* The chunk m is put with those of the same request; a second copy of a chunk is ignored.
WithChunk(m) ==
    [respParts[m.req] EXCEPT ![m.idx] = IF @ = None THEN m.exec ELSE @]

Whole(parts) == \A i \in 1..RespChunks : parts[i] # None

\* The dispatcher hands a complete frame to the channel of its entry, if there is one and the
\* channel is empty; a late answer is dropped.
HandTo(r, arrival) ==
    inbox' = IF r \in pending /\ inbox[r] = None THEN [inbox EXCEPT ![r] = arrival] ELSE inbox

DispatchError(m) ==
    /\ m.kind = "error"
    /\ HandTo(m.req, [kind |-> "error", execs |-> {m.exec}])
    /\ UNCHANGED respParts

DispatchData(m) ==
    /\ m.kind = "data"
    /\ LET parts == WithChunk(m) IN
         IF Whole(parts)
         THEN /\ HandTo(m.req, [kind |-> "data", execs |-> {parts[i] : i \in 1..RespChunks}])
              /\ respParts' = [respParts EXCEPT ![m.req] = NoParts]
         ELSE /\ respParts' = [respParts EXCEPT ![m.req] = parts]
              /\ UNCHANGED inbox

\* A delivered message leaves the network or, again, stays in it to be delivered once more.
Redelivers(m, again) ==
    /\ again => /\ "redeliver" \in Faults /\ m \notin redelivered
                /\ Cardinality(redelivered) < MaxRedeliver
    /\ redelivered' = IF again THEN redelivered \cup {m} ELSE redelivered

Left(net, m, again) == IF again THEN net ELSE net \ {m}

Dispatch ==
    /\ serve = "up"
    /\ \E m \in toProxy, again \in BOOLEAN :
         /\ Redelivers(m, again)
         /\ toProxy' = Left(toProxy, m, again)
         /\ DispatchError(m) \/ DispatchData(m)
    /\ UNCHANGED <<serve, pc, verdict, sent, pending, reply, toExit, exitVars, metrics>>

\* The response of two executions spliced together may or may not unmarshal.
Take(r) ==
    /\ serve # "exited" /\ pc[r] = "waiting" /\ inbox[r] # None
    /\ LET got == inbox[r] IN
         \/ /\ got.kind = "error"
            /\ Ends(r, Answer("error", got.execs)) /\ Count({"ProxyErrors"})
         \/ /\ got.kind = "data"
            /\ Ends(r, Answer("ok", got.execs)) /\ Count({"ProxyResponses"})
         \/ /\ got.kind = "data" /\ \E h1, h2 \in got.execs : h1 # h2
            /\ Ends(r, Answer("invalid", got.execs)) /\ Count({"ProxyErrors"})
    /\ RemoveEntry(r)
    /\ UNCHANGED <<serve, verdict, sent, respParts, exitVars, netVars>>

\* The session's receive channel closes; Serve's goroutine ends, the server keeps accepting.
SessionDies ==
    /\ "deaf" \in Faults /\ serve = "up"
    /\ serve' = "deaf"
    /\ UNCHANGED <<pc, verdict, sent, pending, inbox, respParts, reply, exitVars, netVars,
                   metrics>>

\* Shutdown: server.Serve returns at once and Serve cancels the session's context.
Stop ==
    /\ "stop" \in Faults /\ Accepting
    /\ serve' = "stopped"
    /\ UNCHANGED <<pc, verdict, sent, pending, inbox, respParts, reply, exitVars, netVars,
                   metrics>>

\* runClient returns when Shutdown has seen every ServeHTTP return or after its 10 s: what is
\* still in flight is cut off. With long timers (see TimeOut) this deadline is long too.
ProxyExits ==
    /\ serve = "stopped"
    /\ "timeout" \in Faults \/ Running = {}
    /\ serve' = "exited"
    /\ pc' = [r \in Requests |-> IF InFlight(r) THEN "done" ELSE pc[r]]
    /\ reply' = [r \in Requests |-> IF InFlight(r) THEN Answer("cut", {}) ELSE reply[r]]
    /\ pending' = {} /\ inbox' = [r \in Requests |-> None]
    /\ UNCHANGED <<verdict, sent, respParts, exitVars, netVars, metrics>>

-----------------------------------------------------------------------------
(* The exit node. *)

\* Variant: Run ignores what the reassembler says and starts a handler for every chunk.
CompleteAtOnce(parts) == TRUE
Complete(parts) == parts = 1..ReqChunks

\* The receive loop: a frame that completes a request starts a handler, after which the
\* reassembler has forgotten the request.
ExitReceive ==
    /\ exitUp
    /\ \E m \in toExit, again \in BOOLEAN :
         /\ Redelivers(m, again)
         /\ toExit' = Left(toExit, m, again)
         /\ LET parts == reqParts[m.req] \cup {m.idx} IN
              \/ /\ ~Complete(parts)
                 /\ reqParts' = [reqParts EXCEPT ![m.req] = parts]
                 /\ UNCHANGED <<hpc, hreq, metrics>>
              \/ /\ Complete(parts)
                 /\ reqParts' = [reqParts EXCEPT ![m.req] = {}]
                 /\ \E h \in Handlers :
                      /\ hpc[h] = "free"
                      /\ hpc' = [hpc EXCEPT ![h] = "run"]
                      /\ hreq' = [hreq EXCEPT ![h] = m.req]
                 /\ Count({"ExitRequests"})
    /\ UNCHANGED <<proxyVars, toProxy, exitUp, crashes, hsent, outcome, performed>>

\* The handler has its answer and turns to sending it.
Answers(h, code) == /\ outcome' = [outcome EXCEPT ![h] = code]
                    /\ hpc' = [hpc EXCEPT ![h] = "reply"]
                    /\ UNCHANGED <<proxyVars, netVars, exitUp, crashes, reqParts, hreq,
                                   hsent, performed, metrics>>

\* Variant: the upstream call is made whatever the checks say.
Unchecked(h) == TRUE
Forwarded(h) == verdict[hreq[h]] = "forward"

\* Variant: a request that does not unmarshal is not answered.
RefuseOnlyByPolicy(h) ==
    /\ hpc[h] = "run" /\ verdict[hreq[h]] = "policy_denied"
    /\ Answers(h, "policy_denied")

\* Unmarshalling, the exit's policy and the building of the upstream request.
RefuseAtExit(h) ==
    /\ hpc[h] = "run" /\ ~Forwarded(h)
    /\ Answers(h, verdict[hreq[h]])

\* client.Do reaches the upstream server and the request takes effect there.
Perform(h) ==
    /\ hpc[h] = "run" /\ Forwarded(h)
    /\ hpc' = [hpc EXCEPT ![h] = "called"]
    /\ performed' = performed \cup {h}
    /\ UNCHANGED <<proxyVars, netVars, exitUp, crashes, reqParts, hreq, hsent, outcome,
                   metrics>>

\* client.Do fails before the request takes effect.
NotPerformed(h) ==
    /\ "upstream" \in Faults
    /\ hpc[h] = "run" /\ Forwarded(h)
    /\ \E code \in ErrorCodes \cap {"upstream_timeout", "upstream_unavailable"} :
         Answers(h, code)

\* client.Do, the content type, the body or its size fails after it took effect.
UpstreamFails(h) ==
    /\ "upstream" \in Faults
    /\ hpc[h] = "called"
    /\ \E code \in ErrorCodes : Answers(h, code)

UpstreamAnswers(h) == hpc[h] = "called" /\ Answers(h, "ok")

\* Variants: the chunk loop runs once too often; it stops after its first chunk.
LastChunkOffByOne(h) == hsent[h] = (IF outcome[h] = "ok" THEN RespChunks ELSE 1)
FirstChunkIsLast(h) == TRUE
LastChunk(h) == hsent[h] + 1 = (IF outcome[h] = "ok" THEN RespChunks ELSE 1)

SendResponseChunk(h) ==
    /\ hpc[h] = "reply"
    /\ toProxy' = toProxy \cup {ResponseFrame(h, hsent[h] + 1)}
    /\ hsent' = [hsent EXCEPT ![h] = @ + 1]
    /\ hpc' = [hpc EXCEPT ![h] = IF LastChunk(h) THEN "done" ELSE @]
    /\ Count(IF ~LastChunk(h) THEN {}
             ELSE IF outcome[h] = "ok" THEN {"ExitResponses"} ELSE {"ExitErrors"})
    /\ UNCHANGED <<proxyVars, toExit, redelivered, exitUp, crashes, reqParts, hreq, outcome,
                   performed>>

\* Variant: a response that could not be sent is counted as one.
CountedAnyway(h) == IF outcome[h] = "ok" THEN {"ExitResponses"} ELSE {"ExitErrors"}
CountedOnFailure(h) == IF outcome[h] = "ok" THEN {} ELSE {"ExitErrors"}

\* sendFrame fails, though the chunk may have got through: a response is only logged, an
\* error is counted all the same.
ResponseSendFails(h) ==
    /\ "send" \in Faults /\ hpc[h] = "reply"
    /\ hpc' = [hpc EXCEPT ![h] = "failed"]
    /\ hsent' = [hsent EXCEPT ![h] = @ + 1]
    /\ \/ UNCHANGED toProxy
       \/ toProxy' = toProxy \cup {ResponseFrame(h, hsent[h] + 1)}
    /\ Count(CountedOnFailure(h))
    /\ UNCHANGED <<proxyVars, toExit, redelivered, exitUp, crashes, reqParts, hreq, outcome,
                   performed>>

\* The process dies, or Run returns and the process with it: the handlers, the reassembler
\* and the counters are gone, nothing is persisted.
Crash ==
    /\ "crash" \in Faults /\ exitUp /\ crashes < MaxCrash
    /\ exitUp' = FALSE /\ crashes' = crashes + 1
    /\ hpc' = [h \in Handlers |-> IF hpc[h] = "free" THEN "free" ELSE "dead"]
    /\ reqParts' = [r \in Requests |-> {}]
    /\ metrics' = [c \in Counters |-> IF c \in ExitCounters THEN 0 ELSE metrics[c]]
    /\ UNCHANGED <<proxyVars, netVars, hreq, hsent, outcome, performed>>

Restart ==
    /\ ~exitUp
    /\ exitUp' = TRUE
    /\ UNCHANGED <<proxyVars, netVars, crashes, reqParts, hpc, hreq, hsent, outcome,
                   performed, metrics>>

-----------------------------------------------------------------------------
(* The network and the reassemblers' timers. *)

LoseToExit == /\ "loss" \in Faults
              /\ \E m \in toExit : toExit' = toExit \ {m}
              /\ UNCHANGED <<proxyVars, exitVars, toProxy, redelivered, metrics>>

LoseToProxy == /\ "loss" \in Faults
               /\ \E m \in toProxy : toProxy' = toProxy \ {m}
               /\ UNCHANGED <<proxyVars, exitVars, toExit, redelivered, metrics>>

\* NewReassembler(60 s): an incomplete frame is forgotten.
EvictRequest(r) ==
    /\ "evict" \in Faults /\ reqParts[r] # {}
    /\ reqParts' = [reqParts EXCEPT ![r] = {}]
    /\ UNCHANGED <<proxyVars, netVars, exitUp, crashes, hpc, hreq, hsent, outcome,
                   performed, metrics>>

EvictResponse(r) ==
    /\ "evict" \in Faults /\ respParts[r] # NoParts
    /\ respParts' = [respParts EXCEPT ![r] = NoParts]
    /\ UNCHANGED <<serve, pc, verdict, sent, pending, inbox, reply, exitVars, netVars, metrics>>

-----------------------------------------------------------------------------
\* The system may rest only when every request has ended and no handler is at work.
AtRest == /\ \A r \in Requests : pc[r] = "done" \/ (pc[r] = "idle" /\ ~Accepting)
          /\ \A h \in Handlers : ~Active(h)
          /\ UNCHANGED vars

RequestStep(r) ==
    \/ RefuseLocally(r) \/ ServeFromCache(r) \/ Admit(r) \/ TooMany(r)
    \/ SendRequestChunk(r) \/ RequestSendFails(r) \/ TimeOut(r) \/ Take(r)

HandlerStep(h) ==
    \/ RefuseAtExit(h) \/ Perform(h) \/ NotPerformed(h) \/ UpstreamFails(h)
    \/ UpstreamAnswers(h) \/ SendResponseChunk(h) \/ ResponseSendFails(h)

Next ==
    \/ \E r \in Requests : RequestStep(r)
    \/ Dispatch \/ SessionDies \/ Stop \/ ProxyExits
    \/ ExitReceive \/ \E h \in Handlers : HandlerStep(h)
    \/ Crash \/ Restart
    \/ LoseToExit \/ LoseToProxy
    \/ \E r \in Requests : EvictRequest(r) \/ EvictResponse(r)
    \/ AtRest

Spec == Init /\ [][Next]_vars

\* What the code schedules: goroutines run and timers fire. The network and the upstream
\* server promise nothing.
ScheduleFairness ==
    /\ \A r \in Requests : WF_vars(SendRequestChunk(r)) /\ WF_vars(TimeOut(r) \/ Take(r))
    /\ \A h \in Handlers : /\ WF_vars(RefuseAtExit(h))
                         /\ WF_vars(SendResponseChunk(h) \/ ResponseSendFails(h))
    /\ WF_vars(ProxyExits)

FairSpec == Spec /\ ScheduleFairness

\* Every upstream call comes to an end: exit.request_timeout_sec, the Timeout of the exit's
\* http.Client, is positive. (At 0, which validation accepts, the client waits for ever.)
UpstreamEnds ==
    \A h \in Handlers : /\ WF_vars(Perform(h) \/ NotPerformed(h))
                        /\ WF_vars(UpstreamFails(h) \/ UpstreamAnswers(h))

\* A network that also delivers what it holds, to processes that are up.
DeliveringSpec == FairSpec /\ UpstreamEnds /\ WF_vars(Dispatch) /\ WF_vars(ExitReceive)

-----------------------------------------------------------------------------
(* Properties. *)

ProxyTypes ==
    /\ serve \in {"up", "deaf", "stopped", "exited"}
    /\ pc \in [Requests -> {"idle", "sending", "waiting", "done"}]
    /\ verdict \in [Requests -> Verdicts]
    /\ sent \in [Requests -> 0..ReqChunks]
    /\ pending \subseteq Requests
    /\ inbox \in [Requests -> Arrivals \cup {None}]
    /\ respParts \in [Requests -> [1..RespChunks -> Handlers \cup {None}]]
    /\ reply \in [Requests -> Replies]

NetTypes ==
    /\ toExit \subseteq RequestFrames
    /\ toProxy \subseteq ResponseFrames
    /\ redelivered \subseteq RequestFrames \cup ResponseFrames

ExitTypes ==
    /\ exitUp \in BOOLEAN /\ crashes \in Nat
    /\ reqParts \in [Requests -> SUBSET (1..ReqChunks)]
    /\ hpc \in [Handlers -> {"free", "run", "called", "reply", "done", "failed", "dead"}]
    /\ hreq \in [Handlers -> Requests \cup {None}]
    /\ hsent \in [Handlers -> 0..RespChunks]
    /\ outcome \in [Handlers -> Outcomes]
    /\ performed \subseteq Handlers

\* Every variable has its type, and the network holds only frames of this exchange.
TypeOK == ProxyTypes /\ NetTypes /\ ExitTypes /\ metrics \in [Counters -> Nat]

RequestRedelivered(r) == \E i \in 1..ReqChunks : RequestFrame(r, i) \in redelivered

\* The exit executes a request once, unless a chunk of it was delivered twice: handleRequest
\* has no memory of the requests it ran, so nothing but the network stands between a
\* duplicated message and a second upstream request.
AtMostOnce ==
    \A r \in Requests : ~RequestRedelivered(r) =>
        \A h1, h2 \in HandlersOf(r) : h1 = h2

\* An ok answer is made of the chunks of executions of that very request, each of which
\* performed it and got an upstream response; an error answer is the error of one execution
\* of it; and an answer has the chunks of two executions only when chunks of the request
\* were delivered twice.
Correlated ==
    \A r \in Requests :
        /\ reply[r].execs \subseteq HandlersOf(r)
        /\ reply[r].kind = "ok" => /\ reply[r].execs # {}
                                   /\ \A h \in reply[r].execs : h \in performed /\ outcome[h] = "ok"
        /\ reply[r].kind = "error" => \A h \in reply[r].execs : outcome[h] # "ok"
        /\ ~RequestRedelivered(r) => \A h1, h2 \in reply[r].execs : h1 = h2

\* A request that the proxy ended by itself (501, 400, 403, 429 or from its cache) or that the
\* exit's checks refuse took no effect upstream, and never will: no handler holds it.
RefusedHasNoEffect ==
    /\ \A r \in Requests : reply[r].kind \in LocalAnswers => HandlersOf(r) = {}
    /\ \A h \in performed : verdict[hreq[h]] = "forward"

\* The limit counts what is really in flight: a request is admitted only when fewer than
\* max_concurrent_requests are being relayed, and told 429 only when that many are. An entry
\* that outlives its request, on any of the ways SendRequest returns, would narrow the limit
\* for good; one removed too early would widen it.
LimitExact ==
    [][\A r \in Requests : pc[r] = "idle" =>
         /\ pc'[r] = "sending" => Cardinality(Running) < MaxPending
         /\ reply'[r].kind = "too_many" => Cardinality(Running) >= MaxPending]_vars

\* The dispatcher drops a late answer: no request that has ended finds one in its channel.
NoLateArrival == \A r \in Requests : inbox[r] # None => InFlight(r)

Ended(kinds) == {r \in Requests : reply[r].kind \in kinds}

\* The six counters account for every request: what was counted in and neither out nor as
\* an error is in flight, was refused before the relay, or was cut by the proxy's exit; at
\* the exit, where they start anew with the process, it is at work or lost a response it
\* could not send.
MetricsAccount ==
    /\ metrics["ProxyRequests"] = metrics["ProxyResponses"] + metrics["ProxyErrors"]
         + Cardinality(Running) + Cardinality(Ended({"bad_body", "denied", "cut"}))
    /\ metrics["ProxyResponses"] = Cardinality(Ended({"ok", "hit"}))
    /\ metrics["ExitRequests"] = Cardinality({h \in Handlers : hpc[h] \notin {"free", "dead"}})
    /\ metrics["ExitResponses"] + metrics["ExitErrors"] =
         Cardinality({h \in Handlers : \/ hpc[h] = "done"
                                      \/ (hpc[h] = "failed" /\ outcome[h] # "ok")})

\* Whatever the network and the exit do, an admitted request ends: with the answer, with an
\* error, at the latest when the timer of SendRequest fires or the proxy exits.
EveryRequestEnds == \A r \in Requests : InFlight(r) ~> pc[r] = "done"

\* Every handler comes to its end or dies with the process, if upstream calls end.
EveryHandlerEnds == UpstreamEnds => \A h \in Handlers : Active(h) ~> ~Active(h)

\* When nothing is lost or fails and the timers are long enough, every admitted request gets
\* the answer of the exit, whatever the order its chunks arrive in, unless the proxy is told
\* to stop.
LosslessAnswers ==
    \A r \in Requests : InFlight(r) ~> reply[r].kind \in {"ok", "error"} \/ serve # "up"

\* http_proxy.go:99: "Shutdown gracefully stops the HTTP server, waiting up to the deadline
\* in ctx for in-flight requests to complete." Nothing is lost and the deadline is long.
ShutdownDrains ==
    \A r \in Requests : pc[r] = "waiting" /\ serve = "stopped" ~> reply[r].kind \in {"ok", "error"}

\* Shutdown comes to its end, before its deadline when that is long: every request in flight
\* ends by itself, though the session no longer receives.
ShutdownEnds == serve = "stopped" ~> serve = "exited"

\* The abstract state: what the browser and the upstream server see of r. A request answered
\* from the cache never came to the relay.
StatusOf(r) ==
    CASE pc[r] = "idle" \/ reply[r].kind = "hit" -> "new"
      [] InFlight(r) -> "open"
      [] pc[r] = "done" /\ reply[r].kind \in LocalRefusals -> "refused"
      [] pc[r] = "done" /\ reply[r].kind = "ok" -> "answered"
      [] OTHER -> "failed"

EffectsOf(r) == {h \in performed : hreq[h] = r}
AnswerOf(r) == IF reply[r].kind = "ok" THEN reply[r].execs ELSE {}

Service == INSTANCE RelayService WITH
    Executions <- Handlers,
    status <- [r \in Requests |-> StatusOf(r)],
    effects <- [r \in Requests |-> EffectsOf(r)],
    answer <- [r \in Requests |-> AnswerOf(r)]

\* The exchange implements the service: a browser's request is refused, answered with what
\* executions of it returned, or failed, once, and nothing happens for a refused one.
ImplementsService == Service!Spec
=============================================================================
