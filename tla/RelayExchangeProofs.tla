------------------------ MODULE RelayExchangeProofs ------------------------
(***************************************************************************)
(* Proofs about RelayExchange, for any number of requests, handlers and    *)
(* chunks and any of the faults.                                           *)
(***************************************************************************)
EXTENDS RelayExchange, FiniteSetTheorems, TLAPS

\* How far a request and a handler are in their chunk loops.
RequestPhase ==
    \A r \in Requests : /\ pc[r] = "idle" => sent[r] = 0
                        /\ pc[r] = "sending" => sent[r] < ReqChunks

HandlerPhase ==
    \A h \in Handlers :
      /\ hpc[h] # "free" => hreq[h] \in Requests
      /\ hpc[h] \in {"free", "run", "called"} => hsent[h] = 0 /\ outcome[h] = "none"
      /\ hpc[h] = "reply" => hsent[h] < (IF outcome[h] = "ok" THEN RespChunks ELSE 1)

ProxyInv == ProxyTypes /\ RequestPhase
ExitInv  == ExitTypes /\ HandlerPhase
TypeInv  == ProxyInv /\ NetTypes /\ ExitInv /\ metrics \in [Counters -> Nat]

LEMMA TypeInit == Init => TypeInv
  BY ChunksAssumption, NoneAssumption
  DEF Init, ProxyInit, ExitInit, TypeInv, ProxyInv, ExitInv, ProxyTypes, NetTypes, ExitTypes,
      RequestPhase, HandlerPhase, Verdicts, Outcomes, Replies, Arrivals, Answer, NoParts

LEMMA CountType ==
    ASSUME metrics \in [Counters -> Nat], NEW names, Count(names)
    PROVE  metrics' \in [Counters -> Nat]
  BY DEF Count

LEMMA SameProxy == ProxyInv /\ UNCHANGED proxyVars => ProxyInv'
  BY DEF ProxyInv, ProxyTypes, RequestPhase, proxyVars

LEMMA SameExit == ExitInv /\ UNCHANGED exitVars => ExitInv'
  BY DEF ExitInv, ExitTypes, HandlerPhase, exitVars

LEMMA SameNet == NetTypes /\ UNCHANGED netVars => NetTypes'
  BY DEF NetTypes, netVars

\* Ending a request keeps the proxy's part, if its inbox stays typed.
LEMMA EndsType ==
    ASSUME ProxyInv, NEW r \in Requests, NEW answer \in Replies, Ends(r, answer),
           sent' \in [Requests -> 0..ReqChunks], \A q \in Requests : q # r => sent'[q] = sent[q],
           inbox' \in [Requests -> Arrivals \cup {None}], pending' \subseteq Requests,
           UNCHANGED <<serve, verdict, respParts>>
    PROVE  ProxyInv'
  BY DEF Ends, ProxyInv, ProxyTypes, RequestPhase

LEMMA TypeRequestStep ==
    ASSUME TypeInv, NEW r \in Requests, RequestStep(r)
    PROVE  TypeInv'
<1> USE DEF TypeInv
<1>a. /\ sent \in [Requests -> 0..ReqChunks] /\ inbox \in [Requests -> Arrivals \cup {None}]
      /\ [inbox EXCEPT ![r] = None] \in [Requests -> Arrivals \cup {None}]
      /\ pending \subseteq Requests /\ pending \ {r} \subseteq Requests
  BY DEF ProxyInv, ProxyTypes
<1>b. \A kind \in {"bad_gateway"} \cup LocalAnswers : Answer(kind, {}) \in Replies
  BY DEF Answer, Replies
<1>1. CASE RefuseLocally(r)
  <2>1. ProxyInv'
    BY <1>1, <1>a, <1>b, EndsType DEF RefuseLocally, LocalAnswers
  <2> QED
    BY <1>1, <2>1, SameExit, SameNet, CountType DEF RefuseLocally
<1>8. CASE ServeFromCache(r)
  <2>1. ProxyInv'
    BY <1>8, <1>a, <1>b, EndsType DEF ServeFromCache, LocalAnswers
  <2> QED
    BY <1>8, <2>1, SameExit, SameNet, CountType DEF ServeFromCache
<1>2. CASE Admit(r)
  <2>1. ProxyInv'
    BY <1>2, ChunksAssumption DEF Admit, ProxyInv, ProxyTypes, RequestPhase
  <2> QED
    BY <1>2, <2>1, SameExit, SameNet, CountType DEF Admit
<1>3. CASE TooMany(r)
  <2>1. ProxyInv'
    BY <1>3, <1>a, <1>b, EndsType DEF TooMany, LocalRefusals, LocalAnswers
  <2> QED
    BY <1>3, <2>1, SameExit, SameNet, CountType DEF TooMany
<1>4. CASE SendRequestChunk(r)
  <2>1. sent[r] + 1 \in 1..ReqChunks
    BY <1>4, ChunksAssumption DEF SendRequestChunk, ProxyInv, ProxyTypes, RequestPhase
  <2>2. ProxyInv'
    BY <1>4, <2>1, ChunksAssumption DEF SendRequestChunk, ProxyInv, ProxyTypes, RequestPhase
  <2>3. NetTypes'
    BY <1>4, <2>1 DEF SendRequestChunk, RequestFrame, RequestFrames, NetTypes
  <2> QED
    BY <1>4, <2>2, <2>3, SameExit DEF SendRequestChunk
<1>5. CASE RequestSendFails(r)
  <2>1. sent[r] + 1 \in 1..ReqChunks
    BY <1>5, ChunksAssumption DEF RequestSendFails, ProxyInv, ProxyTypes, RequestPhase
  <2>2. ProxyInv'
    BY <1>5, <1>a, <1>b, <2>1, EndsType DEF RequestSendFails, GiveUp, RemoveEntry
  <2>3. NetTypes'
    BY <1>5, <2>1 DEF RequestSendFails, GiveUp, RequestFrame, RequestFrames, NetTypes
  <2> QED
    BY <1>5, <2>2, <2>3, SameExit, CountType DEF RequestSendFails, GiveUp
<1>6. CASE TimeOut(r)
  <2>1. ProxyInv'
    BY <1>6, <1>a, <1>b, EndsType DEF TimeOut, GiveUp, RemoveEntry
  <2> QED
    BY <1>6, <2>1, SameExit, SameNet, CountType DEF TimeOut, GiveUp, netVars
<1>7. CASE Take(r)
  <2>1. inbox[r] \in Arrivals
    BY <1>7, <1>a DEF Take
  <2>2. \A kind \in {"error", "ok", "invalid"} : Answer(kind, inbox[r].execs) \in Replies
    BY <2>1 DEF Arrivals, Answer, Replies
  <2>3. ProxyInv'
    BY <1>7, <1>a, <2>2, EndsType DEF Take, RemoveEntry
  <2>4. metrics' \in [Counters -> Nat]
    BY <1>7, CountType DEF Take
  <2> QED
    BY <1>7, <2>3, <2>4, SameExit, SameNet DEF Take
<1> QED
  BY <1>1, <1>2, <1>3, <1>4, <1>5, <1>6, <1>7, <1>8 DEF RequestStep

LEMMA TypeHandlerStep ==
    ASSUME TypeInv, NEW h \in Handlers, HandlerStep(h)
    PROVE  TypeInv'
<1> USE DEF TypeInv
<1>a. ASSUME NEW code \in Outcomes \ {"none"}, Answers(h, code), hpc[h] \in {"run", "called"}
      PROVE  TypeInv'
  <2>1. ExitInv'
    BY <1>a, ChunksAssumption DEF Answers, ExitInv, ExitTypes, HandlerPhase
  <2> QED
    BY <1>a, <2>1, SameProxy, SameNet DEF Answers
<1>1. CASE RefuseAtExit(h)
  <2>1. verdict[hreq[h]] \in Outcomes \ {"none"}
    BY <1>1 DEF RefuseAtExit, Forwarded, ProxyInv, ProxyTypes, ExitInv, HandlerPhase, Verdicts,
                Outcomes, AllCodes
  <2> QED
    BY <1>1, <1>a, <2>1 DEF RefuseAtExit
<1>2. CASE Perform(h)
  <2>1. ExitInv'
    BY <1>2 DEF Perform, ExitInv, ExitTypes, HandlerPhase
  <2> QED
    BY <1>2, <2>1, SameProxy, SameNet DEF Perform
<1>3. CASE NotPerformed(h)
  BY <1>3, <1>a DEF NotPerformed, Outcomes, AllCodes
<1>4. CASE UpstreamFails(h)
  BY <1>4, <1>a, FaultsAssumption DEF UpstreamFails, Outcomes, AllCodes
<1>5. CASE UpstreamAnswers(h)
  BY <1>5, <1>a DEF UpstreamAnswers, Outcomes
<1>b. ASSUME hpc[h] = "reply"
      PROVE  ResponseFrame(h, hsent[h] + 1) \in ResponseFrames /\ hsent[h] + 1 \in 1..RespChunks
  BY <1>b, ChunksAssumption DEF ResponseFrame, ResponseFrames, ExitInv, ExitTypes, HandlerPhase
<1>6. CASE SendResponseChunk(h)
  <2>1. ExitInv'
    BY <1>6, <1>b, ChunksAssumption
    DEF SendResponseChunk, LastChunk, ExitInv, ExitTypes, HandlerPhase
  <2>2. NetTypes'
    BY <1>6, <1>b DEF SendResponseChunk, NetTypes
  <2> QED
    BY <1>6, <2>1, <2>2, SameProxy, CountType DEF SendResponseChunk
<1>7. CASE ResponseSendFails(h)
  <2>1. ExitInv'
    BY <1>7, <1>b, ChunksAssumption DEF ResponseSendFails, ExitInv, ExitTypes, HandlerPhase
  <2>2. NetTypes'
    BY <1>7, <1>b DEF ResponseSendFails, NetTypes
  <2> QED
    BY <1>7, <2>1, <2>2, SameProxy, CountType DEF ResponseSendFails
<1> QED
  BY <1>1, <1>2, <1>3, <1>4, <1>5, <1>6, <1>7 DEF HandlerStep

LEMMA TypeDispatch == TypeInv /\ Dispatch => TypeInv'
<1> SUFFICES ASSUME TypeInv, Dispatch PROVE TypeInv'
  OBVIOUS
<1> USE DEF TypeInv
<1>1. PICK m \in toProxy, again \in BOOLEAN :
         /\ Redelivers(m, again)
         /\ toProxy' = Left(toProxy, m, again)
         /\ DispatchError(m) \/ DispatchData(m)
  BY DEF Dispatch
<1>2. m \in ResponseFrames /\ m.req \in Requests /\ m.exec \in Handlers /\ m.idx \in 1..RespChunks
  BY DEF NetTypes, ResponseFrames
<1>3. NetTypes'
  BY <1>1, <1>2 DEF Dispatch, Redelivers, Left, NetTypes
<1>4. ASSUME NEW arrival \in Arrivals, HandTo(m.req, arrival)
      PROVE  inbox' \in [Requests -> Arrivals \cup {None}]
  BY <1>2, <1>4 DEF HandTo, ProxyInv, ProxyTypes
<1>5. /\ inbox' \in [Requests -> Arrivals \cup {None}]
      /\ respParts' \in [Requests -> [1..RespChunks -> Handlers \cup {None}]]
  <2>1. CASE DispatchError(m)
    <3>1. [kind |-> "error", execs |-> {m.exec}] \in Arrivals
      BY <1>2 DEF Arrivals
    <3> QED
      BY <2>1, <3>1, <1>4 DEF DispatchError, ProxyInv, ProxyTypes
  <2>2. CASE DispatchData(m)
    <3>1. WithChunk(m) \in [1..RespChunks -> Handlers \cup {None}]
      <4>1. respParts[m.req] \in [1..RespChunks -> Handlers \cup {None}]
        BY <1>2 DEF ProxyInv, ProxyTypes
      <4> QED
        BY <1>2, <4>1 DEF WithChunk
    <3>2. CASE Whole(WithChunk(m))
      <4>1. [kind |-> "data", execs |-> {WithChunk(m)[i] : i \in 1..RespChunks}] \in Arrivals
        BY <3>1, <3>2 DEF Arrivals, Whole
      <4>2. /\ HandTo(m.req, [kind |-> "data", execs |-> {WithChunk(m)[i] : i \in 1..RespChunks}])
            /\ respParts' = [respParts EXCEPT ![m.req] = NoParts]
        BY <2>2, <3>2 DEF DispatchData
      <4>3. respParts' \in [Requests -> [1..RespChunks -> Handlers \cup {None}]]
        BY <4>2 DEF NoParts, ProxyInv, ProxyTypes
      <4> QED
        BY <1>4, <4>1, <4>2, <4>3
    <3>3. CASE ~Whole(WithChunk(m))
      BY <2>2, <3>1, <3>3 DEF DispatchData, ProxyInv, ProxyTypes
    <3> QED
      BY <3>2, <3>3
  <2> QED
    BY <1>1, <2>1, <2>2
<1>6. ProxyInv'
  BY <1>5 DEF Dispatch, ProxyInv, ProxyTypes, RequestPhase
<1> QED
  BY <1>3, <1>6, SameExit DEF Dispatch

LEMMA TypeReceive == TypeInv /\ ExitReceive => TypeInv'
<1> SUFFICES ASSUME TypeInv, ExitReceive PROVE TypeInv'
  OBVIOUS
<1> USE DEF TypeInv
<1>1. PICK m \in toExit, again \in BOOLEAN :
         /\ Redelivers(m, again)
         /\ toExit' = Left(toExit, m, again)
         /\ \/ /\ reqParts' = [reqParts EXCEPT ![m.req] = reqParts[m.req] \cup {m.idx}]
               /\ UNCHANGED <<hpc, hreq, metrics>>
            \/ /\ reqParts' = [reqParts EXCEPT ![m.req] = {}]
               /\ \E h \in Handlers : /\ hpc[h] = "free"
                                      /\ hpc' = [hpc EXCEPT ![h] = "run"]
                                      /\ hreq' = [hreq EXCEPT ![h] = m.req]
               /\ Count({"ExitRequests"})
  BY DEF ExitReceive
<1>2. m \in RequestFrames /\ m.req \in Requests /\ m.idx \in 1..ReqChunks
  BY DEF NetTypes, RequestFrames
<1>3. NetTypes'
  BY <1>1, <1>2 DEF ExitReceive, Redelivers, Left, NetTypes
<1>4. metrics' \in [Counters -> Nat]
  BY <1>1, CountType
<1>5. ExitInv'
  BY <1>1, <1>2 DEF ExitReceive, ExitInv, ExitTypes, HandlerPhase
<1> QED
  BY <1>3, <1>4, <1>5, SameProxy DEF ExitReceive

LEMMA TypeStep == TypeInv /\ [Next]_vars => TypeInv'
<1> SUFFICES ASSUME TypeInv, [Next]_vars PROVE TypeInv'
  OBVIOUS
<1> USE DEF TypeInv
<1>1. CASE \E r \in Requests : RequestStep(r)
  BY <1>1, TypeRequestStep
<1>2. CASE \E h \in Handlers : HandlerStep(h)
  BY <1>2, TypeHandlerStep
<1>3. CASE Dispatch \/ ExitReceive
  BY <1>3, TypeDispatch, TypeReceive
<1>4. CASE SessionDies \/ Stop
  <2>1. ProxyInv'
    BY <1>4 DEF SessionDies, Stop, ProxyInv, ProxyTypes, RequestPhase
  <2> QED
    BY <1>4, <2>1, SameExit, SameNet DEF SessionDies, Stop
<1>5. CASE ProxyExits
  <2>1. Answer("cut", {}) \in Replies
    BY DEF Answer, Replies
  <2>2. ProxyInv'
    BY <1>5, <2>1 DEF ProxyExits, ProxyInv, ProxyTypes, RequestPhase
  <2> QED
    BY <1>5, <2>2, SameExit, SameNet DEF ProxyExits
<1>6. CASE Crash \/ Restart
  <2>1. CASE Crash
    <3>1. \A h \in Handlers : hpc'[h] = hpc[h] \/ (hpc'[h] = "dead" /\ hpc[h] # "free")
      BY <2>1 DEF Crash, Active
    <3>2. HandlerPhase'
      BY <2>1, <3>1 DEF Crash, ExitInv, HandlerPhase
    <3>3. ExitTypes'
      <4>1. hpc' \in [Handlers -> {"free", "run", "called", "reply", "done", "failed", "dead"}]
        BY <2>1, <3>1 DEF Crash, ExitInv, ExitTypes
      <4>2. reqParts' \in [Requests -> SUBSET (1..ReqChunks)]
        BY <2>1 DEF Crash
      <4>3. /\ exitUp' = FALSE /\ crashes' = crashes + 1
             /\ UNCHANGED <<hreq, hsent, outcome, performed>>
        BY <2>1 DEF Crash
      <4> QED
        <5>1. exitUp' \in BOOLEAN
          BY <4>3, Zenon
        <5> QED
          BY <4>1, <4>2, <4>3, <5>1 DEF ExitInv, ExitTypes
    <3>4. metrics' \in [Counters -> Nat]
      BY <2>1 DEF Crash
    <3> QED
      BY <2>1, <3>2, <3>3, <3>4, SameProxy, SameNet DEF Crash, ExitInv
  <2>2. CASE Restart
    <3>1. ExitInv'
      BY <2>2 DEF Restart, ExitInv, ExitTypes, HandlerPhase
    <3> QED
      BY <2>2, <3>1, SameProxy, SameNet DEF Restart
  <2> QED
    BY <1>6, <2>1, <2>2
<1>7. CASE LoseToExit \/ LoseToProxy
  BY <1>7, SameProxy, SameExit DEF LoseToExit, LoseToProxy, NetTypes
<1>8. CASE \E r \in Requests : EvictRequest(r)
  <2>1. ExitInv'
    BY <1>8 DEF EvictRequest, ExitInv, ExitTypes, HandlerPhase
  <2> QED
    BY <1>8, <2>1, SameProxy, SameNet DEF EvictRequest
<1>9. CASE \E r \in Requests : EvictResponse(r)
  <2>1. ProxyInv'
    BY <1>9 DEF EvictResponse, NoParts, ProxyInv, ProxyTypes, RequestPhase
  <2> QED
    BY <1>9, <2>1, SameExit, SameNet DEF EvictResponse
<1>10. CASE AtRest \/ UNCHANGED vars
  BY <1>10, SameProxy, SameExit, SameNet DEF AtRest, vars
<1> QED
  BY <1>1, <1>2, <1>3, <1>4, <1>5, <1>6, <1>7, <1>8, <1>9, <1>10 DEF Next

\* Every variable of the exchange always has its type (the whole of http_proxy.go,
\* http_executor.go and the frames between them).
THEOREM TypeCorrect == Spec => []TypeOK
<1>1. TypeInv => TypeOK
  BY DEF TypeInv, TypeOK, ProxyInv, ExitInv
<1> QED
  BY <1>1, TypeInit, TypeStep, PTL DEF Spec

-----------------------------------------------------------------------------
(* One execution per request, unless the network delivers twice. *)

InToExit(r) == {m \in toExit : m.req = r}

\* A chunk of r is in one place at a time: not sent yet, in the network, in the reassembler,
\* or, with all the others, in the one handler of r.
OnePlace(r) ==
    /\ \A m \in InToExit(r) : m.idx \in 1..sent[r] /\ m.idx \notin reqParts[r]
    /\ reqParts[r] \subseteq 1..sent[r]
    /\ HandlersOf(r) # {} => sent[r] = ReqChunks /\ InToExit(r) = {} /\ reqParts[r] = {}
    /\ \A h1, h2 \in HandlersOf(r) : h1 = h2

DeliveryInv == \A r \in Requests : ~RequestRedelivered(r) => OnePlace(r)

\* Chunks of requests may disappear.
LEMMA DeliveryLess ==
    ASSUME DeliveryInv, toExit' \subseteq toExit, redelivered \subseteq redelivered',
           \A r \in Requests : reqParts'[r] \subseteq reqParts[r],
           UNCHANGED <<sent, hreq>>
    PROVE  DeliveryInv'
<1> SUFFICES ASSUME NEW r \in Requests, ~RequestRedelivered(r)' PROVE OnePlace(r)'
  BY DEF DeliveryInv
<1>1. OnePlace(r)
  BY DEF DeliveryInv, RequestRedelivered
<1>2. InToExit(r)' \subseteq InToExit(r) /\ HandlersOf(r)' = HandlersOf(r)
  BY DEF InToExit, HandlersOf
<1> QED
  BY <1>1, <1>2 DEF OnePlace

\* The chunk loop of SendRequest hands on, or fails to hand on, its next chunk.
LEMMA DeliverySend ==
    ASSUME TypeInv, DeliveryInv, NEW r \in Requests, sent[r] < ReqChunks,
           sent' = [sent EXCEPT ![r] = @ + 1],
           toExit' \subseteq toExit \cup {RequestFrame(r, sent[r] + 1)},
           UNCHANGED <<reqParts, hreq, redelivered>>
    PROVE  DeliveryInv'
<1> SUFFICES ASSUME NEW q \in Requests, ~RequestRedelivered(q)' PROVE OnePlace(q)'
  BY DEF DeliveryInv
<1>1. OnePlace(q) /\ HandlersOf(q)' = HandlersOf(q)
  BY DEF DeliveryInv, RequestRedelivered, HandlersOf
<1>2. sent[q] \in Nat /\ sent[r] \in Nat /\ ReqChunks \in Nat
  BY ChunksAssumption DEF TypeInv, ProxyInv, ProxyTypes
<1>3. CASE q # r
  <2>1. InToExit(q)' \subseteq InToExit(q) /\ sent'[q] = sent[q]
    BY <1>3 DEF InToExit, RequestFrame, TypeInv, ProxyInv, ProxyTypes
  <2> QED
    BY <1>1, <2>1 DEF OnePlace
<1>4. CASE q = r
  <2>1. HandlersOf(q) = {} /\ sent'[q] = sent[q] + 1
    BY <1>1, <1>2, <1>4 DEF OnePlace, TypeInv, ProxyInv, ProxyTypes
  <2>2. \A m \in InToExit(q)' : m \in InToExit(q) \/ m.idx = sent[q] + 1
    BY <1>4 DEF InToExit, RequestFrame
  <2>3. sent[q] + 1 \notin reqParts[q]
    BY <1>1, <1>2 DEF OnePlace
  <2> QED
    BY <1>1, <1>2, <2>1, <2>2, <2>3 DEF OnePlace
<1> QED
  BY <1>3, <1>4

LEMMA DeliveryReceive ==
    ASSUME TypeInv, DeliveryInv, ExitReceive
    PROVE  DeliveryInv'
<1>1. PICK m \in toExit, again \in BOOLEAN :
         /\ Redelivers(m, again)
         /\ toExit' = Left(toExit, m, again)
         /\ LET parts == reqParts[m.req] \cup {m.idx} IN
              \/ /\ reqParts' = [reqParts EXCEPT ![m.req] = parts]
                 /\ UNCHANGED hreq
              \/ /\ parts = 1..ReqChunks
                 /\ reqParts' = [reqParts EXCEPT ![m.req] = {}]
                 /\ \E h \in Handlers : /\ hpc[h] = "free"
                                        /\ hreq' = [hreq EXCEPT ![h] = m.req]
  BY DEF ExitReceive, Complete
<1>2. m \in RequestFrames /\ m.req \in Requests /\ m.idx \in 1..ReqChunks
  BY DEF TypeInv, NetTypes, RequestFrames
<1>3. UNCHANGED sent /\ sent \in [Requests -> Nat] /\ ReqChunks \in Nat \ {0}
  BY ChunksAssumption DEF ExitReceive, proxyVars, TypeInv, ProxyInv, ProxyTypes
<1>4. /\ reqParts \in [Requests -> SUBSET (1..ReqChunks)]
       /\ hreq \in [Handlers -> Requests \cup {None}]
  BY DEF TypeInv, ExitInv, ExitTypes
<1> SUFFICES ASSUME NEW r \in Requests, ~RequestRedelivered(r)' PROVE OnePlace(r)'
  BY DEF DeliveryInv
<1>5. OnePlace(r)
  BY <1>1 DEF DeliveryInv, RequestRedelivered, Redelivers
<1>6. InToExit(r)' \subseteq InToExit(r)
  BY <1>1 DEF InToExit, Left
<1>7. CASE r # m.req
  <2>1. reqParts'[r] = reqParts[r]
    BY <1>1, <1>2, <1>4, <1>7
  <2>2. HandlersOf(r)' \subseteq HandlersOf(r)
    BY <1>1, <1>4, <1>7 DEF HandlersOf
  <2> QED
    BY <1>3, <1>5, <1>6, <2>1, <2>2 DEF OnePlace
<1>8. CASE r = m.req
  <2>1. m = RequestFrame(r, m.idx)
    BY <1>2, <1>8 DEF RequestFrame, RequestFrames
  <2>2. ~again
    BY <1>1, <1>2, <2>1 DEF Redelivers, RequestRedelivered
  <2>3. \A n \in InToExit(r)' : n \in InToExit(r) /\ n.idx # m.idx
    <3> SUFFICES ASSUME NEW n \in InToExit(r)' PROVE n \in InToExit(r) /\ n.idx # m.idx
      OBVIOUS
    <3>1. n \in toExit /\ n.req = r /\ n # m
      BY <1>1, <2>2 DEF InToExit, Left
    <3>2. n \in RequestFrames
      BY <3>1 DEF TypeInv, NetTypes
    <3> QED
      BY <2>1, <3>1, <3>2 DEF RequestFrames, RequestFrame, InToExit
  <2>4. m \in InToExit(r) /\ HandlersOf(r) = {} /\ m.idx \in 1..sent[r]
    BY <1>5, <1>8 DEF InToExit, OnePlace
  <2>5. CASE reqParts' = [reqParts EXCEPT ![m.req] = reqParts[m.req] \cup {m.idx}] /\ UNCHANGED hreq
    <3>1. reqParts'[r] = reqParts[r] \cup {m.idx} /\ HandlersOf(r)' = {}
      BY <1>4, <1>8, <2>4, <2>5 DEF HandlersOf
    <3> QED
      BY <1>3, <1>5, <2>3, <2>4, <3>1 DEF OnePlace
  <2>6. CASE /\ reqParts[m.req] \cup {m.idx} = 1..ReqChunks
             /\ reqParts' = [reqParts EXCEPT ![m.req] = {}]
             /\ \E h \in Handlers : hreq' = [hreq EXCEPT ![h] = m.req]
    <3>1. reqParts'[r] = {}
      BY <1>4, <1>8, <2>6
    <3>2. \A h1, h2 \in HandlersOf(r)' : h1 = h2
      BY <1>4, <1>8, <2>4, <2>6 DEF HandlersOf
    <3>3. ReqChunks \in 1..sent[r]
      <4>1. ReqChunks \in reqParts[r] \cup {m.idx}
        BY <1>3, <1>8, <2>6
      <4>2. reqParts[r] \subseteq 1..sent[r]
        BY <1>5 DEF OnePlace
      <4> QED
        BY <2>4, <4>1, <4>2
    <3>4. sent[r] = ReqChunks
      <4>1. sent[r] \in 0..ReqChunks
        BY DEF TypeInv, ProxyInv, ProxyTypes
      <4> QED
        BY <1>3, <3>3, <4>1
    <3>5. InToExit(r)' = {}
      <4> SUFFICES ASSUME NEW n \in InToExit(r)' PROVE FALSE
        OBVIOUS
      <4>1. n \in InToExit(r) /\ n.idx # m.idx
        BY <2>3
      <4>2. n.idx \in 1..ReqChunks /\ n.idx \notin reqParts[r]
        BY <1>5, <3>4, <4>1 DEF OnePlace
      <4> QED
        BY <1>8, <2>6, <4>1, <4>2
    <3> QED
      BY <1>3, <3>1, <3>2, <3>4, <3>5 DEF OnePlace
  <2> QED
    BY <1>1, <2>5, <2>6
<1> QED
  BY <1>7, <1>8

LEMMA DeliveryStep == TypeInv /\ DeliveryInv /\ [Next]_vars => DeliveryInv'
<1> SUFFICES ASSUME TypeInv, DeliveryInv, [Next]_vars PROVE DeliveryInv'
  OBVIOUS
<1>1. CASE UNCHANGED <<sent, toExit, redelivered, reqParts, hreq>>
  BY <1>1, DeliveryLess
<1>2. ASSUME NEW r \in Requests, RequestStep(r) PROVE DeliveryInv'
  <2>1. CASE SendRequestChunk(r) \/ RequestSendFails(r)
    <3>1. sent[r] < ReqChunks
      BY <2>1 DEF SendRequestChunk, RequestSendFails, TypeInv, ProxyInv, RequestPhase
    <3> QED
      BY <2>1, <3>1, DeliverySend DEF SendRequestChunk, RequestSendFails, GiveUp, exitVars
  <2> QED
    BY <1>1, <1>2, <2>1
    DEF RequestStep, RefuseLocally, ServeFromCache, Admit, TooMany, TimeOut, Take, GiveUp,
        exitVars, netVars
<1>3. ASSUME NEW h \in Handlers, HandlerStep(h) PROVE DeliveryInv'
  BY <1>1, <1>3
  DEF HandlerStep, RefuseAtExit, Perform, NotPerformed, UpstreamFails, UpstreamAnswers, Answers,
      SendResponseChunk, ResponseSendFails, proxyVars, netVars
<1>4. CASE Dispatch
  <2>1. redelivered \subseteq redelivered' /\ UNCHANGED <<sent, toExit, reqParts, hreq>>
    BY <1>4 DEF Dispatch, Redelivers, exitVars
  <2> QED
    BY <2>1, DeliveryLess
<1>5. CASE ExitReceive
  BY <1>5, DeliveryReceive
<1>6. CASE Crash \/ LoseToExit \/ \E r \in Requests : EvictRequest(r)
  <2>1. \A r \in Requests : reqParts'[r] \subseteq reqParts[r]
    BY <1>6 DEF Crash, LoseToExit, EvictRequest, exitVars, TypeInv, ExitInv, ExitTypes
  <2>2. toExit' \subseteq toExit /\ UNCHANGED <<sent, hreq, redelivered>>
    BY <1>6 DEF Crash, LoseToExit, EvictRequest, exitVars, proxyVars, netVars
  <2> QED
    BY <2>1, <2>2, DeliveryLess
<1> QED
  BY <1>1, <1>2, <1>3, <1>4, <1>5, <1>6
  DEF Next, SessionDies, Stop, ProxyExits, Restart, LoseToProxy, EvictResponse, AtRest, vars,
      proxyVars, exitVars, netVars

\* handleRequest runs at most once for a request no chunk of which was delivered twice: each
\* chunk is consumed where it is used, so a second completion needs a second delivery.
THEOREM OnceUnlessRedelivered == Spec => []AtMostOnce
<1>1. Init => DeliveryInv
  BY NoneAssumption
  DEF Init, ProxyInit, ExitInit, DeliveryInv, OnePlace, InToExit, HandlersOf
<1>2. DeliveryInv => AtMostOnce
  BY DEF DeliveryInv, OnePlace, AtMostOnce
<1> QED
  BY <1>1, <1>2, TypeInit, TypeStep, DeliveryStep, PTL DEF Spec

-----------------------------------------------------------------------------
(* Where an answer comes from. *)

\* What h says in a frame of that kind: settled once h has its answer.
Says(h, kind) == IF kind = "data" THEN outcome[h] = "ok" ELSE outcome[h] \notin {"none", "ok"}

ExecutionsOf(r, kind, execs) ==
    \A h \in execs : h \in Handlers /\ hreq[h] = r /\ Says(h, kind)

HandlerOrigin ==
    \A h \in Handlers : /\ hpc[h] = "called" => h \in performed
                        /\ outcome[h] = "ok" => h \in performed
                        /\ hpc[h] = "reply" => outcome[h] # "none"

NetOrigin == \A m \in toProxy : ExecutionsOf(m.req, m.kind, {m.exec})

\* What the proxy holds of a response, in its reassembler, its channel and its answer.
PartsOrigin == \A r \in Requests : \A i \in 1..RespChunks :
                 respParts[r][i] # None => ExecutionsOf(r, "data", {respParts[r][i]})

InboxOrigin(r) == inbox[r] # None => /\ inbox[r].execs # {}
                                     /\ ExecutionsOf(r, inbox[r].kind, inbox[r].execs)

ReplyOrigin(answer, r) ==
    /\ answer.kind \in {"ok", "invalid"} => ExecutionsOf(r, "data", answer.execs)
    /\ answer.kind = "error" => ExecutionsOf(r, "error", answer.execs)
    /\ answer.kind = "ok" => answer.execs # {}
    /\ answer.kind \notin {"ok", "invalid", "error"} => answer.execs = {}

ProxyOrigin == /\ PartsOrigin
               /\ \A r \in Requests : InboxOrigin(r) /\ ReplyOrigin(reply[r], r)

OriginInv == HandlerOrigin /\ NetOrigin /\ ProxyOrigin

\* A handler that has its answer keeps it, and its request.
LEMMA Settled ==
    ASSUME TypeInv, [Next]_vars, NEW h \in Handlers, outcome[h] # "none"
    PROVE  hreq'[h] = hreq[h] /\ outcome'[h] = outcome[h]
<1> USE DEF TypeInv, ExitInv, ExitTypes, HandlerPhase
<1>1. CASE UNCHANGED <<hreq, outcome>>
  BY <1>1
<1>2. ASSUME NEW g \in Handlers, HandlerStep(g)
      PROVE  hreq'[h] = hreq[h] /\ outcome'[h] = outcome[h]
  <2>1. UNCHANGED hreq
    BY <1>2
    DEF HandlerStep, RefuseAtExit, Perform, NotPerformed, UpstreamFails, UpstreamAnswers,
        Answers, SendResponseChunk, ResponseSendFails
  <2>2. CASE \E code : Answers(g, code) /\ hpc[g] \in {"run", "called"}
    BY <2>1, <2>2 DEF Answers
  <2>3. CASE Perform(g) \/ SendResponseChunk(g) \/ ResponseSendFails(g)
    BY <2>1, <2>3 DEF Perform, SendResponseChunk, ResponseSendFails
  <2> QED
    BY <1>2, <2>2, <2>3
    DEF HandlerStep, RefuseAtExit, NotPerformed, UpstreamFails, UpstreamAnswers
<1>3. CASE ExitReceive
  <2>1. UNCHANGED outcome
    BY <1>3 DEF ExitReceive
  <2>2. hpc[h] # "free"
    OBVIOUS
  <2>3. \/ hreq' = hreq
        \/ \E g \in Handlers : hpc[g] = "free" /\ \E q : hreq' = [hreq EXCEPT ![g] = q]
    BY <1>3 DEF ExitReceive
  <2> QED
    BY <2>1, <2>2, <2>3
<1> QED
  BY <1>1, <1>2, <1>3
  DEF Next, RequestStep, RefuseLocally, ServeFromCache, Admit, TooMany, SendRequestChunk,
      RequestSendFails,
      TimeOut, Take, GiveUp, Dispatch, SessionDies, Stop, ProxyExits, Crash, Restart,
      LoseToExit, LoseToProxy, EvictRequest, EvictResponse, AtRest, vars, exitVars

LEMMA ExecutionsStay ==
    ASSUME TypeInv, [Next]_vars, NEW r, NEW kind, NEW execs, ExecutionsOf(r, kind, execs)
    PROVE  ExecutionsOf(r, kind, execs)'
<1> SUFFICES ASSUME NEW h \in execs PROVE (h \in Handlers /\ hreq[h] = r /\ Says(h, kind))'
  BY DEF ExecutionsOf
<1>1. h \in Handlers /\ hreq[h] = r /\ Says(h, kind)
  BY DEF ExecutionsOf
<1>2. outcome[h] # "none"
  BY <1>1 DEF Says
<1>3. hreq'[h] = hreq[h] /\ outcome'[h] = outcome[h]
  BY <1>1, <1>2, Settled
<1> QED
  BY <1>1, <1>3 DEF Says

LEMMA HandlerOriginStep == TypeInv /\ HandlerOrigin /\ [Next]_vars => HandlerOrigin'
<1> SUFFICES ASSUME TypeInv, HandlerOrigin, [Next]_vars PROVE HandlerOrigin'
  OBVIOUS
<1> USE DEF TypeInv, ExitInv, ExitTypes, HandlerPhase
<1>1. CASE UNCHANGED <<hpc, outcome, performed>>
  BY <1>1 DEF HandlerOrigin
<1>2. ASSUME NEW g \in Handlers, HandlerStep(g) PROVE HandlerOrigin'
  <2>1. ASSUME NEW code, Answers(g, code), code # "none", code = "ok" => g \in performed
        PROVE  HandlerOrigin'
    BY <2>1 DEF Answers, HandlerOrigin
  <2>2. CASE Perform(g)
    BY <2>2 DEF Perform, HandlerOrigin
  <2>3. CASE SendResponseChunk(g) \/ ResponseSendFails(g)
    BY <2>3 DEF SendResponseChunk, ResponseSendFails, HandlerOrigin
  <2>4. CASE RefuseAtExit(g)
    <3>1. verdict[hreq[g]] \in Verdicts \ {"forward"}
      BY <2>4 DEF RefuseAtExit, Forwarded, ProxyInv, ProxyTypes
    <3> QED
      BY <2>1, <2>4, <3>1 DEF RefuseAtExit, Verdicts
  <2>5. CASE NotPerformed(g) \/ UpstreamFails(g)
    BY <2>1, <2>5, FaultsAssumption DEF NotPerformed, UpstreamFails, AllCodes
  <2>6. CASE UpstreamAnswers(g)
    BY <2>1, <2>6 DEF UpstreamAnswers, HandlerOrigin
  <2> QED
    BY <1>2, <2>2, <2>3, <2>4, <2>5, <2>6 DEF HandlerStep
<1>3. CASE ExitReceive
  <2>1. UNCHANGED <<outcome, performed>>
    BY <1>3 DEF ExitReceive
  <2>2. hpc' = hpc \/ \E g \in Handlers : hpc' = [hpc EXCEPT ![g] = "run"]
    BY <1>3 DEF ExitReceive
  <2> QED
    BY <2>1, <2>2 DEF HandlerOrigin
<1>4. CASE Crash
  BY <1>4 DEF Crash, HandlerOrigin
<1> QED
  BY <1>1, <1>2, <1>3, <1>4
  DEF Next, RequestStep, RefuseLocally, ServeFromCache, Admit, TooMany, SendRequestChunk,
      RequestSendFails,
      TimeOut, Take, GiveUp, Dispatch, SessionDies, Stop, ProxyExits, Restart,
      LoseToExit, LoseToProxy, EvictRequest, EvictResponse, AtRest, vars, exitVars

LEMMA NetOriginStep == TypeInv /\ HandlerOrigin /\ NetOrigin /\ [Next]_vars => NetOrigin'
<1> SUFFICES ASSUME TypeInv, HandlerOrigin, NetOrigin, [Next]_vars, NEW m \in toProxy'
             PROVE  ExecutionsOf(m.req, m.kind, {m.exec})'
  BY DEF NetOrigin
<1>1. CASE m \in toProxy
  BY <1>1, ExecutionsStay DEF NetOrigin
<1>2. ASSUME NEW h \in Handlers, hpc[h] = "reply", NEW i, m = ResponseFrame(h, i)
      PROVE  ExecutionsOf(m.req, m.kind, {m.exec})'
  <2>1. m.req = hreq[h] /\ m.exec = h /\ m.kind = (IF outcome[h] = "ok" THEN "data" ELSE "error")
    BY <1>2 DEF ResponseFrame
  <2>2. ExecutionsOf(m.req, m.kind, {m.exec})
    BY <1>2, <2>1 DEF ExecutionsOf, Says, HandlerOrigin
  <2> QED
    BY <2>2, ExecutionsStay
<1>3. CASE \E h \in Handlers : HandlerStep(h)
  BY <1>1, <1>2, <1>3
  DEF HandlerStep, RefuseAtExit, Perform, NotPerformed, UpstreamFails, UpstreamAnswers, Answers,
      SendResponseChunk, ResponseSendFails, netVars
<1>4. CASE Dispatch
  BY <1>1, <1>4 DEF Dispatch, Left
<1> QED
  BY <1>1, <1>3, <1>4
  DEF Next, RequestStep, RefuseLocally, ServeFromCache, Admit, TooMany, SendRequestChunk,
      RequestSendFails,
      TimeOut, Take, GiveUp, SessionDies, Stop, ProxyExits, ExitReceive, Crash, Restart,
      LoseToExit, LoseToProxy, EvictRequest, EvictResponse, AtRest, vars, netVars

\* What the proxy held stays known when no step of its own adds to it.
LEMMA PartsOriginStay ==
    ASSUME TypeInv, PartsOrigin, [Next]_vars, NEW r \in Requests,
           respParts'[r] \in {respParts[r], NoParts}, NEW i \in 1..RespChunks,
           respParts'[r][i] # None
    PROVE  ExecutionsOf(r, "data", {respParts[r][i]})'
<1>1. PICK h : h = respParts[r][i]
  OBVIOUS
<1>2. respParts'[r][i] = h
  BY <1>1 DEF NoParts
<1>3. ExecutionsOf(r, "data", {h})
  BY <1>1, <1>2 DEF PartsOrigin
<1>4. ExecutionsOf(r, "data", {h})'
  BY <1>3, ExecutionsStay
<1> QED
  BY <1>2, <1>4

LEMMA InboxOriginStays ==
    ASSUME TypeInv, NEW r \in Requests, InboxOrigin(r), [Next]_vars,
           inbox'[r] \in {inbox[r], None}
    PROVE  InboxOrigin(r)'
<1> SUFFICES ASSUME inbox'[r] # None PROVE InboxOrigin(r)'
  BY DEF InboxOrigin
<1>1. PICK arrival : arrival = inbox[r]
  OBVIOUS
<1>2. arrival.execs # {} /\ ExecutionsOf(r, arrival.kind, arrival.execs)
  BY <1>1 DEF InboxOrigin
<1>3. ExecutionsOf(r, arrival.kind, arrival.execs)'
  BY <1>2, ExecutionsStay
<1> QED
  BY <1>1, <1>2, <1>3 DEF InboxOrigin

LEMMA ReplyOriginStays ==
    ASSUME TypeInv, [Next]_vars, NEW r, NEW answer, ReplyOrigin(answer, r)
    PROVE  ReplyOrigin(answer, r)'
  BY ExecutionsStay DEF ReplyOrigin

LEMMA ProxyOriginRequest ==
    ASSUME TypeInv, ProxyOrigin, [Next]_vars, NEW r \in Requests, RequestStep(r)
    PROVE  ProxyOrigin'
<1>1. /\ UNCHANGED respParts
      /\ \A q \in Requests : inbox'[q] \in {inbox[q], None}
  BY DEF RequestStep, RefuseLocally, ServeFromCache, Admit, TooMany, SendRequestChunk,
         RequestSendFails, TimeOut,
         Take, GiveUp, RemoveEntry, TypeInv, ProxyInv, ProxyTypes
<1>2. PartsOrigin'
  BY <1>1, PartsOriginStay DEF ProxyOrigin, PartsOrigin
<1>3. \A q \in Requests : InboxOrigin(q)'
  BY <1>1, InboxOriginStays DEF ProxyOrigin
<1>4. ASSUME NEW q \in Requests PROVE ReplyOrigin(reply[q], q)'
  <2>1. CASE reply'[q] = reply[q]
    <3>1. PICK answer : answer = reply[q]
      OBVIOUS
    <3> QED
      BY <2>1, <3>1, ReplyOriginStays DEF ProxyOrigin
  <2>2. ASSUME NEW answer, Ends(r, answer), ReplyOrigin(answer, r) PROVE ReplyOrigin(reply[q], q)'
    <3>1. reply'[r] = answer /\ (q # r => reply'[q] = reply[q])
      BY <2>2 DEF Ends, TypeInv, ProxyInv, ProxyTypes
    <3> QED
      BY <2>1, <2>2, <3>1, ReplyOriginStays
  <2>3. \A kind \in {"bad_gateway"} \cup LocalAnswers : ReplyOrigin(Answer(kind, {}), r)
    BY DEF ReplyOrigin, Answer, LocalRefusals, LocalAnswers
  <2>4. CASE RefuseLocally(r) \/ ServeFromCache(r)
    BY <2>2, <2>3, <2>4 DEF RefuseLocally, ServeFromCache, LocalAnswers
  <2>5. CASE TooMany(r)
    BY <2>2, <2>3, <2>5 DEF TooMany, LocalRefusals, LocalAnswers
  <2>6. CASE RequestSendFails(r) \/ TimeOut(r)
    BY <2>2, <2>3, <2>6 DEF RequestSendFails, TimeOut, GiveUp
  <2>7. CASE Take(r)
    <3>1. inbox[r].execs # {} /\ ExecutionsOf(r, inbox[r].kind, inbox[r].execs)
      BY <2>7 DEF Take, ProxyOrigin, InboxOrigin
    <3>2. PICK got : got = inbox[r]
      OBVIOUS
    <3>3. \E kind : /\ Ends(r, Answer(kind, got.execs))
                    /\ \/ kind = "error" /\ got.kind = "error"
                       \/ kind \in {"ok", "invalid"} /\ got.kind = "data"
      BY <2>7, <3>2 DEF Take
    <3>4. PICK kind : /\ Ends(r, Answer(kind, got.execs))
                      /\ \/ kind = "error" /\ got.kind = "error"
                         \/ kind \in {"ok", "invalid"} /\ got.kind = "data"
      BY <3>3
    <3>5. ReplyOrigin(Answer(kind, got.execs), r)
      BY <3>1, <3>2, <3>4 DEF ReplyOrigin, Answer
    <3> QED
      BY <2>2, <3>4, <3>5
  <2>8. CASE Admit(r) \/ SendRequestChunk(r)
    BY <2>1, <2>8 DEF Admit, SendRequestChunk
  <2> QED
    BY <2>4, <2>5, <2>6, <2>7, <2>8 DEF RequestStep
<1> QED
  BY <1>2, <1>3, <1>4 DEF ProxyOrigin

LEMMA ProxyOriginDispatch ==
    ASSUME TypeInv, NetOrigin, ProxyOrigin, [Next]_vars, Dispatch
    PROVE  ProxyOrigin'
<1>1. PICK m \in toProxy : DispatchError(m) \/ DispatchData(m)
  BY DEF Dispatch
<1>2. ExecutionsOf(m.req, m.kind, {m.exec})
  BY DEF NetOrigin
<1>3. m.req \in Requests /\ m.exec \in Handlers /\ m.idx \in 1..RespChunks
  BY DEF TypeInv, NetTypes, ResponseFrames
<1>4. ASSUME NEW i \in 1..RespChunks, NEW r \in Requests, WithChunk(m)[i] # None, m.kind = "data",
             r = m.req
      PROVE  ExecutionsOf(r, "data", {WithChunk(m)[i]})
  <2>1. respParts[r] \in [1..RespChunks -> Handlers \cup {None}]
    BY DEF TypeInv, ProxyInv, ProxyTypes
  <2>2. WithChunk(m)[i] \in {respParts[r][i], m.exec}
    BY <1>3, <1>4, <2>1 DEF WithChunk
  <2>3. respParts[r][i] # None => ExecutionsOf(r, "data", {respParts[r][i]})
    BY DEF ProxyOrigin, PartsOrigin
  <2> QED
    BY <1>2, <1>4, <2>2, <2>3 DEF ExecutionsOf
<1>5. PartsOrigin'
  <2> SUFFICES ASSUME NEW r \in Requests, NEW i \in 1..RespChunks, respParts'[r][i] # None
               PROVE  ExecutionsOf(r, "data", {respParts[r][i]})'
    BY DEF PartsOrigin
  <2>1. CASE respParts'[r] \in {respParts[r], NoParts}
    BY <2>1, PartsOriginStay DEF ProxyOrigin
  <2>2. CASE r = m.req /\ m.kind = "data" /\ respParts'[r] = WithChunk(m)
    <3>1. PICK h : h = WithChunk(m)[i]
      OBVIOUS
    <3>2. ExecutionsOf(r, "data", {h})'
      BY <1>4, <2>2, <3>1, ExecutionsStay
    <3> QED
      BY <2>2, <3>1, <3>2
  <2> QED
    BY <1>1, <2>1, <2>2 DEF DispatchError, DispatchData, TypeInv, ProxyInv, ProxyTypes
<1>6. ASSUME NEW r \in Requests PROVE InboxOrigin(r)'
  <2>1. CASE inbox'[r] = inbox[r]
    BY <2>1, InboxOriginStays DEF ProxyOrigin
  <2>2. ASSUME NEW kind, NEW execs, execs # {}, ExecutionsOf(m.req, kind, execs),
               HandTo(m.req, [kind |-> kind, execs |-> execs])
        PROVE  InboxOrigin(r)'
    <3>1. inbox'[r] = inbox[r] \/ (r = m.req /\ inbox'[r] = [kind |-> kind, execs |-> execs])
      BY <2>2 DEF HandTo, TypeInv, ProxyInv, ProxyTypes
    <3>2. ExecutionsOf(m.req, kind, execs)'
      BY <2>2, ExecutionsStay
    <3> QED
      BY <2>1, <2>2, <3>1, <3>2 DEF InboxOrigin
  <2>3. CASE DispatchError(m)
    BY <1>2, <2>2, <2>3 DEF DispatchError
  <2>4. CASE DispatchData(m) /\ Whole(WithChunk(m))
    <3>1. PICK execs : execs = {WithChunk(m)[i] : i \in 1..RespChunks}
      OBVIOUS
    <3>2. ExecutionsOf(m.req, "data", execs)
      BY <1>3, <1>4, <2>4, <3>1 DEF ExecutionsOf, Whole, DispatchData
    <3>3. execs # {}
      BY <1>3, <3>1
    <3> QED
      BY <2>2, <2>4, <3>1, <3>2, <3>3 DEF DispatchData
  <2> QED
    BY <1>1, <2>1, <2>3, <2>4 DEF DispatchData
<1>7. ASSUME NEW r \in Requests PROVE ReplyOrigin(reply[r], r)'
  <2>1. PICK answer : answer = reply[r]
    OBVIOUS
  <2> QED
    BY <2>1, ReplyOriginStays DEF Dispatch, ProxyOrigin
<1> QED
  BY <1>5, <1>6, <1>7 DEF ProxyOrigin

LEMMA OriginInit == Init => OriginInv
  BY NoneAssumption, ChunksAssumption
  DEF Init, ProxyInit, ExitInit, OriginInv, HandlerOrigin, NetOrigin, ProxyOrigin, PartsOrigin,
      InboxOrigin, ReplyOrigin, NoParts, Answer

LEMMA OriginStep == TypeInv /\ OriginInv /\ [Next]_vars => OriginInv'
<1> SUFFICES ASSUME TypeInv, OriginInv, [Next]_vars PROVE ProxyOrigin'
  BY HandlerOriginStep, NetOriginStep DEF OriginInv
<1> USE DEF OriginInv
<1>1. ASSUME \A r \in Requests : /\ respParts'[r] \in {respParts[r], NoParts}
                                 /\ inbox'[r] \in {inbox[r], None}
                                 /\ reply'[r] = reply[r] \/ reply'[r] = Answer("cut", {})
      PROVE  ProxyOrigin'
  <2>1. PartsOrigin'
    BY <1>1, PartsOriginStay DEF ProxyOrigin, PartsOrigin
  <2>2. \A r \in Requests : InboxOrigin(r)'
    BY <1>1, InboxOriginStays DEF ProxyOrigin
  <2>3. ASSUME NEW r \in Requests PROVE ReplyOrigin(reply[r], r)'
    <3>1. PICK answer : answer = reply[r]
      OBVIOUS
    <3>2. ReplyOrigin(answer, r)'
      BY <3>1, ReplyOriginStays DEF ProxyOrigin
    <3>3. CASE reply'[r] = Answer("cut", {})
      BY <3>3 DEF ReplyOrigin, Answer
    <3> QED
      BY <1>1, <3>1, <3>2, <3>3
  <2> QED
    BY <2>1, <2>2, <2>3 DEF ProxyOrigin
<1>2. CASE UNCHANGED <<respParts, inbox, reply>>
  BY <1>1, <1>2
<1>3. CASE \E r \in Requests : RequestStep(r)
  BY <1>3, ProxyOriginRequest
<1>4. CASE Dispatch
  BY <1>4, ProxyOriginDispatch
<1>5. CASE ProxyExits
  BY <1>1, <1>5 DEF ProxyExits
<1>6. CASE \E r \in Requests : EvictResponse(r)
  <2>1. \A r \in Requests : respParts'[r] \in {respParts[r], NoParts}
    BY <1>6 DEF EvictResponse, TypeInv, ProxyInv, ProxyTypes
  <2> QED
    BY <1>1, <1>6, <2>1 DEF EvictResponse
<1> QED
  BY <1>2, <1>3, <1>4, <1>5, <1>6
  DEF Next, SessionDies, Stop, ExitReceive, HandlerStep, RefuseAtExit, Perform, NotPerformed,
      UpstreamFails, UpstreamAnswers, Answers, SendResponseChunk, ResponseSendFails, Crash,
      Restart, LoseToExit, LoseToProxy, EvictRequest, AtRest, vars, proxyVars

\* An answer the browser gets comes from executions of its own request that performed it, and
\* from one execution only unless the request was delivered twice.
THEOREM AnswersCorrelated == Spec => []Correlated
<1>1. TypeInv /\ OriginInv /\ AtMostOnce => Correlated
  <2> SUFFICES ASSUME TypeInv, OriginInv, AtMostOnce, NEW r \in Requests
               PROVE  /\ reply[r].execs \subseteq HandlersOf(r)
                      /\ reply[r].kind = "ok" =>
                           /\ reply[r].execs # {}
                           /\ \A h \in reply[r].execs : h \in performed /\ outcome[h] = "ok"
                      /\ reply[r].kind = "error" => \A h \in reply[r].execs : outcome[h] # "ok"
                      /\ ~RequestRedelivered(r) => \A h1, h2 \in reply[r].execs : h1 = h2
    BY DEF Correlated
  <2>1. ReplyOrigin(reply[r], r) /\ HandlerOrigin
    BY DEF OriginInv, ProxyOrigin
  <2>2. reply[r].execs \subseteq HandlersOf(r)
    BY <2>1 DEF ReplyOrigin, ExecutionsOf, HandlersOf
  <2>3. reply[r].kind = "ok" => /\ reply[r].execs # {}
                                /\ \A h \in reply[r].execs : h \in performed /\ outcome[h] = "ok"
    BY <2>1 DEF ReplyOrigin, ExecutionsOf, Says, HandlerOrigin
  <2>4. reply[r].kind = "error" => \A h \in reply[r].execs : outcome[h] # "ok"
    BY <2>1 DEF ReplyOrigin, ExecutionsOf, Says
  <2> QED
    BY <2>2, <2>3, <2>4 DEF AtMostOnce
<1> QED
  BY <1>1, OriginInit, OriginStep, OnceUnlessRedelivered, TypeInit, TypeStep, PTL DEF Spec

-----------------------------------------------------------------------------
(* What a refusal promises. *)

\* A request of which no chunk was sent is nowhere beyond the proxy.
Unsent(r) == InToExit(r) = {} /\ reqParts[r] = {} /\ HandlersOf(r) = {}

NothingAhead == \A r \in Requests : sent[r] = 0 => Unsent(r)

RefusedUnsent ==
    \A r \in Requests : reply[r].kind \in LocalAnswers => pc[r] = "done" /\ sent[r] = 0

\* The verdict of a request is settled before its first chunk leaves.
OnlyForwarded == \A h \in performed : hpc[h] \notin {"free", "run"} /\ Forwarded(h)

RefusalInv == NothingAhead /\ RefusedUnsent /\ OnlyForwarded

LEMMA NothingAheadStep == TypeInv /\ NothingAhead /\ [Next]_vars => NothingAhead'
<1> SUFFICES ASSUME TypeInv, NothingAhead, [Next]_vars, NEW r \in Requests, sent'[r] = 0
             PROVE  Unsent(r)'
  BY DEF NothingAhead
<1>1. ASSUME sent[r] = 0, InToExit(r)' \subseteq InToExit(r), reqParts'[r] \subseteq reqParts[r],
             HandlersOf(r)' \subseteq HandlersOf(r)
      PROVE  Unsent(r)'
  BY <1>1 DEF NothingAhead, Unsent
<1>2. CASE UNCHANGED sent /\ toExit' \subseteq toExit /\ UNCHANGED <<reqParts, hreq>>
  BY <1>1, <1>2 DEF InToExit, HandlersOf
<1>3. ASSUME NEW q \in Requests, SendRequestChunk(q) \/ RequestSendFails(q) PROVE Unsent(r)'
  <2>1. sent \in [Requests -> Nat] /\ sent' = [sent EXCEPT ![q] = @ + 1]
    BY <1>3, ChunksAssumption
    DEF SendRequestChunk, RequestSendFails, TypeInv, ProxyInv, ProxyTypes
  <2>2. q # r /\ sent[r] = 0
    BY <2>1
  <2>3. toExit' \subseteq toExit \cup {RequestFrame(q, sent[q] + 1)}
    BY <1>3 DEF SendRequestChunk, RequestSendFails
  <2>4. InToExit(r)' \subseteq InToExit(r)
    BY <2>2, <2>3 DEF InToExit, RequestFrame
  <2>5. UNCHANGED <<reqParts, hreq>>
    BY <1>3 DEF SendRequestChunk, RequestSendFails, GiveUp, exitVars
  <2> QED
    BY <1>1, <2>2, <2>4, <2>5 DEF HandlersOf
<1>4. CASE ExitReceive
  <2>1. PICK m \in toExit :
          /\ toExit' \subseteq toExit
          /\ \A q \in Requests : q # m.req => reqParts'[q] = reqParts[q]
          /\ \A h \in Handlers : hreq'[h] = hreq[h] \/ hreq'[h] = m.req
    BY <1>4 DEF ExitReceive, Left, TypeInv, ExitInv, ExitTypes
  <2>2. sent[r] = 0
    BY <1>4 DEF ExitReceive, proxyVars
  <2>3. m.req # r
    BY <2>1, <2>2 DEF NothingAhead, Unsent, InToExit
  <2> QED
    BY <1>1, <2>1, <2>2, <2>3 DEF InToExit, HandlersOf
<1>5. CASE Crash \/ \E q \in Requests : EvictRequest(q)
  <2>1. reqParts'[r] \subseteq reqParts[r] /\ UNCHANGED <<sent, toExit, hreq>>
    BY <1>5 DEF Crash, EvictRequest, proxyVars, netVars, TypeInv, ExitInv, ExitTypes
  <2> QED
    BY <1>1, <2>1 DEF InToExit, HandlersOf
<1> QED
  BY <1>2, <1>3, <1>4, <1>5
  DEF Next, RequestStep, RefuseLocally, ServeFromCache, Admit, TooMany, TimeOut, Take, GiveUp,
      Dispatch,
      SessionDies, Stop, ProxyExits, HandlerStep, RefuseAtExit, Perform, NotPerformed,
      UpstreamFails, UpstreamAnswers, Answers, SendResponseChunk, ResponseSendFails, Restart,
      LoseToExit, LoseToProxy, EvictResponse, AtRest, vars, proxyVars, exitVars, netVars

LEMMA RefusedUnsentStep == TypeInv /\ RefusedUnsent /\ [Next]_vars => RefusedUnsent'
<1> SUFFICES ASSUME TypeInv, RefusedUnsent, [Next]_vars, NEW r \in Requests,
                    reply'[r].kind \in LocalAnswers
             PROVE  pc'[r] = "done" /\ sent'[r] = 0
  BY DEF RefusedUnsent
<1>1. ASSUME reply'[r] = reply[r], pc[r] = "done" => pc'[r] = "done" /\ sent'[r] = sent[r]
      PROVE  pc'[r] = "done" /\ sent'[r] = 0
  BY <1>1 DEF RefusedUnsent
<1>2. CASE UNCHANGED <<pc, reply, sent>>
  BY <1>1, <1>2
<1>3. ASSUME NEW q \in Requests, RequestStep(q) PROVE pc'[r] = "done" /\ sent'[r] = 0
  <2> USE DEF TypeInv, ProxyInv, ProxyTypes, RequestPhase
  <2>1. CASE RefuseLocally(q) \/ ServeFromCache(q) \/ TooMany(q)
    BY <1>1, <2>1 DEF RefuseLocally, ServeFromCache, TooMany, Ends
  <2>2. CASE Admit(q)
    BY <1>1, <2>2 DEF Admit
  <2>3. CASE SendRequestChunk(q)
    BY <1>1, <2>3 DEF SendRequestChunk
  <2>4. CASE RequestSendFails(q) \/ TimeOut(q)
    BY <1>1, <2>4 DEF RequestSendFails, TimeOut, GiveUp, Ends, Answer, LocalRefusals,
                      LocalAnswers, InFlight
  <2>5. CASE Take(q)
    BY <1>1, <2>5 DEF Take, Ends, Answer, LocalRefusals, LocalAnswers
  <2> QED
    BY <1>3, <2>1, <2>2, <2>3, <2>4, <2>5 DEF RequestStep
<1>4. CASE ProxyExits
  <2>1. CASE InFlight(r)
    BY <1>4, <2>1 DEF ProxyExits, Answer, LocalRefusals, LocalAnswers
  <2>2. CASE ~InFlight(r)
    BY <1>1, <1>4, <2>2 DEF ProxyExits
  <2> QED
    BY <2>1, <2>2
<1> QED
  BY <1>2, <1>3, <1>4
  DEF Next, Dispatch, SessionDies, Stop, ExitReceive, HandlerStep, RefuseAtExit, Perform,
      NotPerformed, UpstreamFails, UpstreamAnswers, Answers, SendResponseChunk,
      ResponseSendFails, Crash, Restart, LoseToExit, LoseToProxy, EvictRequest, EvictResponse,
      AtRest, vars, proxyVars

LEMMA OnlyForwardedStep ==
    TypeInv /\ NothingAhead /\ OnlyForwarded /\ [Next]_vars => OnlyForwarded'
<1> SUFFICES ASSUME TypeInv, NothingAhead, OnlyForwarded, [Next]_vars, NEW h \in performed'
             PROVE  hpc'[h] \notin {"free", "run"} /\ Forwarded(h)'
  BY DEF OnlyForwarded
<1>a. /\ performed \subseteq Handlers /\ hreq \in [Handlers -> Requests \cup {None}]
      /\ hpc \in [Handlers -> {"free", "run", "called", "reply", "done", "failed", "dead"}]
  BY DEF TypeInv, ExitInv, ExitTypes
<1>1. ASSUME h \in performed, UNCHANGED verdict,
             hpc[h] \notin {"free", "run"} => hpc'[h] \notin {"free", "run"} /\ hreq'[h] = hreq[h]
      PROVE  hpc'[h] \notin {"free", "run"} /\ Forwarded(h)'
  BY <1>1 DEF OnlyForwarded, Forwarded
<1>2. CASE UNCHANGED <<performed, hpc, hreq, verdict>>
  BY <1>1, <1>2
<1>3. ASSUME NEW r \in Requests, Admit(r) PROVE hpc'[h] \notin {"free", "run"} /\ Forwarded(h)'
  <2>1. h \in performed /\ UNCHANGED <<hpc, hreq>>
    BY <1>3 DEF Admit, exitVars
  <2>2. hreq[h] # r
    BY <1>3, <1>a, <2>1
    DEF Admit, NothingAhead, Unsent, HandlersOf, TypeInv, ProxyInv, RequestPhase
  <2>3. verdict'[hreq[h]] = verdict[hreq[h]]
    BY <1>3, <2>2 DEF Admit, TypeInv, ProxyInv, ProxyTypes
  <2> QED
    BY <2>1, <2>3 DEF OnlyForwarded, Forwarded
<1>4. ASSUME NEW g \in Handlers, HandlerStep(g)
       PROVE  hpc'[h] \notin {"free", "run"} /\ Forwarded(h)'
  <2>1. CASE Perform(g)
    BY <1>a, <2>1 DEF Perform, Forwarded, OnlyForwarded, proxyVars
  <2>2. CASE \E code : Answers(g, code)
    BY <1>1, <1>a, <2>2 DEF Answers, proxyVars
  <2>3. CASE SendResponseChunk(g) \/ ResponseSendFails(g)
    BY <1>1, <1>a, <2>3 DEF SendResponseChunk, ResponseSendFails, proxyVars
  <2> QED
    BY <1>4, <2>1, <2>2, <2>3
    DEF HandlerStep, RefuseAtExit, NotPerformed, UpstreamFails, UpstreamAnswers
<1>5. CASE ExitReceive
  <2>1. UNCHANGED <<verdict, performed>>
    BY <1>5 DEF ExitReceive, proxyVars
  <2>2. h \in Handlers
    BY <1>a, <2>1
  <2>3. \/ UNCHANGED <<hpc, hreq>>
        \/ \E g \in Handlers : /\ hpc[g] = "free"
                              /\ hpc' = [hpc EXCEPT ![g] = "run"]
                              /\ \E r : hreq' = [hreq EXCEPT ![g] = r]
    BY <1>5 DEF ExitReceive
  <2>4. hpc[h] \notin {"free", "run"} => hpc'[h] \notin {"free", "run"} /\ hreq'[h] = hreq[h]
    BY <1>a, <2>2, <2>3
  <2> QED
    BY <1>1, <2>1, <2>4
<1>6. CASE Crash
  BY <1>1, <1>6, <1>a DEF Crash, proxyVars
<1> QED
  BY <1>2, <1>3, <1>4, <1>5, <1>6
  DEF Next, RequestStep, RefuseLocally, ServeFromCache, TooMany, SendRequestChunk,
      RequestSendFails, TimeOut,
      Take, GiveUp, Dispatch, SessionDies, Stop, ProxyExits, Restart, LoseToExit, LoseToProxy,
      EvictRequest, EvictResponse, AtRest, vars, proxyVars, exitVars

LEMMA RefusalInit == Init => RefusalInv
  BY NoneAssumption
  DEF Init, ProxyInit, ExitInit, RefusalInv, NothingAhead, RefusedUnsent, OnlyForwarded, Unsent,
      InToExit, HandlersOf, Answer, LocalRefusals, LocalAnswers

LEMMA RefusalStep == TypeInv /\ RefusalInv /\ [Next]_vars => RefusalInv'
  BY NothingAheadStep, RefusedUnsentStep, OnlyForwardedStep DEF RefusalInv

\* A request refused by the proxy, or by the exit's checks, takes no effect upstream.
THEOREM RefusalsHoldNothing == Spec => []RefusedHasNoEffect
<1>1. RefusalInv => RefusedHasNoEffect
  BY DEF RefusalInv, NothingAhead, RefusedUnsent, OnlyForwarded, Unsent, Forwarded,
         RefusedHasNoEffect
<1> QED
  BY <1>1, RefusalInit, RefusalStep, TypeInit, TypeStep, PTL DEF Spec

-----------------------------------------------------------------------------
(* The pending table. *)

Unanswered == \A r \in Requests : pc[r] # "done" => reply[r].kind = "none"

LEMMA UnansweredStep == TypeInv /\ Unanswered /\ [Next]_vars => Unanswered'
<1> SUFFICES ASSUME TypeInv, Unanswered, [Next]_vars, NEW r \in Requests, pc'[r] # "done"
             PROVE  reply'[r].kind = "none"
  BY DEF Unanswered
<1>a. pc \in [Requests -> {"idle", "sending", "waiting", "done"}] /\ reply \in [Requests -> Replies]
  BY DEF TypeInv, ProxyInv, ProxyTypes
<1>1. ASSUME NEW q \in Requests, NEW answer, Ends(q, answer) PROVE reply'[r].kind = "none"
  BY <1>1, <1>a DEF Ends, Unanswered
<1>2. ASSUME UNCHANGED reply, pc[r] = "done" => pc'[r] = "done" PROVE reply'[r].kind = "none"
  BY <1>2 DEF Unanswered
<1>3. ASSUME NEW q \in Requests, RequestStep(q) PROVE reply'[r].kind = "none"
  <2>1. CASE RefuseLocally(q) \/ ServeFromCache(q) \/ TooMany(q)
    BY <1>1, <2>1 DEF RefuseLocally, ServeFromCache, TooMany
  <2>2. CASE Admit(q) \/ SendRequestChunk(q)
    BY <1>2, <1>a, <2>2 DEF Admit, SendRequestChunk
  <2>3. CASE RequestSendFails(q) \/ TimeOut(q)
    BY <1>1, <2>3 DEF RequestSendFails, TimeOut, GiveUp
  <2>4. CASE Take(q)
    BY <1>1, <2>4 DEF Take
  <2> QED
    BY <1>3, <2>1, <2>2, <2>3, <2>4 DEF RequestStep
<1>4. CASE ProxyExits
  BY <1>4 DEF ProxyExits, Unanswered
<1>5. CASE UNCHANGED <<pc, reply>>
  BY <1>2, <1>5
<1> QED
  BY <1>3, <1>4, <1>5
  DEF Next, Dispatch, SessionDies, Stop, ExitReceive, HandlerStep, RefuseAtExit, Perform,
      NotPerformed, UpstreamFails, UpstreamAnswers, Answers, SendResponseChunk,
      ResponseSendFails, Crash, Restart, LoseToExit, LoseToProxy, EvictRequest, EvictResponse,
      AtRest, vars, proxyVars

\* The steps that change neither the table nor where a request is.
LEMMA TableSame ==
    ASSUME [Next]_vars, ~ProxyExits, ~\E r \in Requests : RequestStep(r)
    PROVE  UNCHANGED <<pc, pending>>
  BY DEF Next, Dispatch, SessionDies, Stop, ExitReceive, HandlerStep, RefuseAtExit, Perform,
         NotPerformed, UpstreamFails, UpstreamAnswers, Answers, SendResponseChunk,
         ResponseSendFails, Crash, Restart, LoseToExit, LoseToProxy, EvictRequest,
         EvictResponse, AtRest, vars, proxyVars

\* The table has an entry for every request that is being relayed, and no other: each way
\* SendRequest returns removes the entry it made.
TableExact == pending = Running

LEMMA TableInit == Init => TableExact
  BY DEF Init, ProxyInit, ExitInit, TableExact, Running, InFlight

LEMMA TableStep == TypeInv /\ TableExact /\ [Next]_vars => TableExact'
<1> SUFFICES ASSUME TypeInv, TableExact, [Next]_vars PROVE TableExact'
  OBVIOUS
<1>a. pc \in [Requests -> {"idle", "sending", "waiting", "done"}]
  BY DEF TypeInv, ProxyInv, ProxyTypes
<1>1. ASSUME NEW r \in Requests, RequestStep(r) PROVE TableExact'
  <2>1. ASSUME NEW answer, Ends(r, answer) PROVE Running' = Running \ {r}
    BY <1>a, <2>1 DEF Ends, Running, InFlight
  <2>2. CASE RefuseLocally(r) \/ ServeFromCache(r) \/ TooMany(r)
    <3>1. r \notin Running /\ UNCHANGED pending
      BY <2>2 DEF RefuseLocally, ServeFromCache, TooMany, Running, InFlight
    <3>2. Running' = Running \ {r}
      BY <2>1, <2>2 DEF RefuseLocally, ServeFromCache, TooMany
    <3> QED
      BY <3>1, <3>2 DEF TableExact
  <2>3. CASE RequestSendFails(r) \/ TimeOut(r) \/ Take(r)
    <3>1. pending' = pending \ {r}
      BY <2>3 DEF RequestSendFails, TimeOut, Take, GiveUp, RemoveEntry
    <3>2. Running' = Running \ {r}
      BY <2>1, <2>3 DEF RequestSendFails, TimeOut, Take, GiveUp
    <3> QED
      BY <3>1, <3>2 DEF TableExact
  <2>4. CASE Admit(r)
    <3>1. pending' = pending \cup {r} /\ Running' = Running \cup {r}
      BY <1>a, <2>4 DEF Admit, Running, InFlight
    <3> QED
      BY <3>1 DEF TableExact
  <2>5. CASE SendRequestChunk(r)
    <3>1. UNCHANGED pending /\ Running' = Running
      BY <1>a, <2>5 DEF SendRequestChunk, Running, InFlight
    <3> QED
      BY <3>1 DEF TableExact
  <2> QED
    BY <1>1, <2>2, <2>3, <2>4, <2>5 DEF RequestStep
<1>2. CASE ProxyExits
  BY <1>2 DEF ProxyExits, TableExact, Running, InFlight
<1>3. CASE UNCHANGED <<pc, pending>>
  BY <1>3 DEF TableExact, Running, InFlight
<1> QED
  BY <1>1, <1>2, <1>3, TableSame

\* No request that has ended finds an answer in its channel: a late answer is dropped, and
\* every way a request ends empties it.
THEOREM LateAnswersDropped == Spec => []NoLateArrival
<1>1. Init => NoLateArrival
  BY DEF Init, ProxyInit, ExitInit, NoLateArrival
<1>2. ASSUME TypeInv, TableExact, NoLateArrival, [Next]_vars, NEW r \in Requests,
             inbox'[r] # None
      PROVE  InFlight(r)'
  <2>a. /\ pc \in [Requests -> {"idle", "sending", "waiting", "done"}]
        /\ inbox \in [Requests -> Arrivals \cup {None}]
    BY <1>2 DEF TypeInv, ProxyInv, ProxyTypes
  <2>1. ASSUME pc'[r] = pc[r], inbox'[r] = inbox[r] \/ InFlight(r) PROVE InFlight(r)'
    BY <1>2, <2>1 DEF NoLateArrival, InFlight
  <2>2. ASSUME NEW q \in Requests, NEW answer, Ends(q, answer),
               inbox' = [inbox EXCEPT ![q] = None] \/ (UNCHANGED inbox /\ pc[q] = "idle")
        PROVE  InFlight(r)'
    <3>1. q # r
      BY <1>2, <2>2, <2>a DEF NoLateArrival, InFlight
    <3> QED
      BY <2>1, <2>2, <2>a, <3>1 DEF Ends
  <2>3. ASSUME NEW q \in Requests, RequestStep(q) PROVE InFlight(r)'
    <3>1. CASE RefuseLocally(q) \/ ServeFromCache(q) \/ TooMany(q)
      BY <2>2, <3>1 DEF RefuseLocally, ServeFromCache, TooMany
    <3>2. CASE Admit(q) \/ SendRequestChunk(q)
      BY <1>2, <2>a, <3>2 DEF Admit, SendRequestChunk, NoLateArrival, InFlight
    <3>3. CASE RequestSendFails(q) \/ TimeOut(q)
      BY <2>2, <3>3 DEF RequestSendFails, TimeOut, GiveUp, RemoveEntry
    <3>4. CASE Take(q)
      BY <2>2, <3>4 DEF Take, RemoveEntry
    <3> QED
      BY <2>3, <3>1, <3>2, <3>3, <3>4 DEF RequestStep
  <2>4. CASE Dispatch
    <3>1. UNCHANGED pc /\ \E m \in toProxy : DispatchError(m) \/ DispatchData(m)
      BY <2>4 DEF Dispatch
    <3>2. inbox'[r] = inbox[r] \/ r \in pending
      BY <2>a, <3>1 DEF DispatchError, DispatchData, HandTo
    <3>3. r \in pending => InFlight(r)
      BY <1>2 DEF TableExact, Running
    <3> QED
      BY <2>1, <3>1, <3>2, <3>3
  <2>5. ~ProxyExits
    BY <1>2 DEF ProxyExits
  <2>6. CASE UNCHANGED <<pc, inbox>>
    BY <2>1, <2>6
  <2> QED
    BY <1>2, <2>3, <2>4, <2>5, <2>6
    DEF Next, SessionDies, Stop, ExitReceive, HandlerStep, RefuseAtExit, Perform, NotPerformed,
        UpstreamFails, UpstreamAnswers, Answers, SendResponseChunk, ResponseSendFails, Crash,
        Restart, LoseToExit, LoseToProxy, EvictRequest, EvictResponse, AtRest, vars, proxyVars
<1>3. TypeInv /\ TableExact /\ NoLateArrival /\ [Next]_vars => NoLateArrival'
  BY <1>2 DEF NoLateArrival
<1> QED
  BY <1>1, <1>3, TypeInit, TypeStep, TableInit, TableStep, PTL DEF Spec

\* A request is admitted, or told 429, by the number of requests that are really being
\* relayed, whatever became of the earlier ones and whatever the limit.
THEOREM LimitAlwaysExact == Spec => LimitExact
<1> DEFINE Decides(r) ==
      pc[r] = "idle" => /\ pc'[r] = "sending" => Cardinality(Running) < MaxPending
                        /\ reply'[r].kind = "too_many" => Cardinality(Running) >= MaxPending
<1> DEFINE Finite == IsFiniteSet(pending) /\ Cardinality(pending) \in Nat
<1>1. Init => Finite
  BY FS_EmptySet, FS_CardinalityType DEF Init, ProxyInit, ExitInit
<1>2. ASSUME TypeInv, Finite, [Next]_vars PROVE Finite'
  <2>1. CASE pending' \subseteq pending
    BY <1>2, <2>1, FS_Subset, FS_CardinalityType
  <2>2. ASSUME NEW r \in Requests, RequestStep(r) PROVE IsFiniteSet(pending')
    <3>1. pending' = pending \cup {r} \/ pending' \subseteq pending
      BY <2>2 DEF RequestStep, RefuseLocally, ServeFromCache, Admit, TooMany, SendRequestChunk,
                  RequestSendFails, TimeOut, Take, GiveUp, RemoveEntry
    <3> QED
      BY <1>2, <2>1, <3>1, FS_AddElement
  <2>3. CASE ProxyExits
    BY <2>1, <2>3 DEF ProxyExits
  <2> QED
    BY <1>2, <2>1, <2>2, <2>3, TableSame, FS_CardinalityType
<1>3. ASSUME TypeInv, TableExact, Unanswered, Finite, [Next]_vars, NEW r \in Requests
      PROVE  Decides(r)
  <2> SUFFICES ASSUME pc[r] = "idle"
               PROVE  /\ pc'[r] = "sending" => Cardinality(Running) < MaxPending
                      /\ reply'[r].kind = "too_many" => Cardinality(Running) >= MaxPending
    OBVIOUS
  <2>a. /\ pc \in [Requests -> {"idle", "sending", "waiting", "done"}]
        /\ reply \in [Requests -> Replies] /\ reply[r].kind = "none"
    BY <1>3 DEF TypeInv, ProxyInv, ProxyTypes, Unanswered
  <2>b. HasRoom <=> Cardinality(Running) < MaxPending
    BY <1>3 DEF HasRoom, TableExact
  <2>c. Cardinality(Running) \in Nat /\ MaxPending \in Nat
    BY <1>3, BoundsAssumption DEF TableExact
  <2>1. CASE pc'[r] = pc[r] /\ reply'[r] = reply[r]
    BY <2>a, <2>1
  <2>2. ASSUME NEW q \in Requests, RequestStep(q), q # r
        PROVE  pc'[r] = pc[r] /\ reply'[r] = reply[r]
    BY <2>2, <2>a
    DEF RequestStep, RefuseLocally, ServeFromCache, Admit, TooMany, SendRequestChunk,
        RequestSendFails, TimeOut, Take, GiveUp, Ends
  <2>3. CASE RequestStep(r)
    <3>1. CASE Admit(r)
      BY <3>1, <2>a, <2>b DEF Admit
    <3>2. CASE TooMany(r)
      BY <3>2, <2>a, <2>b, <2>c DEF TooMany, Ends
    <3>3. CASE RefuseLocally(r) \/ ServeFromCache(r)
      BY <3>3, <2>a DEF RefuseLocally, ServeFromCache, Ends, Answer
    <3> QED
      BY <2>3, <3>1, <3>2, <3>3
      DEF RequestStep, SendRequestChunk, RequestSendFails, TimeOut, Take, InFlight
  <2>4. CASE ProxyExits
    BY <2>1, <2>4 DEF ProxyExits, InFlight
  <2>5. CASE UNCHANGED <<pc, reply>>
    BY <2>1, <2>5
  <2> QED
    BY <1>3, <2>1, <2>2, <2>3, <2>4, <2>5
    DEF Next, Dispatch, SessionDies, Stop, ExitReceive, HandlerStep, RefuseAtExit, Perform,
        NotPerformed, UpstreamFails, UpstreamAnswers, Answers, SendResponseChunk,
        ResponseSendFails, Crash, Restart, LoseToExit, LoseToProxy, EvictRequest,
        EvictResponse, AtRest, vars, proxyVars
<1>4. TypeInv /\ Finite /\ [Next]_vars => Finite'
  BY <1>2
<1>5. TypeInv /\ TableExact /\ Unanswered /\ Finite /\ [Next]_vars => \A r \in Requests : Decides(r)
  BY <1>3
<1>6. Init => Unanswered
  BY DEF Init, ProxyInit, ExitInit, Unanswered, Answer
<1> QED
  BY <1>1, <1>4, <1>5, <1>6, TypeInit, TypeStep, TableInit, TableStep, UnansweredStep, PTL
  DEF Spec, LimitExact

-----------------------------------------------------------------------------
(* The exchange implements the service. *)

ServiceInv == OriginInv /\ RefusalInv /\ Unanswered

\* An effect stays with its request.
LEMMA EffectsStay ==
    ASSUME TypeInv, OnlyForwarded, [Next]_vars, UNCHANGED performed, NEW r \in Requests
    PROVE  EffectsOf(r)' = EffectsOf(r)
<1>1. ASSUME NEW h \in performed PROVE hreq'[h] = hreq[h]
  <2>1. h \in Handlers /\ hpc[h] # "free" /\ hreq \in [Handlers -> Requests \cup {None}]
    BY <1>1 DEF OnlyForwarded, TypeInv, ExitInv, ExitTypes
  <2>2. CASE ExitReceive
    BY <2>1, <2>2 DEF ExitReceive
  <2> QED
    BY <2>2
    DEF Next, RequestStep, RefuseLocally, ServeFromCache, Admit, TooMany, SendRequestChunk,
        RequestSendFails,
        TimeOut, Take, GiveUp, Dispatch, SessionDies, Stop, ProxyExits, HandlerStep,
        RefuseAtExit, Perform, NotPerformed, UpstreamFails, UpstreamAnswers, Answers,
        SendResponseChunk, ResponseSendFails, Crash, Restart, LoseToExit, LoseToProxy,
        EvictRequest, EvictResponse, AtRest, vars, exitVars
<1> QED
  BY <1>1 DEF EffectsOf

LEMMA ServiceStutter ==
    ASSUME UNCHANGED <<pc, reply>>, \A r \in Requests : EffectsOf(r)' = EffectsOf(r)
    PROVE  UNCHANGED Service!vars
  BY DEF Service!vars, StatusOf, AnswerOf, InFlight

LEMMA ServiceRequestStep ==
    ASSUME TypeInv, ServiceInv, [Next]_vars, NEW r \in Requests, RequestStep(r)
    PROVE  [Service!Next]_(Service!vars)
<1> USE DEF ServiceInv
<1>a. /\ pc \in [Requests -> {"idle", "sending", "waiting", "done"}]
      /\ reply \in [Requests -> Replies]
  BY DEF TypeInv, ProxyInv, ProxyTypes
<1>b. UNCHANGED exitVars
  BY DEF RequestStep, RefuseLocally, ServeFromCache, Admit, TooMany, SendRequestChunk,
         RequestSendFails, TimeOut,
         Take, GiveUp
<1>c. \A q \in Requests : EffectsOf(q)' = EffectsOf(q)
  BY <1>b DEF EffectsOf, exitVars
<1>d. ASSUME NEW answer, Ends(r, answer), NEW q \in Requests, q # r
      PROVE  StatusOf(q)' = StatusOf(q) /\ AnswerOf(q)' = AnswerOf(q)
  BY <1>a, <1>d DEF Ends, StatusOf, AnswerOf, InFlight
<1>e. ASSUME NEW answer, Ends(r, answer) PROVE pc'[r] = "done" /\ reply'[r] = answer
  BY <1>a, <1>e DEF Ends
<1>f. pc[r] # "done" => AnswerOf(r) = {}
  BY DEF Unanswered, AnswerOf
<1>7. CASE ServeFromCache(r)
  <2>1. pc[r] = "idle" /\ Ends(r, Answer("hit", {}))
    BY <1>7 DEF ServeFromCache
  <2>2. StatusOf(r)' = StatusOf(r) /\ AnswerOf(r)' = AnswerOf(r)
    BY <1>e, <1>f, <2>1 DEF StatusOf, AnswerOf, Answer, InFlight, LocalRefusals
  <2>3. \A q \in Requests : StatusOf(q)' = StatusOf(q) /\ AnswerOf(q)' = AnswerOf(q)
    BY <1>d, <2>1, <2>2
  <2> QED
    BY <1>c, <2>3 DEF Service!vars
<1>1. CASE RefuseLocally(r) \/ TooMany(r)
  <2>1. pc[r] = "idle" /\ \E kind \in LocalRefusals : Ends(r, Answer(kind, {}))
    BY <1>1 DEF RefuseLocally, ServeFromCache, TooMany, LocalRefusals
  <2>2. StatusOf(r) = "new" /\ StatusOf(r)' = "refused" /\ AnswerOf(r)' = {}
    BY <1>e, <2>1 DEF StatusOf, AnswerOf, InFlight, Answer, LocalRefusals
  <2>3. Service!Refuse(r)
    BY <1>c, <1>d, <1>f, <2>1, <2>2 DEF Service!Refuse
  <2> QED
    BY <2>3 DEF Service!Next
<1>2. CASE Admit(r)
  <2>1. StatusOf(r) = "new" /\ StatusOf(r)' = "open"
    BY <1>2, <1>a DEF Admit, StatusOf, InFlight
  <2>2. \A q \in Requests : /\ q # r => StatusOf(q)' = StatusOf(q)
                            /\ AnswerOf(q)' = AnswerOf(q)
    BY <1>2, <1>a DEF Admit, StatusOf, AnswerOf, InFlight
  <2>3. Service!Open(r)
    BY <1>c, <2>1, <2>2 DEF Service!Open
  <2> QED
    BY <2>3 DEF Service!Next
<1>3. CASE SendRequestChunk(r)
  <2>1. \A q \in Requests : StatusOf(q)' = StatusOf(q) /\ AnswerOf(q)' = AnswerOf(q)
    BY <1>3, <1>a DEF SendRequestChunk, StatusOf, AnswerOf, InFlight
  <2> QED
    BY <1>c, <2>1 DEF Service!vars
<1>4. ASSUME InFlight(r), NEW kind \in {"bad_gateway", "error", "invalid"}, NEW execs,
             Ends(r, Answer(kind, execs))
      PROVE  Service!Fail({r})
  <2>1. StatusOf(r) = "open" /\ StatusOf(r)' = "failed" /\ AnswerOf(r)' = {}
    BY <1>4, <1>e DEF StatusOf, AnswerOf, InFlight, Answer, LocalRefusals
  <2>2. AnswerOf(r) = {}
    BY <1>4, <1>f DEF InFlight
  <2> QED
    BY <1>4, <1>c, <1>d, <2>1, <2>2 DEF Service!Fail
<1>5. CASE RequestSendFails(r) \/ TimeOut(r)
  <2>1. Service!Fail({r})
    BY <1>4, <1>5 DEF RequestSendFails, TimeOut, GiveUp, InFlight
  <2> QED
    BY <2>1 DEF Service!Next
<1>6. CASE Take(r)
  <2>1. PICK got : got = inbox[r]
    OBVIOUS
  <2>2. InFlight(r) /\ got.execs # {} /\ ExecutionsOf(r, got.kind, got.execs)
    BY <1>6, <2>1 DEF Take, InFlight, OriginInv, ProxyOrigin, InboxOrigin
  <2>3. CASE \E kind \in {"error", "invalid"} : Ends(r, Answer(kind, got.execs))
    <3>1. Service!Fail({r})
      BY <1>4, <2>2, <2>3
    <3> QED
      BY <3>1 DEF Service!Next
  <2>4. CASE got.kind = "data" /\ Ends(r, Answer("ok", got.execs))
    <3>1. StatusOf(r) = "open" /\ StatusOf(r)' = "answered" /\ AnswerOf(r)' = got.execs
      BY <1>e, <2>2, <2>4 DEF StatusOf, AnswerOf, InFlight, Answer, LocalRefusals
    <3>2. got.execs \subseteq EffectsOf(r)
      BY <2>2, <2>4 DEF ExecutionsOf, Says, EffectsOf, OriginInv, HandlerOrigin
    <3>3. Service!Succeed(r, got.execs)
      BY <1>c, <1>d, <2>2, <2>4, <3>1, <3>2 DEF Service!Succeed
    <3>4. got.execs \in SUBSET Handlers
      BY <2>2 DEF ExecutionsOf
    <3> QED
      BY <3>3, <3>4 DEF Service!Next
  <2> QED
    BY <1>6, <2>1, <2>3, <2>4 DEF Take
<1> QED
  BY <1>1, <1>2, <1>3, <1>5, <1>6, <1>7 DEF RequestStep

LEMMA ServiceStep ==
    TypeInv /\ ServiceInv /\ [Next]_vars => [Service!Next]_(Service!vars)
<1> SUFFICES ASSUME TypeInv, ServiceInv, [Next]_vars PROVE [Service!Next]_(Service!vars)
  OBVIOUS
<1>1. CASE UNCHANGED <<pc, reply, performed>>
  BY <1>1, EffectsStay, ServiceStutter DEF ServiceInv, RefusalInv
<1>2. CASE \E r \in Requests : RequestStep(r)
  BY <1>2, ServiceRequestStep
<1>3. ASSUME NEW h \in Handlers, Perform(h) PROVE [Service!Next]_(Service!vars)
  <2> DEFINE r == hreq[h]
  <2>1. r \in Requests /\ h \in HandlersOf(r)
    BY <1>3 DEF Perform, HandlersOf, TypeInv, ExitInv, HandlerPhase
  <2>2. h \notin performed
    BY <1>3 DEF Perform, ServiceInv, RefusalInv, OnlyForwarded
  <2>3. UNCHANGED <<pc, reply, hreq>> /\ performed' = performed \cup {h}
    BY <1>3 DEF Perform, proxyVars
  <2>4. sent[r] # 0
    BY <2>1 DEF ServiceInv, RefusalInv, NothingAhead, Unsent
  <2>5. StatusOf(r) \notin {"new", "refused"}
    BY <2>1, <2>4
    DEF StatusOf, InFlight, LocalRefusals, LocalAnswers, ServiceInv, RefusalInv, RefusedUnsent,
        TypeInv, ProxyInv, ProxyTypes, RequestPhase
  <2>6. \A q \in Requests : EffectsOf(q)' = IF q = r THEN EffectsOf(q) \cup {h} ELSE EffectsOf(q)
    BY <2>3 DEF EffectsOf
  <2>7. \A q \in Requests : StatusOf(q)' = StatusOf(q) /\ AnswerOf(q)' = AnswerOf(q)
    BY <2>3 DEF StatusOf, AnswerOf, InFlight
  <2>8. \A q \in Requests : h \notin EffectsOf(q)
    BY <2>2 DEF EffectsOf
  <2>9. Service!Perform(r, h)
    BY <2>1, <2>5, <2>6, <2>7, <2>8 DEF Service!Perform
  <2> QED
    BY <2>1, <2>9 DEF Service!Next
<1>4. CASE ProxyExits
  <2> DEFINE cut == {r \in Requests : InFlight(r)}
  <2>1. UNCHANGED performed
    BY <1>4 DEF ProxyExits, exitVars
  <2>2. \A r \in Requests : r \in cut => /\ StatusOf(r) = "open" /\ StatusOf(r)' = "failed"
                                         /\ AnswerOf(r) = {} /\ AnswerOf(r)' = {}
    BY <1>4 DEF ProxyExits, StatusOf, AnswerOf, InFlight, Answer, LocalRefusals, ServiceInv,
                Unanswered
  <2>3. \A r \in Requests : r \notin cut => StatusOf(r)' = StatusOf(r) /\ AnswerOf(r)' = AnswerOf(r)
    BY <1>4 DEF ProxyExits, StatusOf, AnswerOf, InFlight
  <2>4. \A r \in Requests : EffectsOf(r)' = EffectsOf(r)
    BY <2>1, EffectsStay DEF ServiceInv, RefusalInv
  <2>5. Service!Fail(cut)
    BY <2>2, <2>3, <2>4 DEF Service!Fail
  <2> QED
    BY <2>5 DEF Service!Next
<1> QED
  BY <1>1, <1>2, <1>3, <1>4
  DEF Next, Dispatch, SessionDies, Stop, ExitReceive, HandlerStep, RefuseAtExit, NotPerformed,
      UpstreamFails, UpstreamAnswers, Answers, SendResponseChunk, ResponseSendFails, Crash,
      Restart, LoseToExit, LoseToProxy, EvictRequest, EvictResponse, AtRest, vars, proxyVars,
      exitVars

\* What a browser and the upstream servers see of the exchange is a behaviour of the service,
\* whatever the messenger does to the frames.
THEOREM ExchangeImplementsService == Spec => ImplementsService
<1>1. Init => Service!Init
  <2> SUFFICES ASSUME Init PROVE Service!Init
    OBVIOUS
  <2>1. \A r \in Requests : StatusOf(r) = "new"
    BY DEF Init, ProxyInit, ExitInit, StatusOf, InFlight
  <2>2. \A r \in Requests : EffectsOf(r) = {} /\ AnswerOf(r) = {}
    BY DEF Init, ProxyInit, ExitInit, EffectsOf, AnswerOf, Answer
  <2> QED
    BY <2>1, <2>2 DEF Service!Init
<1>2. Init => ServiceInv
  <2>1. Init => RefusalInv /\ Unanswered
    BY RefusalInit DEF Init, ProxyInit, ExitInit, Unanswered, Answer
  <2> QED
    BY <2>1, OriginInit DEF ServiceInv
<1>3. TypeInv /\ ServiceInv /\ [Next]_vars => ServiceInv'
  BY OriginStep, RefusalStep, UnansweredStep DEF ServiceInv
<1> QED
  BY <1>1, <1>2, <1>3, TypeInit, TypeStep, ServiceStep, PTL
  DEF Spec, ImplementsService, Service!Spec
=============================================================================
