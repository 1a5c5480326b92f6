---------------------------- MODULE RelayService ----------------------------
(***************************************************************************)
(* What chunkbridge promises a browser, without chunks, messages or        *)
(* goroutines: a request is refused before anything leaves the proxy, or   *)
(* it is opened and ends exactly once, answered with what executions of    *)
(* that very request returned, or failed. It does not promise that a       *)
(* failed request had no effect upstream, nor that an effect comes before  *)
(* the failure: an execution may come after the browser was told 502.      *)
(***************************************************************************)
CONSTANTS Requests, Executions

VARIABLES
    status,   \* status[r]: new, open, refused, answered or failed
    effects,  \* effects[r]: executions of r that took effect upstream
    answer    \* answer[r]: executions whose responses the browser was given

vars == <<status, effects, answer>>

Init == /\ status = [r \in Requests |-> "new"]
        /\ effects = [r \in Requests |-> {}]
        /\ answer = [r \in Requests |-> {}]

Refuse(r) == /\ status[r] = "new"
             /\ status' = [status EXCEPT ![r] = "refused"]
             /\ UNCHANGED <<effects, answer>>

Open(r) == /\ status[r] = "new"
           /\ status' = [status EXCEPT ![r] = "open"]
           /\ UNCHANGED <<effects, answer>>

\* An execution belongs to one request, which was opened and may have ended since.
Perform(r, e) == /\ status[r] \notin {"new", "refused"}
                 /\ \A q \in Requests : e \notin effects[q]
                 /\ effects' = [effects EXCEPT ![r] = @ \cup {e}]
                 /\ UNCHANGED <<status, answer>>

Succeed(r, es) == /\ status[r] = "open"
                  /\ es # {} /\ es \subseteq effects[r]
                  /\ status' = [status EXCEPT ![r] = "answered"]
                  /\ answer' = [answer EXCEPT ![r] = es]
                  /\ UNCHANGED effects

\* One request fails, or all that are open when the proxy goes away.
Fail(rs) == /\ \A r \in rs : status[r] = "open"
            /\ status' = [r \in Requests |-> IF r \in rs THEN "failed" ELSE status[r]]
            /\ UNCHANGED <<effects, answer>>

Next == \/ \E r \in Requests :
             \/ Refuse(r) \/ Open(r)
             \/ \E e \in Executions : Perform(r, e)
             \/ \E es \in SUBSET Executions : Succeed(r, es)
        \/ \E rs \in SUBSET Requests : Fail(rs)

Spec == Init /\ [][Next]_vars
=============================================================================
