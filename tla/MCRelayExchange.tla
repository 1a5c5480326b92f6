-------------------------- MODULE MCRelayExchange --------------------------
(* Instances of RelayExchange for TLC. *)
EXTENDS RelayExchange, TLC

CONSTANTS r1, r2, r3, h1, h2, h3

ThreeRequests == {r1, r2, r3}
TwoRequests   == {r1, r2}
OneRequest    == {r1}
OneHandler    == {h1}
TwoHandlers   == {h1, h2}
ThreeHandlers == {h1, h2, h3}

\* Requests and handlers are interchangeable: no definition names one of them.
Symmetry == Permutations(Requests) \cup Permutations(Handlers)

OneCode  == {"upstream_timeout"}
TwoCodes == {"upstream_timeout", "policy_denied"}

JustStop   == {"stop"}
EveryFault == AllFaults
=============================================================================
