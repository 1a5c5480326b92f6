--------------------------- MODULE MCMaxTransport ---------------------------
(* Instances of MaxTransport for TLC. *)
EXTENDS MaxTransport

AllAuthors   == {"peer", "self", "anon"}
WithIDs      == {"peer", "self"}
EveryFault   == {"replay", "429", "transient", "auth", "stop"}
AnyReason    == EveryFault \cup {"deadline"}
Stopping     == {"429", "transient", "auth", "stop"}
=============================================================================
