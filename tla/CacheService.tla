---------------------------- MODULE CacheService ----------------------------
(***************************************************************************)
(* What a response cache promises: a lookup gives the last response stored *)
(* for the key if it is still held and not yet expired, and nothing else;  *)
(* storing one response may cost any others their place, and the cache may *)
(* decline to store; it never holds more than its limits.                  *)
(***************************************************************************)
EXTENDS Naturals, FiniteSetsExt

CONSTANTS Keys, Responses, None, MaxEntries, MaxBytes

VARIABLES
    held,   \* held[k]: the response held for k, with its size and expiry, or None
    now,    \* the clock
    got     \* the answer to the last call

vars == <<held, now, got>>

Holding(h) == {k \in Keys : h[k] # None}
WithinLimits(h) == /\ Cardinality(Holding(h)) <= MaxEntries
                   /\ MapThenSumSet(LAMBDA k : h[k].size, Holding(h)) <= MaxBytes

Empty == [k \in Keys |-> None]

Init == held = Empty /\ now = 0 /\ got = None

(* The operations, as their effect on held and now. *)

Hit(k) == /\ held[k] # None /\ now <= held[k].expires
          /\ UNCHANGED <<held, now>>

\* An entry found expired is dropped.
Miss(k) == /\ held[k] # None => now > held[k].expires
           /\ held' = [held EXCEPT ![k] = None]
           /\ UNCHANGED now

Store(k, e) == /\ \E evicted \in SUBSET (Holding(held) \ {k}) :
                    held' = [j \in Keys |-> IF j = k THEN e
                                            ELSE IF j \in evicted THEN None ELSE held[j]]
               /\ WithinLimits(held')
               /\ UNCHANGED now

Decline == UNCHANGED <<held, now>>

Tick == now' = now + 1 /\ UNCHANGED held

Lookup(k) == \/ Hit(k) /\ got' = held[k]
             \/ Miss(k) /\ got' = None

Next == \/ \E k \in Keys : Lookup(k)
        \/ \E k \in Keys, e \in Responses : Store(k, e) /\ got' = None
        \/ Decline /\ got' = None
        \/ Tick /\ UNCHANGED got

Spec == Init /\ [][Next]_vars
=============================================================================
