--------------------------- MODULE MCResponseCache ---------------------------
(* An instance of ResponseCache for TLC. *)
EXTENDS ResponseCache, TLC

CONSTANTS k1, k2, k3, k4

FourKeys == {k1, k2, k3, k4}

\* One body larger than MaxEntryBytes, one empty.
SomeSizes == {0, 1, 2, 3}
SomeExpiries == 0..2

\* No definition names a key.
Symmetry == Permutations(Keys)
=============================================================================
