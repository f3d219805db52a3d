--------------------------- MODULE MCCoreOptions ---------------------------
(* Small instances of CoreOptions for TLC. *)
EXTENDS CoreOptions
CONSTANTS k1, k2, a, b, none

TwoKeys == {k1, k2}
TwoValues == {a, b}
=============================================================================
