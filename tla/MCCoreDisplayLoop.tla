------------------------- MODULE MCCoreDisplayLoop -------------------------
(* Small instances of CoreDisplayLoop for TLC. *)
EXTENDS CoreDisplayLoop
CONSTANTS s1, s2, e1, e2, none

MCSessions == {s1, s2}
MCEntries == {e1, e2}
=============================================================================
