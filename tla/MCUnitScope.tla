---------------------------- MODULE MCUnitScope ----------------------------
(* Small instances of UnitScope for TLC. *)
EXTENDS UnitScope, TLC

CONSTANTS b1, b2, b3, b4, k1, f1, f2, f3

MCBlocks == {b1, b2, b3, b4}
MCKept == {k1}
MCFresh == {f1, f2, f3}
Symmetry == Permutations(MCBlocks) \cup Permutations(MCFresh)
=============================================================================
