---------------------------- MODULE MCUnitOfWork ----------------------------
(* Small instances of UnitOfWork for TLC. *)
EXTENDS UnitOfWork

CONSTANTS o1, o2, c1, r1

MCOrm == {o1, o2}
MCCore == {c1}
MCRaw == {r1}
=============================================================================
