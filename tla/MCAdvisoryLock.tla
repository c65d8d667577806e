-------------------------- MODULE MCAdvisoryLock --------------------------
(* Small instances of AdvisoryLock for TLC. *)
EXTENDS AdvisoryLock

CONSTANTS t1, t2, t3, c1, c2, k1, k2

MCTasks == {t1, t2, t3}
MCConns == {c1, c2}
MCKeys == {k1, k2}
=============================================================================
