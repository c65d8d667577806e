------------------------------- MODULE MCFlow -------------------------------
(* A small instance of Flow for TLC. *)
EXTENDS Flow

CONSTANTS w1, w2, r1, a

MCWorkers == {w1, w2}
MCRuns == {r1}
MCOutputs == {a}
MCPlan == <<"node", "wait">>
=============================================================================
