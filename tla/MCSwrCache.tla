---------------------------- MODULE MCSwrCache ----------------------------
(* Small instances of SwrCache for TLC. *)
EXTENDS SwrCache, TLC

CONSTANTS p1, p2, q1, q2, b1, b2, b3

MCProcs == {p1, p2}
MCRequests == {q1, q2}
MCRefreshes == {b1, b2, b3}
MCProcOf == (q1 :> p1) @@ (q2 :> p2) @@ (b1 :> p1) @@ (b2 :> p1) @@ (b3 :> p2)
=============================================================================
