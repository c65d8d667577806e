----------------------------- MODULE MCLogging -----------------------------
(* Two threads that trace, bind and log while main sets logging up twice and shuts it down. *)
EXTENDS Logging, FiniteSets

OneBlock == FoldFunctionOnSet(LAMBDA f, n : Len(f) + n, 0, frames, Threads) <= 1

(* Blocks nest as deep as MaxDepth where nothing is logged; where something is, one thread at a *)
(* time is in one block.  What a record is stamped with does not depend on how deep the block   *)
(* is, and the nesting does not depend on the handlers.                                         *)
NestOrLog ==
    /\ Cardinality(bound) <= 1
    /\ \/ setup = "idle" /\ setups = 0 /\ \A t \in Threads : logged[t] = 0
       \/ minted <= 1 /\ OneBlock
=============================================================================
