----------------------------- MODULE MCService -----------------------------
(* One request of every kind to an app with any of its middlewares switched on, while two tasks *)
(* install and close the handle its probes use.  The order is create_app's, outermost first.    *)
EXTENDS Service

CreatedOrder == <<"security", "cors", "trace", "envelope">>
(* An app whose author added TraceIDMiddleware first, as docs/log.md says: it ends up innermost. *)
AssembledOrder == <<"security", "cors", "envelope", "trace">>

(* Which middlewares are on matters to the messages only, and the handle to the probes only. *)
AllOnOrNoHandle == made > 0 => Cardinality(enabled) = 4 /\ unexpected
=============================================================================
