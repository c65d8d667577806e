----------------------------- MODULE MCGridRows -----------------------------
(* Small instances of GridRows for TLC. *)
EXTENDS GridRows, TLC

CONSTANTS x1, x2, x3, w1, w2, a, b

MCRows == {x1, x2, x3}
MCWriters == {w1, w2}
MCRelations == {a, b}

Relation(policy, shape, column, required) ==
    [on_delete |-> policy, shape |-> shape, column |-> column, required |-> required]

(* Every policy and shape, refs optional and required, of one value and of *)
(* several, and relations without a column.                                *)
Schema(forA, forB) == [r \in MCRelations |-> IF r = a THEN forA ELSE forB]
MCSchemas ==
    { Schema(Relation("cascade", "many_to_one", "one", FALSE), Relation("set_null", "one_to_one", "one", FALSE)),
      Schema(Relation("restrict", "one_to_many", "none", FALSE), Relation("set_null", "many_to_one", "one", TRUE)),
      Schema(Relation("cascade", "one_to_one", "none", FALSE), Relation("set_null", "many_to_many", "many", FALSE)) }

Alike == Permutations(MCRows) \cup Permutations(MCWriters)
=============================================================================
