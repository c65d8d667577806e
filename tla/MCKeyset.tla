------------------------------ MODULE MCKeyset ------------------------------
(* Small instances of Keyset for TLC. *)
EXTENDS Keyset

MCIds == 1..3
MCValues == 0..1
Types(t) == [i \in 1..N |-> IF i = N THEN "parsed" ELSE t]
(* Upwards one row at a time, downwards by twos, and a column of times. *)
MCQueries ==
    { [ascending |-> TRUE, limit |-> 1, types |-> Types("json")],
      [ascending |-> FALSE, limit |-> 2, types |-> Types("json")],
      [ascending |-> FALSE, limit |-> 1, types |-> Types("other")] }
=============================================================================
