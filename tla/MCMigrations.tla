--------------------------- MODULE MCMigrations ---------------------------
(* Small instances of Migrations for TLC. *)
EXTENDS Migrations

CONSTANTS r1, r2, e1, c1, c2

MCRunners == {r1, r2}
MCEngines == {e1}
MCEngineOf == [r \in MCRunners |-> e1]
MCVersions == 1..3
MCContents == {c1, c2}

f(v, c) == [version |-> v, content |-> c]
(* A first release, the next one, one with v1 edited, two branches that    *)
(* numbered past each other, and a merge that kept two files of version 2. *)
MCDirectories ==
    { {f(1, c1)}, {f(1, c1), f(2, c1)}, {f(1, c2), f(2, c1)},
      {f(1, c1), f(3, c1)}, {f(1, c1), f(2, c1), f(2, c2)} }

(* A new database, and one whose v1 was applied before checksums. *)
MCInitialLedgers ==
    { [v \in MCVersions |-> NoRow],
      [v \in MCVersions |-> IF v = 1 THEN NoChecksum ELSE NoRow] }
=============================================================================
