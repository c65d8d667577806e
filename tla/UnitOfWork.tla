----------------------------- MODULE UnitOfWork -----------------------------
(***************************************************************************)
(* One transaction() or session() block of                                 *)
(* src/src/forktex/database/connection.py, from its opening to its end,    *)
(* with the savepoints inside it.  The application is every sequence of    *)
(* calls it may make; what SQLAlchemy and Postgres do with them is in the  *)
(* actions: begin_nested flushes first, a failed flush rolls back the      *)
(* innermost transaction and leaves it inactive, a failed statement makes  *)
(* Postgres refuse all but a rollback, except that COMMIT then rolls back  *)
(* without an error.  commit() from inside a savepoint is left out.        *)
(***************************************************************************)
EXTENDS Naturals

CONSTANTS
    Orm,       \* writes made as objects, sent by a flush
    Core,      \* writes made as insert(), update(), delete() statements
    Raw,       \* writes made as text(), which nothing tracks
    MaxDepth   \* bound: savepoints inside one another

Writes == Orm \cup Core \cup Raw
Tracked == Orm \cup Core
Depths == 0..MaxDepth

ASSUME WritesAssumption ==
    Orm \cap Core = {} /\ Orm \cap Raw = {} /\ Core \cap Raw = {}
ASSUME DepthAssumption == MaxDepth \in Nat

(* What the application writes: a transaction() block (managed) or a      *)
(* session() block; one that uses savepoints (nests); one that goes on     *)
(* after a failed statement which no savepoint contains (swallows).        *)
Units == [managed : BOOLEAN, nests : BOOLEAN, swallows : BOOLEAN]

VARIABLES
    unit,    \* which of these it is
    at,      \* of each write: "idle" not made, "new" in session.new, dirty or deleted, "sent",
             \* "stored" committed, "undone" with its savepoint or flush, or by rollback(),
             \* "discarded" by a block that raised, "lost" with nothing raised
    level,   \* of each write: the savepoint it belongs to, 0 for the block itself
    depth,   \* savepoints open
    broken,  \* the innermost transaction: "no", "inactive" (SQLAlchemy), "aborted" (Postgres)
    written, \* _WriteWatch._written
    block    \* "open", "returned", "raised"

vars == <<unit, at, level, depth, broken, written, block>>

TypeOK ==
    /\ unit \in Units
    /\ at \in [Writes -> {"idle", "new", "sent", "stored", "undone", "discarded", "lost"}]
    /\ level \in [Writes -> Depths]
    /\ depth \in Depths
    /\ broken \in {"no", "inactive", "aborted"}
    /\ written \in BOOLEAN
    /\ block \in {"open", "returned", "raised"}

Init ==
    /\ unit \in Units
    /\ at = [w \in Writes |-> "idle"]
    /\ level = [w \in Writes |-> 0]
    /\ depth = 0
    /\ broken = "no"
    /\ written = FALSE
    /\ block = "open"

Open == block = "open"
AtTop == Open /\ depth = 0
New == {w \in Writes : at[w] = "new"}
Sent == {w \in Writes : at[w] = "sent"}
Live == New \cup Sent
(* What a rollback of the innermost transaction undoes: what was sent in   *)
(* it, and every object not sent yet.                                      *)
Innermost == New \cup {w \in Sent : level[w] = depth}
Become(S, place) == at' = [w \in Writes |-> IF w \in S THEN place ELSE at[w]]
At(w, place) ==
    /\ at' = [at EXCEPT ![w] = place]
    /\ level' = [level EXCEPT ![w] = depth]

-----------------------------------------------------------------------------
(* Writing. *)
Add(w) ==
    /\ Open
    /\ w \in Orm
    /\ at[w] = "idle"
    /\ At(w, "new")
    /\ UNCHANGED <<unit, depth, broken, written, block>>

(* do_orm_execute sees insert(), update() and delete(), but not text(). *)
Execute(w) ==
    /\ Open
    /\ broken = "no"
    /\ w \in Core \cup Raw
    /\ at[w] = "idle"
    /\ At(w, "sent")
    /\ written' = (written \/ w \in Core)
    /\ UNCHANGED <<unit, depth, broken, block>>

(* Mutant: the watch does not listen to after_flush. *)
FlushUnseen ==
    /\ Open
    /\ broken = "no"
    /\ New # {}
    /\ Become(New, "sent")
    /\ UNCHANGED <<unit, level, depth, broken, written, block>>

(* By the application, or by a query's autoflush. *)
Flush ==
    /\ Open
    /\ broken = "no"
    /\ New # {}
    /\ Become(New, "sent")
    /\ written' = TRUE
    /\ UNCHANGED <<unit, level, depth, broken, block>>

FlushFails ==
    /\ Open
    /\ broken # "inactive"
    /\ New # {}
    /\ Become(Innermost, "undone")
    /\ broken' = "inactive"
    /\ written' = FALSE
    /\ UNCHANGED <<unit, level, depth, block>>

(* A statement fails in Postgres and the application catches the error.    *)
StatementFails ==
    /\ Open
    /\ broken = "no"
    /\ unit.swallows \/ depth > 0
    /\ broken' = "aborted"
    /\ written' \in {written, TRUE}
    /\ UNCHANGED <<unit, at, level, depth, block>>

-----------------------------------------------------------------------------
(* Mutant: nothing is flushed before the savepoint is set. *)
SavepointFirst ==
    /\ Open
    /\ broken = "no"
    /\ unit.nests
    /\ depth < MaxDepth
    /\ depth' = depth + 1
    /\ UNCHANGED <<unit, at, level, broken, written, block>>

Savepoint ==
    /\ Open
    /\ broken = "no"
    /\ unit.nests
    /\ depth < MaxDepth
    /\ Become(New, "sent")
    /\ written' = (written \/ New # {})
    /\ depth' = depth + 1
    /\ UNCHANGED <<unit, level, broken, block>>

(* The savepoint's block ends: after_commit settles the watch. *)
Release ==
    /\ Open
    /\ depth > 0
    /\ broken = "no"
    /\ Become(New, "sent")
    /\ level' = [w \in Writes |-> IF level[w] = depth THEN depth - 1 ELSE level[w]]
    /\ depth' = depth - 1
    /\ written' = FALSE
    /\ UNCHANGED <<unit, broken, block>>

(* It raises, or its release is refused; after_soft_rollback settles too.  *)
UndoSavepoint ==
    /\ Open
    /\ depth > 0
    /\ Become(Innermost, "undone")
    /\ depth' = depth - 1
    /\ broken' = "no"
    /\ written' = FALSE
    /\ UNCHANGED <<unit, level, block>>

-----------------------------------------------------------------------------
(* COMMIT: Postgres rolls an aborted transaction back, and does not say so. *)
Committed ==
    \/ broken = "no" /\ Become(Live, "stored")
    \/ broken = "aborted" /\ New = {} /\ Become(Sent, "lost")

(* Mutant: a transaction() block may commit midway. *)
CommitMidway ==
    /\ AtTop
    /\ Committed
    /\ broken' = "no"
    /\ written' = FALSE
    /\ UNCHANGED <<unit, level, depth, block>>

(* session() only: _ManagedSession refuses commit() and rollback(). *)
CommitCall ==
    /\ AtTop
    /\ ~unit.managed
    /\ Committed
    /\ broken' = "no"
    /\ written' = FALSE
    /\ UNCHANGED <<unit, level, depth, block>>

RollbackCall ==
    /\ AtTop
    /\ ~unit.managed
    /\ Become(Live, "undone")
    /\ broken' = "no"
    /\ written' = FALSE
    /\ UNCHANGED <<unit, level, depth, block>>

-----------------------------------------------------------------------------
Ends(how) == block' = how /\ UNCHANGED <<unit, level, depth, broken, written>>

(* transaction() ends with a commit that succeeds. *)
ExitCommits ==
    /\ AtTop
    /\ unit.managed
    /\ Committed
    /\ Ends("returned")

(* Mutant: a failing commit is logged, not raised. *)
CommitFailsQuietly ==
    /\ AtTop
    /\ unit.managed
    /\ Become(Live, "lost")
    /\ Ends("returned")

(* The commit fails, or is refused; when the connection breaks under it,   *)
(* Postgres may have done it.                                              *)
CommitFails ==
    /\ AtTop
    /\ unit.managed
    /\ \/ Become(Live, "discarded")
       \/ broken = "no" /\ Become(Live, "stored")
    /\ Ends("raised")

(* session() ends: _WriteWatch.pending(). *)
Pending == written \/ New # {}

ExitPending ==
    /\ AtTop
    /\ ~unit.managed
    /\ Pending
    /\ Become(Live, "discarded")
    /\ Ends("raised")

ExitSettled ==
    /\ AtTop
    /\ ~unit.managed
    /\ ~Pending
    /\ Become(Live, "lost")
    /\ Ends("returned")

(* An exception, a cancellation or the death of the process ends either    *)
(* block, and the savepoints in it.                                        *)
ExitRaises ==
    /\ Open
    /\ Become(Live, "discarded")
    /\ Ends("raised")

Next ==
    \/ \E w \in Writes : Add(w) \/ Execute(w)
    \/ Flush \/ FlushFails \/ StatementFails
    \/ Savepoint \/ Release \/ UndoSavepoint
    \/ CommitCall \/ RollbackCall
    \/ ExitCommits \/ CommitFails \/ ExitPending \/ ExitSettled \/ ExitRaises

Spec == Init /\ [][Next]_vars

-----------------------------------------------------------------------------
(* What a transaction() block wrote, and did not undo itself, is in the    *)
(* database entirely or not at all.                                        *)
AllOrNothing ==
    unit.managed =>
        ~ \E v, w \in Writes : at[v] = "stored" /\ at[w] \in {"discarded", "lost"}

(* docs/database.md:104: a transaction() is committed by "the library,     *)
(* when the block exits cleanly": a block that returns has not lost a      *)
(* write.                                                                  *)
CleanExitCommits ==
    unit.managed /\ block = "returned" => \A w \in Writes : at[w] # "lost"

(* It is so when every statement that fails is in a savepoint, or ends the *)
(* block.                                                                  *)
ContainedFailuresCommit == ~unit.swallows => CleanExitCommits

(* docs/database.md:212: "Leaving the block with writes the ORM knows      *)
(* about and no commit raises `TransactionBoundaryError`": a session()     *)
(* that swallows no failure and returns has lost no write that is tracked. *)
UncommittedRaises ==
    ~unit.managed /\ ~unit.swallows /\ block = "returned"
        => \A w \in Tracked : at[w] # "lost"

(* It is so for a session() without savepoints.                            *)
FlatSessionsRaise == ~unit.nests => UncommittedRaises

(* A savepoint that is rolled back takes only its own writes with it: none *)
(* that was made before it, sent or not.                                   *)
OuterWritesSurvive ==
    [][depth' < depth =>
           \A w \in Live : level[w] < depth => at'[w] = "sent"]_vars
=============================================================================
