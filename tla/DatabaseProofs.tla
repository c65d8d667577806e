--------------------------- MODULE DatabaseProofs ---------------------------
(***************************************************************************)
(* Proofs about the three specifications of forktex.database that have no  *)
(* state in common: UnitOfWork (one block and its transaction), UnitScope  *)
(* (the scope objects that open blocks) and Keyset (scrolling).            *)
(***************************************************************************)
EXTENDS UnitOfWork, UnitScope, Keyset, TLAPS


-----------------------------------------------------------------------------
(* UnitOfWork, for any writes and any depth of savepoints. *)

(* Nothing leaves an open transaction() block before it ends. *)
KeptInv ==
    unit.managed /\ Open => \A w \in Writes : at[w] \in {"idle", "new", "sent", "undone"}

(* Once it has ended, the writes were all stored or all dropped. *)
EndInv ==
    unit.managed => \/ \A w \in Writes : at[w] \in {"idle", "undone", "stored"}
               \/ \A w \in Writes : at[w] # "stored"

(* Without a swallowed failure, only a savepoint can be aborted, and the   *)
(* block that returned lost nothing.                                       *)
AbortInv ==
    /\ ~unit.swallows /\ broken = "aborted" => depth > 0
    /\ unit.managed /\ ~unit.swallows /\ block = "returned" => \A w \in Writes : at[w] # "lost"

(* Without savepoints, a tracked write that was sent is still in written,  *)
(* and none is lost.                                                       *)
WatchInv ==
    ~unit.managed /\ ~unit.swallows /\ ~unit.nests =>
        \A w \in Tracked : /\ at[w] # "lost"
                           /\ at[w] = "sent" => written

(* The depth moves with savepoints only.                                   *)
FlatInv == ~unit.nests => depth = 0 /\ \A w \in Writes : level[w] = 0

(* An object not sent yet was made in the innermost savepoint: setting one *)
(* flushes first, ending one leaves none.                                  *)
NewInv == \A w \in New : level[w] = depth

IInv == TypeOK /\ FlatInv /\ NewInv /\ KeptInv /\ EndInv /\ AbortInv /\ WatchInv

LEMMA TypeInit == Init => TypeOK
<1>1. 0 \in Depths
  BY DepthAssumption DEF Depths
<1> QED
  BY <1>1 DEF Init, TypeOK

(* A block stays what it is.                                               *)
LEMMA UnitStays == [Next]_vars => unit' = unit
  BY DEF vars, Next, Add, Execute, Flush, FlushFails, StatementFails, Savepoint, Release,
         UndoSavepoint, CommitCall, RollbackCall, ExitCommits, CommitFails, ExitPending,
         ExitSettled, ExitRaises, Ends

(* The levels beside one that is there. *)
LEMMA DepthsBeside ==
    ASSUME NEW n \in Depths
    PROVE  /\ n < MaxDepth => n + 1 \in Depths
           /\ n > 0 => n - 1 \in Depths
  BY DepthAssumption DEF Depths

LEMMA TypeStep == TypeOK /\ [Next]_vars => TypeOK'
<1>. SUFFICES ASSUME TypeOK, [Next]_vars PROVE TypeOK'
  OBVIOUS
<1>. USE DEF TypeOK
<1>1. ASSUME NEW w \in Writes, Add(w) PROVE TypeOK'
  BY <1>1 DEF Add, At
<1>2. ASSUME NEW w \in Writes, Execute(w) PROVE TypeOK'
  BY <1>2 DEF Execute, At
<1>3. CASE Flush
  BY <1>3 DEF Flush, Become
<1>4. CASE FlushFails
  BY <1>4 DEF FlushFails, Become
<1>5. CASE StatementFails
  BY <1>5 DEF StatementFails
<1>6. CASE Savepoint
  BY <1>6, DepthsBeside DEF Savepoint, Become
<1>7. CASE Release
  BY <1>7, DepthsBeside DEF Release, Become
<1>8. CASE UndoSavepoint
  BY <1>8, DepthsBeside DEF UndoSavepoint, Become
<1>9. CASE CommitCall
  BY <1>9 DEF CommitCall, Committed, Become
<1>10. CASE RollbackCall
  BY <1>10 DEF RollbackCall, Become
<1>11. CASE ExitCommits
  BY <1>11 DEF ExitCommits, Committed, Become, Ends
<1>12. CASE CommitFails
  BY <1>12 DEF CommitFails, Become, Ends
<1>13. CASE ExitPending
  BY <1>13 DEF ExitPending, Become, Ends
<1>14. CASE ExitSettled
  BY <1>14 DEF ExitSettled, Become, Ends
<1>15. CASE ExitRaises
  BY <1>15 DEF ExitRaises, Become, Ends
<1>16. CASE UNCHANGED vars
  BY <1>16 DEF vars
<1> QED
  BY <1>1, <1>2, <1>3, <1>4, <1>5, <1>6, <1>7, <1>8, <1>9, <1>10, <1>11, <1>12, <1>13,
     <1>14, <1>15, <1>16 DEF Next

LEMMA NewStep == TypeOK /\ NewInv /\ [Next]_vars => NewInv'
<1>. SUFFICES ASSUME TypeOK, NewInv, [Next]_vars PROVE NewInv'
  OBVIOUS
<1>. USE DEF TypeOK, NewInv, New, Become, Ends
<1>1. ASSUME NEW w \in Writes, Add(w) \/ Execute(w) PROVE NewInv'
  BY <1>1 DEF Add, Execute, At
<1>2. CASE Flush \/ FlushFails \/ StatementFails
  BY <1>2 DEF Flush, FlushFails, StatementFails
<1>3. CASE Savepoint \/ Release \/ UndoSavepoint
  BY <1>3 DEF Savepoint, Release, UndoSavepoint, Innermost
<1>4. CASE CommitCall \/ RollbackCall
  BY <1>4 DEF CommitCall, RollbackCall, Committed
<1>5. CASE ExitCommits \/ CommitFails \/ ExitPending \/ ExitSettled \/ ExitRaises
  BY <1>5 DEF ExitCommits, CommitFails, ExitPending, ExitSettled, ExitRaises, Committed
<1>6. CASE UNCHANGED vars
  BY <1>6 DEF vars
<1> QED
  BY <1>1, <1>2, <1>3, <1>4, <1>5, <1>6 DEF Next

LEMMA FlatStep == TypeOK /\ FlatInv /\ [Next]_vars => FlatInv'
<1>. SUFFICES ASSUME TypeOK, FlatInv, [Next]_vars, ~unit.nests PROVE FlatInv'
  BY UnitStays DEF FlatInv
<1>. USE DEF TypeOK, FlatInv, Ends
<1>1. ASSUME NEW w \in Writes, Add(w) \/ Execute(w) PROVE FlatInv'
  BY <1>1 DEF Add, Execute, At
<1>2. CASE Savepoint \/ Release \/ UndoSavepoint
  BY <1>2 DEF Savepoint, Release, UndoSavepoint
<1>3. CASE UNCHANGED <<level, depth>>
  BY <1>3
<1> QED
  BY <1>1, <1>2, <1>3
     DEF vars, Next, Flush, FlushFails, StatementFails, CommitCall, RollbackCall,
         ExitCommits, CommitFails, ExitPending, ExitSettled, ExitRaises

LEMMA KeptStep == TypeOK /\ KeptInv /\ [Next]_vars => KeptInv'
<1>. SUFFICES ASSUME TypeOK, KeptInv, [Next]_vars PROVE KeptInv'
  OBVIOUS
<1>. USE DEF TypeOK, KeptInv, Open, AtTop, Become, At, Ends
<1>1. ASSUME NEW w \in Writes, Add(w) PROVE KeptInv'
  BY <1>1 DEF Add
<1>2. ASSUME NEW w \in Writes, Execute(w) PROVE KeptInv'
  BY <1>2 DEF Execute
<1>3. CASE Flush
  BY <1>3 DEF Flush
<1>4. CASE FlushFails
  BY <1>4 DEF FlushFails
<1>5. CASE StatementFails
  BY <1>5 DEF StatementFails
<1>6. CASE Savepoint
  BY <1>6 DEF Savepoint
<1>7. CASE Release
  BY <1>7 DEF Release
<1>8. CASE UndoSavepoint
  BY <1>8 DEF UndoSavepoint
<1>9. CASE CommitCall \/ RollbackCall
  BY <1>9 DEF CommitCall, RollbackCall
<1>10. CASE ExitCommits \/ CommitFails \/ ExitPending \/ ExitSettled \/ ExitRaises
  BY <1>10 DEF ExitCommits, CommitFails, ExitPending, ExitSettled, ExitRaises
<1>11. CASE UNCHANGED vars
  BY <1>11 DEF vars
<1> QED
  BY <1>1, <1>2, <1>3, <1>4, <1>5, <1>6, <1>7, <1>8, <1>9, <1>10, <1>11 DEF Next

(* While the block is open KeptInv gives the second case; each way out     *)
(* moves every live write to one place.                                    *)
LEMMA EndStep == TypeOK /\ KeptInv /\ EndInv /\ [Next]_vars => EndInv'
<1>. SUFFICES ASSUME TypeOK, KeptInv, EndInv, [Next]_vars, unit.managed, unit'.managed
              PROVE EndInv'
  BY UnitStays DEF EndInv
<1>1. CASE UNCHANGED vars
  BY <1>1 DEF vars, EndInv
<1>2. CASE Open /\ Open'
  BY <1>2, KeptStep DEF KeptInv, EndInv
<1>3. ASSUME Open, NEW place, Become(Live, place) PROVE EndInv'
  <2>1. \A w \in Writes : at'[w] \in {"idle", "undone", place}
    BY <1>3 DEF KeptInv, Become, TypeOK, Live, New, Sent
  <2>2. CASE place = "stored"
    BY <2>1, <2>2 DEF EndInv
  <2>3. CASE place # "stored"
    BY <2>1, <2>3 DEF EndInv
  <2> QED
    BY <2>2, <2>3
<1>4. ASSUME Open, Become(Sent, "lost") PROVE EndInv'
  BY <1>4 DEF KeptInv, Become, TypeOK, EndInv, Sent
<1>5. CASE ExitCommits \/ CommitFails \/ ExitRaises
  BY <1>3, <1>4, <1>5 DEF ExitCommits, Committed, CommitFails, ExitRaises, AtTop
<1>6. CASE Next /\ ~(Open /\ Open')
  <2>1. ExitCommits \/ CommitFails \/ ExitRaises
    BY <1>6 DEF Next, Open, AtTop, Add, Execute, Flush, FlushFails, StatementFails, Savepoint,
                Release, UndoSavepoint, CommitCall, RollbackCall, ExitPending, ExitSettled
  <2> QED
    BY <2>1, <1>5
<1> QED
  BY <1>1, <1>2, <1>6

LEMMA AbortStep == TypeOK /\ KeptInv /\ AbortInv /\ [Next]_vars => AbortInv'
<1>. SUFFICES ASSUME TypeOK, KeptInv, AbortInv, [Next]_vars, ~unit.swallows PROVE AbortInv'
  BY UnitStays DEF AbortInv
<1>. USE DepthAssumption DEF AbortInv, AtTop, Open, Ends
<1>1. ASSUME NEW w \in Writes, Add(w) \/ Execute(w) PROVE AbortInv'
  BY <1>1 DEF Add, Execute, At
<1>2. CASE Flush \/ FlushFails \/ StatementFails
  BY <1>2 DEF Flush, FlushFails, StatementFails, Become
<1>3. CASE Savepoint \/ Release \/ UndoSavepoint
  BY <1>3 DEF Savepoint, Release, UndoSavepoint, Become
<1>4. CASE CommitCall \/ RollbackCall
  BY <1>4 DEF CommitCall, RollbackCall
<1>5. CASE ExitCommits
  <2>1. broken = "no" /\ Become(Live, "stored")
    BY <1>5 DEF ExitCommits, Committed, TypeOK, Depths
  <2>2. \A w \in Writes : at'[w] # "lost"
    BY <1>5, <2>1 DEF ExitCommits, KeptInv, Become
  <2> QED
    BY <1>5, <2>1, <2>2 DEF ExitCommits
<1>6. CASE CommitFails \/ ExitPending \/ ExitSettled \/ ExitRaises
  BY <1>6 DEF CommitFails, ExitPending, ExitSettled, ExitRaises
<1>7. CASE UNCHANGED vars
  BY <1>7 DEF vars
<1> QED
  BY <1>1, <1>2, <1>3, <1>4, <1>5, <1>6, <1>7 DEF Next

LEMMA WatchStep == TypeOK /\ FlatInv /\ AbortInv /\ WatchInv /\ [Next]_vars => WatchInv'
<1>. SUFFICES ASSUME TypeOK, FlatInv, AbortInv, WatchInv, [Next]_vars, ~unit.managed,
                     ~unit.swallows, ~unit.nests
              PROVE WatchInv'
  BY UnitStays DEF WatchInv
<1>0. depth = 0 /\ \A w \in Writes : level[w] = 0
  BY DEF FlatInv
<1>. USE <1>0 DEF WatchInv, Tracked, Writes, AtTop, Open, Ends
<1>1. ASSUME NEW w \in Writes, Add(w) PROVE WatchInv'
  BY <1>1 DEF Add, At, TypeOK
<1>2. ASSUME NEW w \in Writes, Execute(w) PROVE WatchInv'
  BY <1>2, WritesAssumption DEF Execute, At, TypeOK
<1>3. CASE Flush
  BY <1>3 DEF Flush, Become
<1>4. CASE FlushFails
  BY <1>4 DEF FlushFails, Become, Innermost, Sent
<1>5. CASE StatementFails
  BY <1>5 DEF StatementFails
<1>6. CASE Savepoint \/ Release \/ UndoSavepoint
  BY <1>6 DEF Savepoint, Release, UndoSavepoint
<1>7. CASE CommitCall
  <2>1. broken = "no"
    BY <1>7 DEF CommitCall, Committed, AbortInv
  <2> QED
    BY <1>7, <2>1 DEF CommitCall, Committed, Become, Live, Sent
<1>8. CASE RollbackCall
  BY <1>8 DEF RollbackCall, Become, Live, Sent
<1>9. CASE ExitCommits \/ CommitFails
  BY <1>9 DEF ExitCommits, CommitFails
<1>10. CASE ExitPending \/ ExitRaises
  BY <1>10 DEF ExitPending, ExitRaises, Become, Live, Sent
<1>11. CASE ExitSettled
  BY <1>11 DEF ExitSettled, Pending, Become, Live, Sent, New
<1>12. CASE UNCHANGED vars
  BY <1>12 DEF vars
<1> QED
  BY <1>1, <1>2, <1>3, <1>4, <1>5, <1>6, <1>7, <1>8, <1>9, <1>10, <1>11, <1>12 DEF Next

(* The inductive invariant holds in every reachable state. *)
THEOREM Invariance == Spec => []IInv
<1>1. Init => IInv
  BY TypeInit DEF Init, IInv, FlatInv, NewInv, New, KeptInv, EndInv, AbortInv, WatchInv, Tracked, Writes
<1>2. IInv /\ [Next]_vars => IInv'
  BY TypeStep, FlatStep, NewStep, KeptStep, EndStep, AbortStep, WatchStep DEF IInv
<1> QED
  BY <1>1, <1>2, PTL DEF Spec

(* Every variable keeps its type. *)
THEOREM TypeCorrectness == Spec => []TypeOK
<1>1. IInv => TypeOK
  BY DEF IInv
<1> QED
  BY <1>1, Invariance, PTL

(* connection.py _managed_session: a unit of work is never half applied.   *)
THEOREM UnitsAreAtomic == Spec => []AllOrNothing
<1>1. IInv => AllOrNothing
  BY DEF IInv, EndInv, AllOrNothing
<1> QED
  BY <1>1, Invariance, PTL

(* connection.py _managed_session: when statement failures are contained   *)
(* in savepoints, a block that returns has committed what it wrote.        *)
THEOREM ReturningCommits == Spec => []ContainedFailuresCommit
<1>1. IInv => ContainedFailuresCommit
  BY DEF IInv, AbortInv, CleanExitCommits, ContainedFailuresCommit
<1> QED
  BY <1>1, Invariance, PTL

(* connection.py _unmanaged_session: without savepoints, a session() that  *)
(* returns has no tracked write left uncommitted.                          *)
THEOREM ForgottenWritesRaise == Spec => []FlatSessionsRaise
<1>1. IInv => FlatSessionsRaise
  BY DEF IInv, WatchInv, UncommittedRaises, FlatSessionsRaise
<1> QED
  BY <1>1, Invariance, PTL

(* connection.py savepoint: rolling one back undoes nothing older.         *)
THEOREM SavepointsAreIsolated == Spec => OuterWritesSurvive
<1>1. IInv /\ [Next]_vars =>
        [depth' < depth => \A w \in Live : level[w] < depth => at'[w] = "sent"]_vars
  <2>. SUFFICES ASSUME TypeOK, NewInv, Next, depth' < depth, NEW w \in Live, level[w] < depth
                PROVE at'[w] = "sent"
    BY DEF vars, IInv
  <2>1. Release \/ UndoSavepoint \/ depth' = depth \/ depth' = depth + 1
    BY DEF Next, Add, Execute, Flush, FlushFails, StatementFails, Savepoint, CommitCall,
           RollbackCall, ExitCommits, CommitFails, ExitPending, ExitSettled, ExitRaises, Ends
  <2>2. depth \in Nat /\ level[w] \in Nat
    BY DEF TypeOK, Depths, Live, New, Sent
  <2> QED
    BY <2>1, <2>2 DEF Release, UndoSavepoint, Become, Live, New, Sent, Innermost, NewInv
<1> QED
  BY <1>1, Invariance, PTL DEF Spec, OuterWritesSurvive

-----------------------------------------------------------------------------
(* UnitScope, for any blocks and scopes, entered in any way. *)

(* A scope remembers the unit of the block running in it, or the unit of   *)
(* another that shares it.                                                 *)
RunInv ==
    \A b \in Blocks, s \in Scopes : RunsIn(b, s) => opened[s] = b \/ {b, opened[s]} \subseteq shared

(* A block waits for the end of its own unit, or shares its scope.         *)
EndingInv ==
    \A b \in Blocks : ending[b] # Nothing =>
        /\ within[b] # Nothing
        /\ ending[b] = b \/ {b, ending[b]} \subseteq shared

(* Nothing refers to a block that has not been entered.                    *)
UnusedInv ==
    \A b \in Blocks : unitOf[b] = "none" =>
        /\ within[b] = Nothing
        /\ \A s \in Scopes : opened[s] # b
        /\ \A c \in Blocks : ending[c] # b

ScopeInv ==
    /\ ScopeTypeOK
    /\ RunInv
    /\ EndingInv
    /\ UnusedInv
    /\ OpenWhileItRuns

LEMMA ScopeInvInit == ScopeInit => ScopeInv
  BY NothingAssumption
     DEF ScopeInit, ScopeInv, ScopeTypeOK, RunInv, RunsIn, EndingInv, UnusedInv, OpenWhileItRuns

(* A block entered shares its scope with those that run in it, as far as   *)
(* the history knows, or there are none.                                   *)
LEMMA EnterKeepsScopeInv ==
    ASSUME ScopeInv, NEW b \in Blocks, NEW s \in Scopes, Enter(b, s),
           shared' \in SUBSET Blocks, shared \subseteq shared',
           \A c \in Blocks : RunsIn(c, s) => {b, c} \subseteq shared'
    PROVE  ScopeInv'
<1> USE NothingAssumption DEF ScopeInv
<1>1. /\ within[b] = Nothing
      /\ ending[b] = Nothing
      /\ \A c \in Blocks : ending[c] # b
  BY DEF Enter, UnusedInv, EndingInv, ScopeTypeOK
<1>2. /\ within'[b] = s
      /\ opened'[s] = b
      /\ unitOf'[b] = "open"
      /\ \A c \in Blocks : c # b => within'[c] = within[c] /\ unitOf'[c] = unitOf[c]
      /\ \A t \in Scopes : t # s => opened'[t] = opened[t]
      /\ ending' = ending
  BY DEF Enter, ScopeTypeOK
<1>3. ScopeTypeOK'
  BY DEF ScopeTypeOK, Enter
<1>4. RunInv'
  <2> SUFFICES ASSUME NEW c \in Blocks, NEW t \in Scopes, RunsIn(c, t)'
               PROVE  opened'[t] = c \/ {c, opened'[t]} \subseteq shared'
    BY DEF RunInv
  <2>1. CASE c = b
    BY <1>2, <2>1 DEF RunsIn
  <2>2. CASE c # b /\ t = s
    BY <1>2, <2>2 DEF RunsIn
  <2>3. CASE c # b /\ t # s
    <3>1. RunsIn(c, t) /\ opened'[t] = opened[t]
      BY <1>2, <2>3 DEF RunsIn
    <3>2. QED
      BY <3>1 DEF RunInv
  <2>4. QED
    BY <2>1, <2>2, <2>3
<1>5. EndingInv'
  BY <1>1, <1>2 DEF EndingInv
<1>6. UnusedInv'
  <2> SUFFICES ASSUME NEW c \in Blocks, unitOf'[c] = "none"
               PROVE  /\ within'[c] = Nothing
                      /\ \A t \in Scopes : opened'[t] # c
                      /\ \A d \in Blocks : ending'[d] # c
    BY DEF UnusedInv
  <2>1. c # b /\ unitOf[c] = "none"
    BY <1>2
  <2>2. \A t \in Scopes : opened'[t] # c
    <3>1. \A t \in Scopes : opened[t] # c
      BY <2>1 DEF UnusedInv
    <3>2. QED
      BY <1>2, <2>1, <3>1
  <2>3. QED
    BY <1>2, <2>1, <2>2 DEF UnusedInv
<1>7. OpenWhileItRuns'
  BY <1>2 DEF OpenWhileItRuns
<1>8. QED
  BY <1>3, <1>4, <1>5, <1>6, <1>7

LEMMA EnterKeptKeepsScopeInv ==
    ASSUME ScopeInv, NEW b \in Blocks, NEW s \in Scopes, EnterKept(b, s)
    PROVE  ScopeInv'
<1> DEFINE others == {c \in Blocks : RunsIn(c, s)}
<1>1. shared' = IF others = {} THEN shared ELSE shared \cup others \cup {b}
  BY DEF EnterKept
<1>2. \A c \in Blocks : RunsIn(c, s) => c \in others
  OBVIOUS
<1>3. others \subseteq Blocks /\ shared \in SUBSET Blocks
  BY DEF ScopeInv, ScopeTypeOK
<1> HIDE DEF others
<1>4. /\ shared' \in SUBSET Blocks
      /\ shared \subseteq shared'
      /\ \A c \in Blocks : RunsIn(c, s) => {b, c} \subseteq shared'
  <2>1. CASE others = {}
    BY <1>1, <1>2, <1>3, <2>1
  <2>2. CASE others # {}
    BY <1>1, <1>2, <1>3, <2>2
  <2>3. QED
    BY <2>1, <2>2
<1>5. Enter(b, s)
  BY DEF EnterKept
<1>6. QED
  BY <1>4, <1>5, EnterKeepsScopeInv

LEMMA CallKeepsScopeInv ==
    ASSUME ScopeInv, NEW b \in Blocks, NEW s \in Scopes, CallDecorated(b, s)
    PROVE  ScopeInv'
<1>1. \A c \in Blocks : ~RunsIn(c, s)
  BY NothingAssumption DEF CallDecorated, Unused, ScopeInv, ScopeTypeOK, RunInv
<1>2. /\ Enter(b, s)
      /\ shared' = shared
      /\ shared \in SUBSET Blocks
  BY DEF CallDecorated, ScopeInv, ScopeTypeOK
<1>3. QED
  BY <1>1, <1>2, EnterKeepsScopeInv

(* A block that shares its scope with none finds its own unit there.       *)
LEMMA ExitFindsOwn ==
    ASSUME ScopeInv, NEW b \in Blocks, NEW s \in Scopes, RunsIn(b, s)
    PROVE  opened[s] \in Blocks /\ (b \notin shared => opened[s] = b /\ Endable(b))
<1> USE NothingAssumption DEF ScopeInv
<1>1. opened[s] \in Blocks
  BY DEF RunInv, ScopeTypeOK
<1>2. ASSUME b \notin shared
      PROVE  opened[s] = b /\ Endable(b)
  <2>1. opened[s] = b
    BY <1>2 DEF RunInv
  <2>2. unitOf[b] = "open"
    BY <1>2 DEF OpenWhileItRuns, RunsIn
  <2>3. \A c \in Blocks : ending[c] # b
    BY <1>2 DEF EndingInv, RunsIn
  <2>4. QED
    BY <2>1, <2>2, <2>3 DEF Endable
<1>3. QED
  BY <1>1, <1>2

LEMMA ExitKeepsScopeInv ==
    ASSUME ScopeInv, NEW b \in Blocks, Exit(b)
    PROVE  ScopeInv'
<1> USE NothingAssumption DEF ScopeInv
<1>1. PICK s \in Scopes : RunsIn(b, s) /\ Endable(opened[s])
  BY DEF Exit
<1>2. /\ opened[s] \in Blocks
      /\ opened[s] = b \/ {b, opened[s]} \subseteq shared
      /\ within[b] = s
  BY <1>1, ExitFindsOwn DEF RunInv, RunsIn
<1>3. /\ ending' = [ending EXCEPT ![b] = opened[s]]
      /\ UNCHANGED <<opened, within, unitOf, shared>>
  BY <1>2 DEF Exit
<1>4. ScopeTypeOK'
  BY <1>2, <1>3 DEF ScopeTypeOK
<1>5. \A c \in Blocks, t \in Scopes : RunsIn(c, t)' => RunsIn(c, t)
  BY <1>2, <1>3 DEF RunsIn, ScopeTypeOK
<1>6. RunInv'
  BY <1>3, <1>5 DEF RunInv
<1>7. EndingInv'
  BY <1>2, <1>3 DEF EndingInv, ScopeTypeOK
<1>8. UnusedInv'
  <2>1. unitOf[opened[s]] # "none"
    BY <1>1 DEF Endable
  <2>2. QED
    BY <1>3, <2>1 DEF UnusedInv, ScopeTypeOK
<1>9. OpenWhileItRuns'
  BY <1>3 DEF OpenWhileItRuns
<1>10. QED
  BY <1>4, <1>6, <1>7, <1>8, <1>9

LEMMA ExitInVainKeepsScopeInv ==
    ASSUME ScopeInv, NEW b \in Blocks, ExitInVain(b)
    PROVE  ScopeInv' /\ b \in shared
<1> USE NothingAssumption DEF ScopeInv
<1>1. b \in shared /\ ending[b] = Nothing
  BY ExitFindsOwn DEF ExitInVain, RunsIn
<1>2. /\ within' = [within EXCEPT ![b] = Nothing]
      /\ UNCHANGED <<opened, ending, unitOf, shared>>
  BY DEF ExitInVain
<1>3. ScopeTypeOK'
  BY <1>2 DEF ScopeTypeOK
<1>4. \A c \in Blocks, t \in Scopes : RunsIn(c, t)' => RunsIn(c, t)
  BY <1>2 DEF RunsIn, ScopeTypeOK
<1>5. RunInv'
  BY <1>2, <1>4 DEF RunInv
<1>6. EndingInv' /\ UnusedInv'
  BY <1>1, <1>2 DEF EndingInv, UnusedInv, ScopeTypeOK
<1>7. OpenWhileItRuns'
  BY <1>1, <1>2 DEF OpenWhileItRuns, ScopeTypeOK
<1>8. QED
  BY <1>1, <1>3, <1>5, <1>6, <1>7

(* The end of a unit is that of a block that shares its scope with none,   *)
(* or concerns only blocks that share theirs.                              *)
LEMMA LeftEndsOwn ==
    ASSUME ScopeInv, NEW b \in Blocks, NEW outcome \in {"committed", "rolledback"}, Left(b, outcome)
    PROVE  /\ ending[b] \in Blocks
           /\ ending[b] = b \/ {b, ending[b]} \subseteq shared
           /\ unitOf' = [unitOf EXCEPT ![ending[b]] = outcome]
           /\ within' = [within EXCEPT ![b] = Nothing]
           /\ ending' = [ending EXCEPT ![b] = Nothing]
           /\ UNCHANGED <<opened, shared>>
  BY NothingAssumption DEF ScopeInv, EndingInv, ScopeTypeOK, Left

LEMMA LeftKeepsScopeInv ==
    ASSUME ScopeInv, NEW b \in Blocks, NEW outcome \in {"committed", "rolledback"}, Left(b, outcome)
    PROVE  ScopeInv'
<1> USE NothingAssumption DEF ScopeInv
<1>1. PICK u \in Blocks :
          /\ ending[b] = u
          /\ u = b \/ {b, u} \subseteq shared
          /\ unitOf' = [unitOf EXCEPT ![u] = outcome]
          /\ within' = [within EXCEPT ![b] = Nothing]
          /\ ending' = [ending EXCEPT ![b] = Nothing]
          /\ UNCHANGED <<opened, shared>>
  BY LeftEndsOwn
<1>2. ScopeTypeOK'
  BY <1>1 DEF ScopeTypeOK
<1>3. \A c \in Blocks, t \in Scopes : RunsIn(c, t)' => RunsIn(c, t)
  BY <1>1 DEF RunsIn, ScopeTypeOK
<1>4. RunInv'
  BY <1>1, <1>3 DEF RunInv
<1>5. EndingInv'
  BY <1>1 DEF EndingInv, ScopeTypeOK
<1>6. UnusedInv'
  <2>1. \A c \in Blocks : unitOf'[c] = "none" => unitOf[c] = "none"
    BY <1>1 DEF ScopeTypeOK
  <2>2. QED
    BY <1>1, <2>1 DEF UnusedInv, ScopeTypeOK
<1>7. OpenWhileItRuns'
  BY <1>1 DEF OpenWhileItRuns, ScopeTypeOK
<1>8. QED
  BY <1>2, <1>4, <1>5, <1>6, <1>7

LEMMA ScopeInvNext == ScopeInv /\ [ScopeNext]_scopeVars => ScopeInv'
<1>1. ASSUME ScopeInv, UNCHANGED scopeVars PROVE ScopeInv'
  BY <1>1 DEF scopeVars, ScopeInv, ScopeTypeOK, RunInv, RunsIn, EndingInv, UnusedInv, OpenWhileItRuns
<1> QED
  BY <1>1, EnterKeptKeepsScopeInv, CallKeepsScopeInv, ExitKeepsScopeInv, ExitInVainKeepsScopeInv,
     LeftKeepsScopeInv DEF ScopeNext

(* The inductive invariant holds of every behaviour.                       *)
THEOREM ScopeInvariance == ScopeSpec => []ScopeInv
BY ScopeInvInit, ScopeInvNext, PTL DEF ScopeSpec

(* Every variable keeps its type, whatever the application enters twice.   *)
THEOREM ScopeTypeCorrectness == ScopeSpec => []ScopeTypeOK
BY ScopeInvariance, PTL DEF ScopeInv

(* connection.py _TransactionScope: whatever is entered twice, the unit of *)
(* a block that shares its scope with none is open exactly while it runs.  *)
THEOREM UnitsLiveWithTheirBlocks == ScopeSpec => []OpenWhileItRuns
BY ScopeInvariance, PTL DEF ScopeInv

(* connection.py _TransactionScope.__aexit__: such a block ends its own    *)
(* unit as it ends, and no other block does.                               *)
THEOREM BlocksEndTheirOwn == ScopeSpec => EndsItsOwn
<1> DEFINE Own ==
        \A b \in Blocks \ shared :
            within[b] # Nothing /\ within'[b] = Nothing
                <=> unitOf[b] = "open" /\ unitOf'[b] # "open"
<1>1. ScopeInv /\ [ScopeNext]_scopeVars =>
          [\A b \in Blocks \ shared :
               within[b] # Nothing /\ within'[b] = Nothing
                   <=> unitOf[b] = "open" /\ unitOf'[b] # "open"]_scopeVars
  <2> SUFFICES ASSUME ScopeInv, ScopeNext PROVE Own
    OBVIOUS
  <2> USE NothingAssumption
  <2>1. ASSUME NEW b \in Blocks, NEW s \in Scopes, EnterKept(b, s) \/ CallDecorated(b, s)
        PROVE  Own
    BY <2>1 DEF EnterKept, CallDecorated, Enter, ScopeInv, ScopeTypeOK, UnusedInv
  <2>2. ASSUME NEW b \in Blocks, Exit(b)
        PROVE  Own
    BY <2>2 DEF Exit
  <2>3. ASSUME NEW b \in Blocks, ExitInVain(b)
        PROVE  Own
    BY <2>3, ExitInVainKeepsScopeInv DEF ExitInVain, ScopeInv, ScopeTypeOK
  <2>4. ASSUME NEW b \in Blocks, NEW outcome \in {"committed", "rolledback"}, Left(b, outcome)
        PROVE  Own
    <3>1. \A c \in Blocks \ shared : unitOf[c] = "open" <=> within[c] # Nothing
      BY DEF ScopeInv, OpenWhileItRuns
    <3>2. QED
      BY <2>4, <3>1, LeftEndsOwn DEF ScopeInv, ScopeTypeOK
  <2>5. QED
    BY <2>1, <2>2, <2>3, <2>4 DEF ScopeNext
<1> QED
  BY <1>1, ScopeInvariance, PTL DEF ScopeSpec, EndsItsOwn

-----------------------------------------------------------------------------
(* Keyset, for any table, keyset, direction and page size. *)

LEMMA KeyTypes ==
    ASSUME NEW k \in Key, NEW i \in Levels
    PROVE  /\ k[i] = Null \/ k[i] \in Int
           /\ N \in Levels
           /\ i = N => k[i] # Null /\ k[i] \in Int
<1>1. N \in Levels
  BY LevelsAssumption DEF Levels
<1>2. k[i] \in Column(i)
  BY DEF Key
<1> QED
  BY <1>1, <1>2, NumbersAssumption, NullAssumption DEF Column

(* Larger is a strict order with NULL on top. *)
LEMMA LargerIsStrict ==
    ASSUME NEW x, x = Null \/ x \in Int, NEW y, y = Null \/ y \in Int, NEW z, z = Null \/ z \in Int
    PROVE  /\ ~Larger(x, x)
           /\ Larger(x, y) /\ Larger(y, z) => Larger(x, z)
  BY NullAssumption DEF Larger

(* ORDER BY is a strict order on keys. *)
LEMMA Irreflexive == ASSUME NEW k \in Key, NEW up PROVE ~Precedes(k, k, up)
  BY KeyTypes, LargerIsStrict DEF Precedes

LEMMA Transitive ==
    ASSUME NEW k \in Key, NEW l \in Key, NEW m \in Key, NEW up,
           Precedes(k, l, up), Precedes(l, m, up)
    PROVE  Precedes(k, m, up)
<1>. DEFINE Below(x, y) == IF up THEN Larger(y, x) ELSE Larger(x, y)
<1>1. PICK i \in Levels : (\A h \in 1..(i - 1) : k[h] = l[h]) /\ Below(k[i], l[i])
  BY DEF Precedes
<1>2. PICK j \in Levels : (\A h \in 1..(j - 1) : l[h] = m[h]) /\ Below(l[j], m[j])
  BY DEF Precedes
<1>3. ASSUME NEW h \in Levels, \A g \in 1..(h - 1) : k[g] = m[g], Below(k[h], m[h])
      PROVE  Precedes(k, m, up)
  BY <1>3 DEF Precedes
<1>. i \in Int /\ j \in Int
  BY LevelsAssumption DEF Levels
<1>4. CASE i < j
  <2>1. l[i] = m[i] /\ \A g \in 1..(i - 1) : l[g] = m[g]
    BY <1>2, <1>4 DEF Levels
  <2> QED
    BY <1>1, <1>3, <2>1
<1>5. CASE j < i
  <2>1. k[j] = l[j] /\ \A g \in 1..(j - 1) : k[g] = l[g]
    BY <1>1, <1>5 DEF Levels
  <2> QED
    BY <1>2, <1>3, <2>1
<1>6. CASE i = j
  <2>1. Below(k[i], m[i])
    BY <1>1, <1>2, <1>6, KeyTypes, LargerIsStrict
  <2> QED
    BY <1>1, <1>2, <1>3, <1>6, <2>1
<1> QED
  BY <1>4, <1>5, <1>6

(* pagination.py keyset_predicate selects exactly the rows that ORDER BY   *)
(* puts after the cursor, NULLs included.                                  *)
THEOREM PredicateIsOrder ==
    ASSUME NEW k \in Key, NEW boundary \in Key, NEW up \in BOOLEAN
    PROVE  KeysetPredicate(k, boundary, up) <=> Precedes(boundary, k, up)
<1>1. ASSUME NEW i \in Levels
      PROVE  SortsAfter(k[i], boundary[i], up, i = N)
                <=> IF up THEN Larger(k[i], boundary[i]) ELSE Larger(boundary[i], k[i])
  BY KeyTypes, NullAssumption DEF SortsAfter, Larger
<1> QED
  BY <1>1 DEF KeysetPredicate, Precedes

-----------------------------------------------------------------------------
(* A cursor read back without change selects what lies after it. *)
LEMMA MatchingIsAfter ==
    ASSUME ScrollTypeOK, Fits
    PROVE  Matching = {r \in Present : cursor # Absent => Precedes(cursor, table[r], query.ascending)}
<1>1. ASSUME cursor # Absent PROVE Boundary = cursor
  BY <1>1 DEF Fits, Resumed, Boundary, Decoded, Key, ScrollTypeOK
<1>2. query.ascending \in BOOLEAN
  BY QueriesAssumption DEF ScrollTypeOK, Query
<1> QED
  BY <1>1, <1>2, PredicateIsOrder DEF Matching, Resumed, ScrollTypeOK, Present

(* Rows come once and go once. *)
RowInv ==
    /\ gone \cap Present = {}
    /\ first \subseteq Present \cup gone
    /\ \A r \in Ids \ (Present \cup gone) : served[r] = 0
    /\ scroll = "ready" => cursor = Absent /\ \A r \in Ids : served[r] = 0
    /\ scroll = "more" => cursor # Absent

(* What was served, and stayed put, is not after the cursor. *)
BehindInv ==
    \A r \in Ids \ moved :
        /\ served[r] <= 1
        /\ r \in Present /\ served[r] = 1 /\ scroll = "more" => ~Precedes(cursor, table[r], query.ascending)

(* What is still to come is after it. *)
AheadInv ==
    \A r \in (first \cap Present) \ moved :
        /\ scroll = "more" /\ served[r] = 0 => Precedes(cursor, table[r], query.ascending)
        /\ scroll = "done" => served[r] = 1

ScrollInv == ScrollTypeOK /\ RowInv /\ BehindInv /\ AheadInv

LEMMA ScrollInvInit == ScrollInit => ScrollInv
  BY DEF ScrollInit, ScrollInv, ScrollTypeOK, RowInv, BehindInv, AheadInv, KeysOf

LEMMA PageKeepsScrollInv == ScrollInv /\ Page => ScrollInv'
<1>. SUFFICES ASSUME ScrollInv, Page PROVE ScrollInv'
  OBVIOUS
<1>1. PICK P \in SUBSET Matching, p \in Matching :
          IsPage(P) /\ IsLast(p, P) /\ Serve(P) /\ cursor' = table[p]
  BY DEF Page
<1>2. Matching = {r \in Present : cursor # Absent => Precedes(cursor, table[r], query.ascending)}
  BY MatchingIsAfter DEF ScrollInv, Page
<1>3. /\ scroll' = "more"
      /\ query' = query /\ table' = table /\ moved' = moved /\ gone' = gone
      /\ Present' = Present
      /\ scroll \in {"ready", "more"}
      /\ P \subseteq Present /\ p \in P /\ p \in Present
  BY <1>1, <1>2 DEF Page, Scrolling, Present, IsLast
<1>4. table[p] \in Key /\ table[p] # Absent /\ \A r \in Present : table[r] \in Key
  BY <1>3, AbsentAssumption DEF ScrollInv, ScrollTypeOK, Present
<1>5. served' = [r \in Ids |-> IF r \in P THEN served[r] + 1 ELSE served[r]]
  BY <1>1 DEF Serve
<1>6. ScrollTypeOK'
  BY <1>1, <1>3, <1>4, <1>5 DEF ScrollInv, ScrollTypeOK, Serve, Present
<1>7. RowInv'
  BY <1>1, <1>3, <1>4, <1>5 DEF ScrollInv, RowInv, Serve
<1>8. ASSUME NEW r \in P, r \notin moved PROVE served[r] = 0
  BY <1>2, <1>3, <1>8 DEF ScrollInv, BehindInv, RowInv, ScrollTypeOK, Present
<1>9. ASSUME NEW r \in Present, r \notin P, r \notin moved, served[r] = 1
      PROVE  ~Precedes(table[p], table[r], query.ascending)
  <2>1. scroll = "more" /\ cursor \in Key
    BY <1>3, <1>9 DEF ScrollInv, RowInv, ScrollTypeOK, Present
  <2>2. Precedes(cursor, table[p], query.ascending)
    BY <1>2, <2>1, AbsentAssumption
  <2>3. ~Precedes(cursor, table[r], query.ascending)
    BY <1>9, <2>1 DEF ScrollInv, BehindInv, Present
  <2> QED
    BY <2>1, <2>2, <2>3, <1>4, Transitive
<1>10. ASSUME NEW r \in P PROVE ~Precedes(table[p], table[r], query.ascending)
  <2>1. CASE r = p
    BY <2>1, <1>4, Irreflexive
  <2>2. CASE r # p
    BY <2>2, <1>1, <1>3, <1>4, Irreflexive, Transitive DEF IsLast, Before
  <2> QED
    BY <2>1, <2>2
<1>11. BehindInv'
  <2>. SUFFICES ASSUME NEW r \in Ids, r \notin moved
                PROVE  /\ served'[r] <= 1
                       /\ r \in Present /\ served'[r] = 1 => ~Precedes(table[p], table[r], query.ascending)
    BY <1>1, <1>3 DEF BehindInv
  <2>1. CASE r \in P
    BY <2>1, <1>5, <1>8, <1>10
  <2>2. CASE r \notin P
    BY <2>2, <1>5, <1>9 DEF ScrollInv, BehindInv
  <2> QED
    BY <2>1, <2>2
<1>12. ASSUME NEW r \in (first' \cap Present) \ moved, served'[r] = 0
       PROVE  Precedes(table[p], table[r], query.ascending)
  <2>1. r \notin P /\ served[r] = 0
    BY <1>5, <1>12 DEF ScrollInv, ScrollTypeOK, Present
  <2>2. r \in Matching
    BY <1>1, <1>2, <1>3, <1>12, <2>1 DEF Serve, ScrollInv, AheadInv, RowInv
  <2> QED
    BY <1>1, <1>3, <2>1, <2>2 DEF IsPage, Before
<1>13. AheadInv'
  BY <1>1, <1>3, <1>12 DEF AheadInv
<1> QED
  BY <1>6, <1>7, <1>11, <1>13 DEF ScrollInv

LEMMA LastPageKeepsScrollInv == ScrollInv /\ LastPage => ScrollInv'
<1>. SUFFICES ASSUME ScrollInv, LastPage PROVE ScrollInv'
  OBVIOUS
<1>1. Matching = {r \in Present : cursor # Absent => Precedes(cursor, table[r], query.ascending)}
  BY MatchingIsAfter DEF ScrollInv, LastPage
<1>2. /\ scroll' = "done"
      /\ query' = query /\ table' = table /\ moved' = moved /\ gone' = gone /\ cursor' = cursor
      /\ Present' = Present
      /\ scroll \in {"ready", "more"}
      /\ served' = [r \in Ids |-> IF r \in Matching THEN served[r] + 1 ELSE served[r]]
  BY DEF LastPage, Scrolling, Present, Serve
<1>3. ScrollTypeOK'
  BY <1>1, <1>2 DEF ScrollInv, ScrollTypeOK, LastPage, Serve, Present
<1>4. RowInv'
  BY <1>1, <1>2 DEF ScrollInv, RowInv, LastPage, Serve
<1>5. ASSUME NEW r \in Ids \ moved PROVE served'[r] <= 1
  BY <1>1, <1>2 DEF ScrollInv, BehindInv, RowInv, ScrollTypeOK, Present
<1>6. BehindInv'
  BY <1>2, <1>5 DEF BehindInv
<1>7. ASSUME NEW r \in (first' \cap Present) \ moved PROVE served'[r] = 1
  <2>1. CASE r \in Matching
    BY <2>1, <1>2, <1>5, <1>7 DEF ScrollInv, ScrollTypeOK, Present
  <2>2. CASE r \notin Matching
    BY <2>2, <1>1, <1>2, <1>7 DEF LastPage, Serve, ScrollInv, AheadInv, BehindInv, RowInv, ScrollTypeOK, Present
  <2> QED
    BY <2>1, <2>2
<1>8. AheadInv'
  BY <1>2, <1>7 DEF AheadInv
<1> QED
  BY <1>3, <1>4, <1>6, <1>8 DEF ScrollInv

LEMMA OthersKeepScrollInv ==
    ASSUME NEW r \in Ids, ScrollInv, Refused \/ Insert(r) \/ Delete(r) \/ Update(r)
    PROVE  ScrollInv'
<1>1. CASE Refused
  BY <1>1 DEF Refused, Scrolling, ScrollInv, ScrollTypeOK, RowInv, BehindInv, AheadInv, Present
<1>2. CASE Insert(r)
  <2>1. PICK k \in KeysOf(r) : table' = [table EXCEPT ![r] = k]
    BY <1>2 DEF Insert
  <2>2. /\ k \in Key /\ k # Absent
        /\ Present' = Present \cup {r}
        /\ served[r] = 0
        /\ r \notin first
        /\ UNCHANGED <<query, cursor, served, first, moved, gone, scroll>>
        /\ scroll = "more"
    BY <1>2, <2>1, AbsentAssumption DEF Insert, KeysOf, Present, ScrollInv, ScrollTypeOK, RowInv
  <2> QED
    BY <2>1, <2>2, <1>2 DEF Insert, ScrollInv, ScrollTypeOK, RowInv, BehindInv, AheadInv, Present
<1>3. CASE Delete(r)
  BY <1>3, AbsentAssumption DEF Delete, ScrollInv, ScrollTypeOK, RowInv, BehindInv, AheadInv, Present
<1>4. CASE Update(r)
  BY <1>4, AbsentAssumption DEF Update, KeysOf, ScrollInv, ScrollTypeOK, RowInv, BehindInv, AheadInv, Present
<1> QED
  BY <1>1, <1>2, <1>3, <1>4

(* The inductive invariant holds in every reachable state. *)
THEOREM ScrollInvariance == ScrollSpec => []ScrollInv
<1>1. ScrollInv /\ [ScrollNext]_scrollVars => ScrollInv'
  <2>1. ScrollInv /\ UNCHANGED scrollVars => ScrollInv'
    BY DEF scrollVars, ScrollInv, ScrollTypeOK, RowInv, BehindInv, AheadInv, Present
  <2>2. ScrollInv /\ Refused => ScrollInv'
    BY DEF Refused, Scrolling, ScrollInv, ScrollTypeOK, RowInv, BehindInv, AheadInv, Present
  <2> QED
    BY <2>1, <2>2, PageKeepsScrollInv, LastPageKeepsScrollInv, OthersKeepScrollInv DEF ScrollNext
<1> QED
  BY <1>1, ScrollInvInit, PTL DEF ScrollSpec

(* Every variable keeps its type. *)
THEOREM ScrollTypeCorrectness == ScrollSpec => []ScrollTypeOK
<1>1. ScrollInv => ScrollTypeOK
  BY DEF ScrollInv
<1> QED
  BY <1>1, ScrollInvariance, PTL

(* crud.py paginate_scroll: no page repeats a row that stayed put.         *)
THEOREM ScrollRepeatsNothing == ScrollSpec => []NothingTwice
<1>1. ScrollInv => NothingTwice
  BY DEF ScrollInv, BehindInv, NothingTwice
<1> QED
  BY <1>1, ScrollInvariance, PTL

(* crud.py paginate_scroll: a scroll that ends has served every row that   *)
(* was there all along.                                                    *)
THEOREM ScrollSkipsNothing == ScrollSpec => []NothingSkipped
<1>1. ScrollInv => NothingSkipped
  BY DEF ScrollInv, AheadInv, NothingSkipped
<1> QED
  BY <1>1, ScrollInvariance, PTL
=============================================================================
