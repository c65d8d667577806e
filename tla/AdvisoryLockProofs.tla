------------------------- MODULE AdvisoryLockProofs -------------------------
(***************************************************************************)
(* Machine-checked facts about AdvisoryLock, for any tasks, pool and keys  *)
(* and any number of backends that end.                                    *)
(***************************************************************************)
EXTENDS AdvisoryLock, TLAPS

(* A connection is in the pool or with one task. *)
ConnInv ==
    /\ \A t \in Tasks : conn[t] = NoConn <=> pc[t] = "out"
    /\ \A t, u \in Tasks : conn[t] = conn[u] /\ conn[t] # NoConn => t = u
    /\ \A t \in Tasks : conn[t] \notin pool

Holding == {"settle", "block", "rollback", "unlock"}

(* A lock is held once, by one backend, for the task that asked for it. *)
HeldInv ==
    /\ \A c \in Conns, k \in Keys : held[c][k] # 0 =>
           /\ held[c][k] = 1
           /\ \E t \in Tasks : /\ conn[t] = c
                               /\ key[t] = k
                               /\ got[t]
                               /\ pc[t] \in Holding
    /\ \A c, d \in Conns, k \in Keys : held[c][k] # 0 /\ held[d][k] # 0 => c = d
    /\ \A t \in Tasks : pc[t] \in {"out", "lock"} => ~got[t]
    /\ deaths = 0 => \A t \in Tasks :
           got[t] /\ pc[t] \in Holding => held[conn[t]][key[t]] # 0

(* Around the block there is nothing to commit. *)
WorkInv ==
    /\ \A c \in pool : work[c] = "none"
    /\ \A t \in Tasks : pc[t] \in {"lock", "settle", "unlock", "commit"}
           => work[conn[t]] # "pending"
    /\ ~stray

IInv == TypeOK /\ ConnInv /\ HeldInv /\ WorkInv

LEMMA AnyKeyType == AnyKey \in Keys
BY KeysAssumption DEF AnyKey

LEMMA InitIInv == Init => IInv
<1> SUFFICES ASSUME Init PROVE IInv
  OBVIOUS
<1> USE ConnsAssumption, DeathsAssumption, AnyKeyType DEF Init
<1>1. TypeOK
  BY DEF TypeOK, PC
<1>2. ConnInv /\ HeldInv /\ WorkInv
  BY DEF ConnInv, HeldInv, WorkInv, Holding
<1>3. QED
  BY <1>1, <1>2 DEF IInv

(* A task inside the context manager has a connection of its own. *)
LEMMA OwnConn ==
    ASSUME TypeOK, ConnInv, NEW t \in Tasks, pc[t] # "out"
    PROVE  /\ conn[t] \in Conns
           /\ conn[t] \notin pool
           /\ \A u \in Tasks : u # t => conn[u] # conn[t]
BY DEF TypeOK, ConnInv

LEMMA NextIInv == IInv /\ [Next]_vars => IInv'
<1> SUFFICES ASSUME IInv, [Next]_vars PROVE IInv'
  OBVIOUS
<1> USE ConnsAssumption, DeathsAssumption, AnyKeyType DEF IInv
<1>1. CASE UNCHANGED vars
  BY <1>1 DEF vars, TypeOK, ConnInv, HeldInv, WorkInv
<1>2. ASSUME NEW t \in Tasks, NEW c \in Conns, NEW k \in Keys, NEW m \in {"wait", "try"}, Enter(t, c, k, m)
      PROVE  IInv'
  <2>1. TypeOK'
    BY <1>2 DEF Enter, GoTo, TypeOK, PC
  <2>2. ConnInv'
    BY <1>2 DEF Enter, GoTo, TypeOK, ConnInv
  <2>3. HeldInv'
    BY <1>2 DEF Enter, GoTo, TypeOK, ConnInv, HeldInv, Holding
  <2>4. WorkInv'
    BY <1>2 DEF Enter, GoTo, TypeOK, ConnInv, WorkInv
  <2>5. QED
    BY <2>1, <2>2, <2>3, <2>4
<1>3. ASSUME NEW t \in Tasks, Grant(t)
      PROVE  IInv'
  <2>0. conn[t] \in Conns /\ conn[t] \notin pool /\ \A u \in Tasks : u # t => conn[u] # conn[t]
    BY <1>3, OwnConn DEF Grant
  <2>1. TypeOK'
    BY <1>3, <2>0 DEF Grant, GoTo, TypeOK, PC
  <2>2. ConnInv'
    BY <1>3, <2>0 DEF Grant, GoTo, TypeOK, ConnInv
  <2>3. HeldInv'
    BY <1>3, <2>0 DEF Grant, GoTo, TypeOK, ConnInv, HeldInv, Holding, CanLock
  <2>4. WorkInv'
    BY <1>3, <2>0 DEF Grant, GoTo, TypeOK, ConnInv, WorkInv
  <2>5. QED
    BY <2>1, <2>2, <2>3, <2>4
<1>4. ASSUME NEW t \in Tasks, Refuse(t)
      PROVE  IInv'
  <2>0. conn[t] \in Conns /\ conn[t] \notin pool /\ \A u \in Tasks : u # t => conn[u] # conn[t]
    BY <1>4, OwnConn DEF Refuse
  <2>1. TypeOK'
    BY <1>4, <2>0 DEF Refuse, GoTo, task, TypeOK, PC
  <2>2. ConnInv'
    BY <1>4, <2>0 DEF Refuse, GoTo, task, TypeOK, ConnInv
  <2>3. HeldInv'
    BY <1>4, <2>0 DEF Refuse, GoTo, task, TypeOK, ConnInv, HeldInv, Holding, CanLock
  <2>4. WorkInv'
    BY <1>4, <2>0 DEF Refuse, GoTo, task, TypeOK, ConnInv, WorkInv
  <2>5. QED
    BY <2>1, <2>2, <2>3, <2>4
<1>5. ASSUME NEW t \in Tasks, Settle(t)
      PROVE  IInv'
  <2>0. conn[t] \in Conns /\ conn[t] \notin pool /\ \A u \in Tasks : u # t => conn[u] # conn[t]
    BY <1>5, OwnConn DEF Settle
  <2>1. TypeOK'
    BY <1>5, <2>0 DEF Settle, GoTo, task, TypeOK, PC
  <2>2. ConnInv'
    BY <1>5, <2>0 DEF Settle, GoTo, task, TypeOK, ConnInv
  <2>3. HeldInv'
    BY <1>5, <2>0 DEF Settle, GoTo, task, TypeOK, ConnInv, HeldInv, Holding
  <2>4. WorkInv'
    BY <1>5, <2>0 DEF Settle, GoTo, task, TypeOK, ConnInv, WorkInv
  <2>5. QED
    BY <2>1, <2>2, <2>3, <2>4
<1>6. ASSUME NEW t \in Tasks, Interrupted(t)
      PROVE  IInv'
  <2>0. conn[t] \in Conns /\ conn[t] \notin pool /\ \A u \in Tasks : u # t => conn[u] # conn[t]
    BY <1>6, OwnConn DEF Interrupted
  <2>1. TypeOK'
    BY <1>6, <2>0 DEF Interrupted, GoTo, CheckIn, Invalidate, TypeOK, PC
  <2>2. ConnInv'
    BY <1>6, <2>0 DEF Interrupted, GoTo, CheckIn, Invalidate, TypeOK, ConnInv
  <2>3. HeldInv'
    BY <1>6, <2>0 DEF Interrupted, GoTo, CheckIn, Invalidate, TypeOK, ConnInv, HeldInv, Holding
  <2>4. WorkInv'
    BY <1>6, <2>0 DEF Interrupted, GoTo, CheckIn, Invalidate, TypeOK, ConnInv, WorkInv
  <2>5. QED
    BY <2>1, <2>2, <2>3, <2>4
<1>7. ASSUME NEW t \in Tasks, Write(t)
      PROVE  IInv'
  <2>0. conn[t] \in Conns /\ conn[t] \notin pool /\ \A u \in Tasks : u # t => conn[u] # conn[t]
    BY <1>7, OwnConn DEF Write, InBlock
  <2>1. TypeOK'
    BY <1>7, <2>0 DEF Write, SetWork, InBlock, task, TypeOK, PC
  <2>2. ConnInv'
    BY <1>7, <2>0 DEF Write, SetWork, InBlock, task, TypeOK, ConnInv
  <2>3. HeldInv'
    BY <1>7, <2>0 DEF Write, SetWork, InBlock, task, TypeOK, ConnInv, HeldInv, Holding
  <2>4. WorkInv'
    BY <1>7, <2>0 DEF Write, SetWork, InBlock, task, TypeOK, ConnInv, WorkInv
  <2>5. QED
    BY <2>1, <2>2, <2>3, <2>4
<1>8. ASSUME NEW t \in Tasks, BlockSettles(t)
      PROVE  IInv'
  <2>0. conn[t] \in Conns /\ conn[t] \notin pool /\ \A u \in Tasks : u # t => conn[u] # conn[t]
    BY <1>8, OwnConn DEF BlockSettles, InBlock
  <2>1. TypeOK'
    BY <1>8, <2>0 DEF BlockSettles, SetWork, InBlock, task, TypeOK, PC
  <2>2. ConnInv'
    BY <1>8, <2>0 DEF BlockSettles, SetWork, InBlock, task, TypeOK, ConnInv
  <2>3. HeldInv'
    BY <1>8, <2>0 DEF BlockSettles, SetWork, InBlock, task, TypeOK, ConnInv, HeldInv, Holding
  <2>4. WorkInv'
    BY <1>8, <2>0 DEF BlockSettles, SetWork, InBlock, task, TypeOK, ConnInv, WorkInv
  <2>5. QED
    BY <2>1, <2>2, <2>3, <2>4
<1>9. ASSUME NEW t \in Tasks, StatementFails(t)
      PROVE  IInv'
  <2>0. conn[t] \in Conns /\ conn[t] \notin pool /\ \A u \in Tasks : u # t => conn[u] # conn[t]
    BY <1>9, OwnConn DEF StatementFails, InBlock
  <2>1. TypeOK'
    BY <1>9, <2>0 DEF StatementFails, SetWork, InBlock, task, TypeOK, PC
  <2>2. ConnInv'
    BY <1>9, <2>0 DEF StatementFails, SetWork, InBlock, task, TypeOK, ConnInv
  <2>3. HeldInv'
    BY <1>9, <2>0 DEF StatementFails, SetWork, InBlock, task, TypeOK, ConnInv, HeldInv, Holding
  <2>4. WorkInv'
    BY <1>9, <2>0 DEF StatementFails, SetWork, InBlock, task, TypeOK, ConnInv, WorkInv
  <2>5. QED
    BY <2>1, <2>2, <2>3, <2>4
<1>10. ASSUME NEW t \in Tasks, Exit(t)
      PROVE  IInv'
  <2>0. conn[t] \in Conns /\ conn[t] \notin pool /\ \A u \in Tasks : u # t => conn[u] # conn[t]
    BY <1>10, OwnConn DEF Exit, InBlock
  <2>1. TypeOK'
    BY <1>10, <2>0 DEF Exit, GoTo, InBlock, task, TypeOK, PC
  <2>2. ConnInv'
    BY <1>10, <2>0 DEF Exit, GoTo, InBlock, task, TypeOK, ConnInv
  <2>3. HeldInv'
    BY <1>10, <2>0 DEF Exit, GoTo, InBlock, task, TypeOK, ConnInv, HeldInv, Holding
  <2>4. WorkInv'
    BY <1>10, <2>0 DEF Exit, GoTo, InBlock, task, TypeOK, ConnInv, WorkInv
  <2>5. QED
    BY <2>1, <2>2, <2>3, <2>4
<1>11. ASSUME NEW t \in Tasks, Rollback(t)
      PROVE  IInv'
  <2>0. conn[t] \in Conns /\ conn[t] \notin pool /\ \A u \in Tasks : u # t => conn[u] # conn[t]
    BY <1>11, OwnConn DEF Rollback
  <2>1. TypeOK'
    BY <1>11, <2>0 DEF Rollback, GoTo, SetWork, task, TypeOK, PC
  <2>2. ConnInv'
    BY <1>11, <2>0 DEF Rollback, GoTo, SetWork, task, TypeOK, ConnInv
  <2>3. HeldInv'
    BY <1>11, <2>0 DEF Rollback, GoTo, SetWork, task, TypeOK, ConnInv, HeldInv, Holding
  <2>4. WorkInv'
    BY <1>11, <2>0 DEF Rollback, GoTo, SetWork, task, TypeOK, ConnInv, WorkInv
  <2>5. QED
    BY <2>1, <2>2, <2>3, <2>4
<1>12. ASSUME NEW t \in Tasks, Unlock(t)
      PROVE  IInv'
  <2>0. conn[t] \in Conns /\ conn[t] \notin pool /\ \A u \in Tasks : u # t => conn[u] # conn[t]
    BY <1>12, OwnConn DEF Unlock
  <2>1. TypeOK'
    <3>1. key[t] \in Keys /\ held[conn[t]][key[t]] \in Nat
      BY <2>0 DEF TypeOK
    <3>2. (IF held[conn[t]][key[t]] = 0 THEN 0 ELSE held[conn[t]][key[t]] - 1) \in Nat
      BY <3>1
    <3>3. held' \in [Conns -> [Keys -> Nat]]
      BY <1>12, <2>0, <3>1, <3>2 DEF Unlock, TypeOK
    <3>4. QED
      BY <1>12, <3>3 DEF Unlock, GoTo, task, TypeOK, PC
  <2>2. ConnInv'
    BY <1>12, <2>0 DEF Unlock, GoTo, task, TypeOK, ConnInv
  <2>3. HeldInv'
    BY <1>12, <2>0 DEF Unlock, GoTo, task, TypeOK, ConnInv, HeldInv, Holding
  <2>4. WorkInv'
    BY <1>12, <2>0 DEF Unlock, GoTo, task, TypeOK, ConnInv, WorkInv
  <2>5. QED
    BY <2>1, <2>2, <2>3, <2>4
<1>13. ASSUME NEW t \in Tasks, Commit(t)
      PROVE  IInv'
  <2>0. conn[t] \in Conns /\ conn[t] \notin pool /\ \A u \in Tasks : u # t => conn[u] # conn[t]
    BY <1>13, OwnConn DEF Commit
  <2>1. TypeOK'
    BY <1>13, <2>0 DEF Commit, GoTo, SetWork, task, TypeOK, PC
  <2>2. ConnInv'
    BY <1>13, <2>0 DEF Commit, GoTo, SetWork, task, TypeOK, ConnInv
  <2>3. HeldInv'
    BY <1>13, <2>0 DEF Commit, GoTo, SetWork, task, TypeOK, ConnInv, HeldInv, Holding
  <2>4. WorkInv'
    BY <1>13, <2>0 DEF Commit, GoTo, SetWork, task, TypeOK, ConnInv, WorkInv
  <2>5. QED
    BY <2>1, <2>2, <2>3, <2>4
<1>14. ASSUME NEW t \in Tasks, ReleaseFails(t)
      PROVE  IInv'
  <2>0. conn[t] \in Conns /\ conn[t] \notin pool /\ \A u \in Tasks : u # t => conn[u] # conn[t]
    BY <1>14, OwnConn DEF ReleaseFails
  <2>1. TypeOK'
    BY <1>14, <2>0 DEF ReleaseFails, GoTo, Invalidate, task, TypeOK, PC
  <2>2. ConnInv'
    BY <1>14, <2>0 DEF ReleaseFails, GoTo, Invalidate, task, TypeOK, ConnInv
  <2>3. HeldInv'
    BY <1>14, <2>0 DEF ReleaseFails, GoTo, Invalidate, task, TypeOK, ConnInv, HeldInv, Holding
  <2>4. WorkInv'
    BY <1>14, <2>0 DEF ReleaseFails, GoTo, Invalidate, task, TypeOK, ConnInv, WorkInv
  <2>5. QED
    BY <2>1, <2>2, <2>3, <2>4
<1>15. ASSUME NEW t \in Tasks, Return(t)
      PROVE  IInv'
  <2>0. conn[t] \in Conns /\ conn[t] \notin pool /\ \A u \in Tasks : u # t => conn[u] # conn[t]
    BY <1>15, OwnConn DEF Return
  <2>1. TypeOK'
    BY <1>15, <2>0 DEF Return, GoTo, SetWork, CheckIn, TypeOK, PC
  <2>2. ConnInv'
    BY <1>15, <2>0 DEF Return, GoTo, SetWork, CheckIn, TypeOK, ConnInv
  <2>3. HeldInv'
    BY <1>15, <2>0 DEF Return, GoTo, SetWork, CheckIn, TypeOK, ConnInv, HeldInv, Holding
  <2>4. WorkInv'
    BY <1>15, <2>0 DEF Return, GoTo, SetWork, CheckIn, TypeOK, ConnInv, WorkInv
  <2>5. QED
    BY <2>1, <2>2, <2>3, <2>4
<1>16. ASSUME NEW c \in Conns, BackendDies(c)
      PROVE  IInv'
  <2>1. TypeOK'
    BY <1>16 DEF BackendDies, task, TypeOK, PC
  <2>2. ConnInv'
    BY <1>16 DEF BackendDies, task, TypeOK, ConnInv
  <2>3. HeldInv'
    BY <1>16 DEF BackendDies, task, TypeOK, ConnInv, HeldInv, Holding
  <2>4. WorkInv'
    BY <1>16 DEF BackendDies, task, TypeOK, ConnInv, WorkInv
  <2>5. QED
    BY <2>1, <2>2, <2>3, <2>4
<1>17. QED
  BY <1>1, <1>2, <1>3, <1>4, <1>5, <1>6, <1>7, <1>8, <1>9, <1>10, <1>11, <1>12, <1>13, <1>14, <1>15, <1>16
     DEF Next, Proceed, Block

(* The inductive invariant holds of every behaviour. *)
THEOREM Invariance == Spec => []IInv
BY InitIInv, NextIInv, PTL DEF Spec

(* Every variable keeps to its type. *)
THEOREM TypeCorrectness == Spec => []TypeOK
BY Invariance, PTL DEF IInv

(* No lock and no transaction is ever left on a pooled connection, however *)
(* releases fail and blocks are cancelled (_release).                      *)
THEOREM PoolIsClean == Spec => []PooledHoldNothing
<1>1. IInv => PooledHoldNothing
  BY DEF IInv, TypeOK, ConnInv, HeldInv, WorkInv, PooledHoldNothing
<1>2. QED
  BY <1>1, Invariance, PTL

(* While no backend ends by itself, one task at a time is inside the block *)
(* of a key (advisory_lock, try_advisory_lock).                            *)
THEOREM Exclusion == Spec => []MutualExclusion
<1>1. IInv => MutualExclusion
  BY ConnsAssumption
     DEF IInv, TypeOK, ConnInv, HeldInv, Holding, MutualExclusion, InBlock
<1>2. QED
  BY <1>1, Invariance, PTL

(* What a block leaves uncommitted is never committed by its release       *)
(* (_discard_pending_work_and_unlock).                                     *)
THEOREM UncommittedIsDiscarded == Spec => []UncommittedIsRolledBack
<1>1. IInv => UncommittedIsRolledBack
  BY DEF IInv, WorkInv, UncommittedIsRolledBack
<1>2. QED
  BY <1>1, Invariance, PTL

-----------------------------------------------------------------------------
(* The refinement: who holds a key is read off the connections. *)
Owns(t, k) ==
    /\ conn[t] # NoConn
    /\ key[t] = k
    /\ got[t]
    /\ held[conn[t]][k] # 0

LEMMA OwnerIsHolder ==
    ASSUME IInv, NEW k \in Keys, NEW t \in Tasks, Owns(t, k)
    PROVE  Holder(k) = t
<1> DEFINE owners == {u \in Tasks : conn[u] # NoConn /\ key[u] = k /\ got[u]
                                       /\ held[conn[u]][k] > 0}
<1>1. conn[t] \in Conns /\ ~(\A c \in Conns : held[c][k] = 0)
  BY DEF IInv, TypeOK, Owns
<1>2. \A u \in Tasks : u \in owners <=> u = t
  BY <1>1 DEF IInv, TypeOK, ConnInv, HeldInv, Owns
<1>3. owners = {t}
  BY <1>2
<1>4. QED
  BY <1>1, <1>3 DEF Holder

LEMMA UnownedIsFree ==
    ASSUME IInv, NEW k \in Keys, \A t \in Tasks : ~Owns(t, k)
    PROVE  Holder(k) = Nobody
<1>1. \A c \in Conns : held[c][k] = 0
  BY ConnsAssumption DEF IInv, HeldInv, Owns
<1>2. QED
  BY <1>1 DEF Holder

HolderFact ==
    \A k \in Keys :
        /\ \A t \in Tasks : Owns(t, k) => Holder(k) = t
        /\ (\A t \in Tasks : ~Owns(t, k)) => Holder(k) = Nobody

LEMMA HolderIsOwner == IInv => HolderFact
BY OwnerIsHolder, UnownedIsFree DEF HolderFact

LEMMA HolderIsOwnerNext == IInv' => HolderFact'
BY HolderIsOwner, PTL

HolderNow == [k \in Keys |-> Holder(k)]

(* A step that leaves the owners of a key alone leaves its holder alone. *)
LEMMA SameOwners ==
    ASSUME IInv, IInv', NEW k \in Keys, \A t \in Tasks : Owns(t, k)' <=> Owns(t, k)
    PROVE  Holder(k)' = Holder(k)
<1>1. HolderFact /\ HolderFact'
  BY HolderIsOwner, HolderIsOwnerNext
<1>2. CASE \E t \in Tasks : Owns(t, k)
  BY <1>1, <1>2 DEF HolderFact
<1>3. CASE \A t \in Tasks : ~Owns(t, k)
  BY <1>1, <1>3 DEF HolderFact
<1>4. QED
  BY <1>2, <1>3

LEMMA SameOwnersStutter ==
    ASSUME IInv, IInv', \A k \in Keys, t \in Tasks : Owns(t, k)' <=> Owns(t, k)
    PROVE  HolderNow' = HolderNow
BY SameOwners DEF HolderNow

(* A step after which a task owns nothing, others as before, frees or stutters. *)
LEMMA LosesOwner ==
    ASSUME IInv, IInv', NEW t \in Tasks,
           \A k \in Keys : ~Owns(t, k)',
           \A k \in Keys, u \in Tasks : u # t => (Owns(u, k)' <=> Owns(u, k))
    PROVE  [M!Next]_HolderNow
<1>1. HolderFact /\ HolderFact'
  BY HolderIsOwner, HolderIsOwnerNext
<1>2. CASE \E k \in Keys : Owns(t, k)
  <2>1. PICK k \in Keys : Owns(t, k)
    BY <1>2
  <2>2. \A j \in Keys : j # k => ~Owns(t, j)
    BY <2>1 DEF Owns
  <2>3. \A j \in Keys : j # k => Holder(j)' = Holder(j)
    BY <2>2, SameOwners
  <2>4. \A u \in Tasks : u # t => ~Owns(u, k)
    BY <1>1, <2>1 DEF HolderFact
  <2>5. Holder(k) = t /\ Holder(k)' = Nobody
    BY <1>1, <2>1, <2>4 DEF HolderFact
  <2>6. M!Free(k)
    BY <2>3, <2>5, TasksAssumption DEF M!Free, HolderNow
  <2>7. QED
    BY <2>6 DEF M!Next
<1>3. CASE \A k \in Keys : ~Owns(t, k)
  BY <1>3, SameOwnersStutter
<1>4. QED
  BY <1>2, <1>3

LEMMA GrantTakes ==
    ASSUME IInv, IInv', NEW t \in Tasks, NEW k \in Keys, k = key[t], Grant(t)
    PROVE  M!Take(t, k)
<1>1. HolderFact /\ HolderFact'
  BY HolderIsOwner, HolderIsOwnerNext
<1>2. conn[t] \in Conns /\ \A u \in Tasks : u # t => conn[u] # conn[t]
  BY OwnConn DEF IInv, Grant
<1>3. ~got[t]
  BY DEF IInv, HeldInv, Grant
<1>4. \A u \in Tasks : ~Owns(u, k)
  BY <1>2, <1>3 DEF IInv, TypeOK, ConnInv, Owns, Grant, CanLock
<1>5. Owns(t, k)'
  <2>1. held[conn[t]][k] \in Nat
    BY <1>2 DEF IInv, TypeOK
  <2>2. held'[conn[t]][k] = held[conn[t]][k] + 1
    BY <1>2 DEF IInv, TypeOK, Grant
  <2>3. conn'[t] = conn[t] /\ key'[t] = k /\ got'[t]
    BY DEF IInv, TypeOK, Grant
  <2>4. QED
    BY <1>2, <2>1, <2>2, <2>3, ConnsAssumption DEF Owns
<1>6. \A u \in Tasks, j \in Keys : j # k => (Owns(u, j)' <=> Owns(u, j))
  BY <1>2, <1>3 DEF IInv, TypeOK, ConnInv, Owns, Grant
<1>7. \A j \in Keys : j # k => Holder(j)' = Holder(j)
  BY <1>6, SameOwners
<1>8. Holder(k) = Nobody /\ Holder(k)' = t
  BY <1>1, <1>4, <1>5 DEF HolderFact
<1>9. HolderNow' = [HolderNow EXCEPT ![k] = t]
  BY <1>7, <1>8 DEF HolderNow
<1>10. QED
  BY <1>8, <1>9 DEF M!Take, HolderNow

LEMMA StepImplements ==
    ASSUME IInv, IInv', [Next]_vars
    PROVE  [M!Next]_HolderNow
<1> USE DEF IInv
<1>1. CASE UNCHANGED vars
  BY <1>1, SameOwnersStutter DEF vars, Owns
<1>2. ASSUME NEW t \in Tasks, NEW c \in Conns, NEW k \in Keys, NEW m \in {"wait", "try"},
             Enter(t, c, k, m)
      PROVE  [M!Next]_HolderNow
  <2>1. \A j \in Keys, u \in Tasks : Owns(u, j)' <=> Owns(u, j)
    BY <1>2, ConnsAssumption DEF TypeOK, ConnInv, HeldInv, Owns, Enter
  <2>2. QED
    BY <2>1, SameOwnersStutter
<1>3. ASSUME NEW t \in Tasks, Grant(t) PROVE [M!Next]_HolderNow
  <2>1. PICK k \in Keys : k = key[t]
    BY DEF TypeOK
  <2>2. QED
    BY <1>3, <2>1, GrantTakes DEF M!Next
<1>4. ASSUME NEW t \in Tasks,
             \/ Refuse(t) \/ Settle(t) \/ Write(t) \/ BlockSettles(t) \/ StatementFails(t)
             \/ Exit(t) \/ Rollback(t) \/ Commit(t)
      PROVE  [M!Next]_HolderNow
  <2>1. UNCHANGED <<conn, key, got, held>>
    BY <1>4 DEF Refuse, Settle, Write, BlockSettles, StatementFails, Exit, Rollback, Commit, task
  <2>2. QED
    BY <2>1, SameOwnersStutter DEF Owns
<1>5. ASSUME NEW t \in Tasks, Interrupted(t) \/ ReleaseFails(t) PROVE [M!Next]_HolderNow
  <2>1. conn[t] \in Conns /\ \A u \in Tasks : u # t => conn[u] # conn[t]
    BY <1>5, OwnConn DEF Interrupted, ReleaseFails
  <2>2. \A k \in Keys : ~Owns(t, k)'
    BY <1>5, <2>1 DEF TypeOK, Owns, Interrupted, ReleaseFails, Invalidate, CheckIn, task
  <2>3. \A k \in Keys, u \in Tasks : u # t => (Owns(u, k)' <=> Owns(u, k))
    BY <1>5, <2>1 DEF TypeOK, Owns, Interrupted, ReleaseFails, Invalidate, CheckIn, task
  <2>4. QED
    BY <2>2, <2>3, LosesOwner
<1>6. ASSUME NEW t \in Tasks, Unlock(t) PROVE [M!Next]_HolderNow
  <2>1. conn[t] \in Conns /\ \A u \in Tasks : u # t => conn[u] # conn[t]
    BY <1>6, OwnConn DEF Unlock
  <2>2. \A k \in Keys : ~Owns(t, k)'
    BY <1>6, <2>1 DEF TypeOK, HeldInv, Owns, Unlock, task
  <2>3. \A k \in Keys, u \in Tasks : u # t => (Owns(u, k)' <=> Owns(u, k))
    BY <1>6, <2>1 DEF TypeOK, Owns, Unlock, task
  <2>4. QED
    BY <2>2, <2>3, LosesOwner
<1>7. ASSUME NEW t \in Tasks, Return(t) PROVE [M!Next]_HolderNow
  <2>1. conn[t] \in Conns /\ \A u \in Tasks : u # t => conn[u] # conn[t]
    BY <1>7, OwnConn DEF Return
  <2>2. \A k \in Keys : ~Owns(t, k)'
    BY <1>7, <2>1 DEF TypeOK, Owns, Return, CheckIn
  <2>3. \A k \in Keys, u \in Tasks : u # t => (Owns(u, k)' <=> Owns(u, k))
    BY <1>7, <2>1 DEF TypeOK, Owns, Return, CheckIn
  <2>4. QED
    BY <2>2, <2>3, LosesOwner
<1>8. ASSUME NEW c \in Conns, BackendDies(c) PROVE [M!Next]_HolderNow
  <2>1. CASE \E t \in Tasks : conn[t] = c
    <3>1. PICK t \in Tasks : conn[t] = c
      BY <2>1
    <3>2. \A k \in Keys : ~Owns(t, k)'
      BY <1>8, <3>1 DEF TypeOK, Owns, BackendDies, task
    <3>3. \A k \in Keys, u \in Tasks : u # t => (Owns(u, k)' <=> Owns(u, k))
      BY <1>8, <3>1, ConnsAssumption DEF TypeOK, ConnInv, Owns, BackendDies, task
    <3>4. QED
      BY <3>2, <3>3, LosesOwner
  <2>2. CASE \A t \in Tasks : conn[t] # c
    <3>1. \A k \in Keys, u \in Tasks : Owns(u, k)' <=> Owns(u, k)
      BY <1>8, <2>2 DEF TypeOK, Owns, BackendDies, task
    <3>2. QED
      BY <3>1, SameOwnersStutter
  <2>3. QED
    BY <2>1, <2>2
<1>9. QED
  BY <1>1, <1>2, <1>3, <1>4, <1>5, <1>6, <1>7, <1>8 DEF Next, Proceed, Block

(* The locks kept per backend, counted and left on pooled connections,     *)
(* implement the abstract lock: one holder per key, free in between.       *)
THEOREM Refinement == Spec => ImplementsMutex
<1>1. Init => M!Init
  <2>1. ASSUME Init PROVE \A k \in Keys : Holder(k) = Nobody
    BY <2>1, InitIInv, UnownedIsFree DEF Init, Owns
  <2>2. QED
    BY <2>1 DEF M!Init
<1>2. IInv /\ IInv' /\ [Next]_vars => [M!Next]_HolderNow
  BY StepImplements
<1>3. QED
  BY <1>1, <1>2, Invariance, PTL DEF Spec, ImplementsMutex, M!Spec, HolderNow
=============================================================================
