---------------------------- MODULE AdvisoryLock ----------------------------
(***************************************************************************)
(* Session-level advisory locks on pooled connections                      *)
(* (src/src/forktex/database/locks.py: advisory_lock, try_advisory_lock,   *)
(* _release).                                                              *)
(*                                                                         *)
(* Postgres keeps such a lock with the backend, counts how often that      *)
(* backend took it, and drops it only on unlock or when the backend ends;  *)
(* a pool's rollback on return leaves it held.  A task is one use of the   *)
(* context manager at a time; a connection is a slot of the pool, and a    *)
(* connection invalidated gives the slot a new backend.                    *)
(***************************************************************************)
EXTENDS Naturals, FiniteSets

CONSTANTS
    Tasks,       \* coroutines that take locks
    Conns,       \* slots of the connection pool
    Keys,        \* lock keys
    NoConn,      \* a task that has no connection
    Nobody,      \* a key no backend holds
    MaxDeaths    \* bound: backends that end by themselves

ASSUME TasksAssumption == Nobody \notin Tasks /\ "pool" \notin Tasks
ASSUME ConnsAssumption == NoConn \notin Conns
ASSUME KeysAssumption == Keys # {}
ASSUME DeathsAssumption == MaxDeaths \in Nat

VARIABLES
    pc,      \* where each task stands
    conn,    \* the connection each task has checked out
    key,     \* the key it asks for
    mode,    \* "wait": advisory_lock, "try": try_advisory_lock
    got,     \* did it get the lock
    pool,    \* connections checked in
    held,    \* times each backend took each key and did not give it back
    work,    \* transaction on each connection: "none", "pending" writes of the block, "aborted"
    stray,   \* work a block left uncommitted was committed
    deaths   \* backends that ended by themselves

vars == <<pc, conn, key, mode, got, pool, held, work, stray, deaths>>
task == <<conn, key, mode, got>>

PC == {"out", "lock", "settle", "block", "rollback", "unlock", "commit", "return"}

TypeOK ==
    /\ pc \in [Tasks -> PC]
    /\ conn \in [Tasks -> Conns \cup {NoConn}]
    /\ key \in [Tasks -> Keys]
    /\ mode \in [Tasks -> {"wait", "try"}]
    /\ got \in [Tasks -> BOOLEAN]
    /\ pool \in SUBSET Conns
    /\ held \in [Conns -> [Keys -> Nat]]
    /\ work \in [Conns -> {"none", "pending", "aborted"}]
    /\ stray \in BOOLEAN
    /\ deaths \in Nat

(* The key of a task that asks for none. *)
AnyKey == CHOOSE k \in Keys : TRUE

Init ==
    /\ pc = [t \in Tasks |-> "out"]
    /\ conn = [t \in Tasks |-> NoConn]
    /\ key = [t \in Tasks |-> AnyKey]
    /\ mode = [t \in Tasks |-> "wait"]
    /\ got = [t \in Tasks |-> FALSE]
    /\ pool = Conns
    /\ held = [c \in Conns |-> [k \in Keys |-> 0]]
    /\ work = [c \in Conns |-> "none"]
    /\ stray = FALSE
    /\ deaths = 0

GoTo(t, where) == pc' = [pc EXCEPT ![t] = where]
(* A backend may take a key that no other backend holds: its own too. *)
CanLock(c, k) == \A d \in Conns \ {c} : held[d][k] = 0
Broken(t) == conn[t] # NoConn /\ work[conn[t]] = "aborted"
SetWork(t, w) == work' = [work EXCEPT ![conn[t]] = w]
(* conn.invalidate(): the backend ends, with its locks and its transaction. *)
Invalidate(c) ==
    /\ held' = [held EXCEPT ![c] = [k \in Keys |-> 0]]
    /\ work' = [work EXCEPT ![c] = "none"]
CheckIn(t) ==
    /\ pool' = pool \cup {conn[t]}
    /\ conn' = [conn EXCEPT ![t] = NoConn]
    /\ key' = [key EXCEPT ![t] = AnyKey]
    /\ mode' = [mode EXCEPT ![t] = "wait"]
    /\ got' = [got EXCEPT ![t] = FALSE]
    /\ GoTo(t, "out")

-----------------------------------------------------------------------------
(* engine.connect(). *)
Enter(t, c, k, m) ==
    /\ pc[t] = "out"
    /\ c \in pool
    /\ pool' = pool \ {c}
    /\ conn' = [conn EXCEPT ![t] = c]
    /\ key' = [key EXCEPT ![t] = k]
    /\ mode' = [mode EXCEPT ![t] = m]
    /\ GoTo(t, "lock")
    /\ UNCHANGED <<got, held, work, stray, deaths>>

(* pg_advisory_lock returns, or pg_try_advisory_lock returns true. *)
Grant(t) ==
    /\ pc[t] = "lock"
    /\ work[conn[t]] # "aborted"
    /\ CanLock(conn[t], key[t])
    /\ held' = [held EXCEPT ![conn[t]][key[t]] = @ + 1]
    /\ got' = [got EXCEPT ![t] = TRUE]
    /\ GoTo(t, "settle")
    /\ UNCHANGED <<conn, key, mode, pool, work, stray, deaths>>

(* pg_try_advisory_lock returns false. *)
Refuse(t) ==
    /\ pc[t] = "lock"
    /\ mode[t] = "try"
    /\ work[conn[t]] # "aborted"
    /\ ~CanLock(conn[t], key[t])
    /\ GoTo(t, "settle")
    /\ UNCHANGED <<task, pool, held, work, stray, deaths>>

(* The commit before the block: the transaction of the lock statement ends, *)
(* the lock does not.                                                       *)
Settle(t) ==
    /\ pc[t] = "settle"
    /\ work[conn[t]] # "aborted"
    /\ GoTo(t, "block")
    /\ UNCHANGED <<task, pool, held, work, stray, deaths>>

(* Mutant: the connection of an interrupted attempt is kept as it is. *)
InterruptedKept(t) ==
    /\ pc[t] \in {"lock", "settle"}
    /\ SetWork(t, "none")
    /\ CheckIn(t)
    /\ UNCHANGED <<held, stray, deaths>>

(* The lock statement or the commit behind it fails or is cancelled, before *)
(* the try: the driver gives up the connection, its backend ends.           *)
Interrupted(t) ==
    /\ pc[t] \in {"lock", "settle"}
    /\ Invalidate(conn[t])
    /\ CheckIn(t)
    /\ UNCHANGED <<stray, deaths>>

-----------------------------------------------------------------------------
(* The block: only advisory_lock yields the connection to work on. *)
InBlock(t) == pc[t] = "block"

Write(t) ==
    /\ InBlock(t)
    /\ mode[t] = "wait"
    /\ work[conn[t]] = "none"
    /\ SetWork(t, "pending")
    /\ UNCHANGED <<pc, task, pool, held, stray, deaths>>

(* The block commits what it wrote, or rolls it back. *)
BlockSettles(t) ==
    /\ InBlock(t)
    /\ mode[t] = "wait"
    /\ work[conn[t]] # "none"
    /\ SetWork(t, "none")
    /\ UNCHANGED <<pc, task, pool, held, stray, deaths>>

StatementFails(t) ==
    /\ InBlock(t)
    /\ mode[t] = "wait"
    /\ SetWork(t, "aborted")
    /\ UNCHANGED <<pc, task, pool, held, stray, deaths>>

(* Mutant: no finally, a block that raised does not release. *)
ExitUnguarded(t) ==
    /\ InBlock(t)
    /\ GoTo(t, IF got[t] /\ work[conn[t]] # "aborted" THEN "rollback" ELSE "return")
    /\ UNCHANGED <<task, pool, held, work, stray, deaths>>

(* The block ends, by its last statement, an exception or a cancellation. *)
Exit(t) ==
    /\ InBlock(t)
    /\ GoTo(t, IF got[t] THEN "rollback" ELSE "return")
    /\ UNCHANGED <<task, pool, held, work, stray, deaths>>

-----------------------------------------------------------------------------
(* Mutant: the unlock without the rollback before it. *)
NoRollback(t) ==
    /\ pc[t] = "rollback"
    /\ GoTo(t, "unlock")
    /\ UNCHANGED <<task, pool, held, work, stray, deaths>>

(* _discard_pending_work_and_unlock, one statement at a time. *)
Rollback(t) ==
    /\ pc[t] = "rollback"
    /\ SetWork(t, "none")
    /\ GoTo(t, "unlock")
    /\ UNCHANGED <<task, pool, held, stray, deaths>>

(* On a new backend that holds nothing pg_advisory_unlock returns false. *)
Unlock(t) ==
    /\ pc[t] = "unlock"
    /\ work[conn[t]] # "aborted"
    /\ held' = [held EXCEPT ![conn[t]][key[t]] = IF @ = 0 THEN 0 ELSE @ - 1]
    /\ GoTo(t, "commit")
    /\ UNCHANGED <<task, pool, work, stray, deaths>>

Commit(t) ==
    /\ pc[t] = "commit"
    /\ work[conn[t]] # "aborted"
    /\ stray' = (stray \/ work[conn[t]] = "pending")
    /\ SetWork(t, "none")
    /\ GoTo(t, "return")
    /\ UNCHANGED <<task, pool, held, deaths>>

(* Mutant: the failure is logged and the connection kept. *)
ReleaseFailureLogged(t) ==
    /\ pc[t] \in {"rollback", "unlock", "commit"}
    /\ GoTo(t, "return")
    /\ UNCHANGED <<task, pool, held, work, stray, deaths>>

(* One of the three raises: _release closes the connection. *)
ReleaseFails(t) ==
    /\ pc[t] \in {"rollback", "unlock", "commit"}
    /\ Invalidate(conn[t])
    /\ GoTo(t, "return")
    /\ UNCHANGED <<task, pool, stray, deaths>>

(* The connection goes back to the pool, which rolls it back. *)
Return(t) ==
    /\ pc[t] = "return"
    /\ SetWork(t, "none")
    /\ CheckIn(t)
    /\ UNCHANGED <<held, stray, deaths>>

(* A backend ends by itself: the next statement on it raises. *)
BackendDies(c) ==
    /\ deaths < MaxDeaths
    /\ held' = [held EXCEPT ![c] = [k \in Keys |-> 0]]
    /\ work' = [work EXCEPT ![c] = IF c \in pool THEN "none" ELSE "aborted"]
    /\ deaths' = deaths + 1
    /\ UNCHANGED <<pc, task, pool, stray>>

(* What the library and the database do, apart from the block itself. *)
Proceed(t) ==
    \/ Grant(t) \/ Refuse(t) \/ Settle(t) \/ Interrupted(t)
    \/ Rollback(t) \/ Unlock(t) \/ Commit(t) \/ ReleaseFails(t) \/ Return(t)

Block(t) == Write(t) \/ BlockSettles(t) \/ StatementFails(t) \/ Exit(t)

Next ==
    \/ \E t \in Tasks :
           \/ \E c \in Conns, k \in Keys, m \in {"wait", "try"} : Enter(t, c, k, m)
           \/ Proceed(t) \/ Block(t)
    \/ \E c \in Conns : BackendDies(c)

Spec == Init /\ [][Next]_vars

(* Statements return, blocks end, and Postgres serves waiters in order. *)
Fairness ==
    \A t \in Tasks :
        /\ SF_vars(Grant(t)) /\ WF_vars(Exit(t))
        /\ WF_vars(Settle(t) \/ Refuse(t) \/ Rollback(t) \/ Unlock(t) \/ Commit(t)
                     \/ Return(t))
        /\ WF_vars(Broken(t) /\ (Interrupted(t) \/ ReleaseFails(t)))
FairSpec == Spec /\ Fairness

-----------------------------------------------------------------------------
(* A connection waiting in the pool holds no lock and no transaction: a    *)
(* lock left on one would be shut for everybody but the task that happens  *)
(* to draw it (_release closes a connection it cannot unlock).             *)
PooledHoldNothing ==
    \A c \in pool : work[c] = "none" /\ \A k \in Keys : held[c][k] = 0

(* Two tasks that got the same key are not in their blocks together, as    *)
(* long as no backend ended under one of them.                             *)
MutualExclusion ==
    deaths = 0 => \A t, u \in Tasks :
        InBlock(t) /\ InBlock(u) /\ got[t] /\ got[u] /\ key[t] = key[u] => t = u

(* "anything uncommitted on it inside the block is rolled back when the    *)
(* lock is released" (docs/database.md:342).                               *)
UncommittedIsRolledBack == ~stray

(* A task that waits for a key gets it in the end, or an error. *)
WaiterIsServed == \A t \in Tasks : pc[t] = "lock" ~> pc[t] # "lock"

-----------------------------------------------------------------------------
(* Seen from outside, a key is held by the task whose connection holds it. *)
Holder(k) ==
    IF \A c \in Conns : held[c][k] = 0 THEN Nobody
    ELSE LET owners == {t \in Tasks : conn[t] # NoConn /\ key[t] = k /\ got[t]
                                        /\ held[conn[t]][k] > 0}
         IN  IF owners = {} THEN "pool" ELSE CHOOSE t \in owners : TRUE

(* The pooled, counted, per-backend locks implement the abstract lock.     *)
M == INSTANCE Mutex WITH Holders <- Tasks, holder <- [k \in Keys |-> Holder(k)]
ImplementsMutex == M!Spec
=============================================================================
