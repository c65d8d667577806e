------------------------------ MODULE SwrCache ------------------------------
(***************************************************************************)
(* One cached function and its key in Redis                                *)
(* (src/src/forktex/cache/cache.py: fetch_or_set, fetch_swr and            *)
(* _refresh_in_background), used by several processes while the source the *)
(* function reads keeps changing.                                          *)
(*                                                                         *)
(* A fetch is one call of the function, by a request that missed or by a   *)
(* background refresh.  Time is counted from the present: how old an entry *)
(* is, how long it and the refresh lock have left, how long a fetch has    *)
(* taken.  A hit that starts no refresh changes nothing, and is no action. *)
(***************************************************************************)
EXTENDS Naturals

CONSTANTS
    Procs,      \* processes
    Requests,   \* request coroutines
    Refreshes,  \* background tasks
    ProcOf,     \* the process of each of them
    Swr,        \* fetch_swr (TRUE) or fetch_or_set (FALSE)
    TTL,        \* ttl
    StaleTTL,   \* stale_ttl
    LockTTL,    \* LOCK_TTL
    MaxFetch,   \* bound: what a fetch takes, its SETs included
    MaxWrites,  \* bound: changes of the source
    NoEntry     \* the key does not exist

Fetchers == Requests \cup Refreshes
Versions == 0..MaxWrites
Keep == IF Swr THEN StaleTTL ELSE TTL
Stages == {"none", "lock", "granted", "drop", "call", "back", "store"}
(* Ages beyond these decide nothing. *)
Old == TTL + 1
Ancient == Keep + MaxFetch + 1

ASSUME FetchersAssumption ==
    /\ Requests \cap Refreshes = {}
    /\ ProcOf \in [Fetchers -> Procs]
ASSUME TimesAssumption ==
    /\ Swr \in BOOLEAN
    /\ {TTL, StaleTTL, LockTTL, MaxFetch, MaxWrites} \subseteq Nat

Entry == [value : Versions, age : 0..Old, left : 1..Keep]
ASSUME NoEntryAssumption == NoEntry \notin Entry

Fetch == [stage : Stages, value : Versions, took : 0..MaxFetch, stamp : 0..Old]
NoFetch == [stage |-> "none", value |-> 0, took |-> 0, stamp |-> 0]

VARIABLES
    version,  \* what the function would read now
    overdue,  \* time since each version stopped being current
    entry,    \* the key: value, age by its created_at, time to live left
    lock,     \* time to live left of lock:<key>, 0 when it does not exist
    fetch,    \* of each fetcher: where it stands, what its function read, how long it
              \* has been at it (a refresh: since its lock was set in Redis), and the
              \* age of the created_at it is about to store
    tasks,    \* _background_tasks of all processes
    state     \* of each process: "up", "draining", "down"

vars == <<version, overdue, entry, lock, fetch, tasks, state>>
source == <<version, overdue>>

TypeOK ==
    /\ version \in Versions
    /\ overdue \in [Versions -> 0..Ancient]
    /\ entry \in Entry \cup {NoEntry}
    /\ lock \in 0..LockTTL
    /\ fetch \in [Fetchers -> Fetch]
    /\ tasks \in SUBSET Refreshes
    /\ state \in [Procs -> {"up", "draining", "down"}]

Init ==
    /\ version = 0
    /\ overdue = [v \in Versions |-> 0]
    /\ entry = NoEntry
    /\ lock = 0
    /\ fetch = [f \in Fetchers |-> NoFetch]
    /\ tasks = {}
    /\ state = [p \in Procs |-> "up"]

At(f, s) == fetch[f].stage = s
Active(f) == ~At(f, "none")
GoTo(f, s) == fetch' = [fetch EXCEPT ![f].stage = s]
Begun(s) == [NoFetch EXCEPT !.stage = s]
(* f is over: a background task discards itself. *)
End(f) ==
    /\ fetch' = [fetch EXCEPT ![f] = NoFetch]
    /\ tasks' = tasks \ {f}
Later(n, max) == IF n < max THEN n + 1 ELSE max

-----------------------------------------------------------------------------
(* A request. *)
Idle(q) == ~Active(q) /\ state[ProcOf[q]] = "up"
Stale == entry # NoEntry /\ entry.age > TTL

(* No entry, or GET failed, which counts as none. *)
Miss(q) ==
    /\ Idle(q)
    /\ fetch' = [fetch EXCEPT ![q] = Begun("call")]
    /\ UNCHANGED <<source, entry, lock, tasks, state>>

(* The payload does not decode: the key is deleted, then it is a miss. *)
Undecodable(q) ==
    /\ Idle(q)
    /\ entry # NoEntry
    /\ fetch' = [fetch EXCEPT ![q] = Begun("drop")]
    /\ UNCHANGED <<source, entry, lock, tasks, state>>

Drop(q) ==
    /\ At(q, "drop")
    /\ entry' \in {NoEntry, entry}
    /\ GoTo(q, "call")
    /\ UNCHANGED <<source, lock, tasks, state>>

(* Mutant: the stale entry is given more time while it is refreshed. *)
StaleHitTouches(q) ==
    /\ Swr
    /\ Idle(q)
    /\ Stale
    /\ fetch' = [fetch EXCEPT ![q] = Begun("lock")]
    /\ entry' = [entry EXCEPT !.left = Keep]
    /\ UNCHANGED <<source, lock, tasks, state>>

(* The value is stale, and will be returned: SET lock:<key> NX EX first. *)
StaleHit(q) ==
    /\ Swr
    /\ Idle(q)
    /\ Stale
    /\ fetch' = [fetch EXCEPT ![q] = Begun("lock")]
    /\ UNCHANGED <<source, entry, lock, tasks, state>>

(* Mutant: SET without NX. *)
TakeLockAnyway(q) ==
    /\ At(q, "lock")
    /\ lock' = LockTTL
    /\ fetch' = [fetch EXCEPT ![q] = Begun("granted")]
    /\ UNCHANGED <<source, entry, tasks, state>>

(* The SET NX takes effect in Redis: the lock's time runs from here on.    *)
TakeLock(q) ==
    /\ At(q, "lock")
    /\ lock = 0
    /\ lock' = LockTTL
    /\ fetch' = [fetch EXCEPT ![q] = Begun("granted")]
    /\ UNCHANGED <<source, entry, tasks, state>>

(* Mutant: the task is not kept track of. *)
StartUntracked(q, b) ==
    /\ At(q, "granted")
    /\ ~Active(b)
    /\ ProcOf[b] = ProcOf[q]
    /\ fetch' = [fetch EXCEPT ![q] = NoFetch, ![b] = [fetch[q] EXCEPT !.stage = "call"]]
    /\ UNCHANGED <<source, entry, lock, tasks, state>>

(* The answer arrives, at once or late, the lock perhaps expired by now:   *)
(* the refresh becomes a task of the process.                              *)
StartRefresh(q, b) ==
    /\ At(q, "granted")
    /\ ~Active(b)
    /\ ProcOf[b] = ProcOf[q]
    /\ fetch' = [fetch EXCEPT ![q] = NoFetch, ![b] = [fetch[q] EXCEPT !.stage = "call"]]
    /\ tasks' = tasks \cup {b}
    /\ UNCHANGED <<source, entry, lock, state>>

(* Another has the lock, the command failed, or its answer was lost after  *)
(* the lock was set: the last two are logged.                              *)
NoRefresh(q) ==
    /\ At(q, "lock") \/ At(q, "granted")
    /\ fetch' = [fetch EXCEPT ![q] = NoFetch]
    /\ UNCHANGED <<source, entry, lock, tasks, state>>

-----------------------------------------------------------------------------
(* A fetch. *)
(* The function looks at its source. *)
Query(f) ==
    /\ At(f, "call")
    /\ fetch' = [fetch EXCEPT ![f].stage = "back", ![f].value = version]
    /\ UNCHANGED <<source, entry, lock, tasks, state>>

(* The function returns: a refresh stamps its payload now, a miss was      *)
(* stamped before the call.                                                *)
Returns(f) ==
    /\ At(f, "back")
    /\ fetch' = [fetch EXCEPT
                     ![f].stage = "store",
                     ![f].stamp = IF f \in Refreshes THEN 0
                                  ELSE IF fetch[f].took < Old THEN fetch[f].took ELSE Old]
    /\ UNCHANGED <<source, entry, lock, tasks, state>>

(* The function raises: into the request, or into the refresh's log.  The  *)
(* refresh lock is left to expire.                                         *)
Raises(f) ==
    /\ At(f, "call") \/ At(f, "back")
    /\ End(f)
    /\ UNCHANGED <<source, entry, lock, state>>

(* SET; one without a time to live is not sent, a failing one is logged. *)
Store(f) ==
    /\ At(f, "store")
    /\ \/ /\ Keep > 0
          /\ entry' = [value |-> fetch[f].value, age |-> fetch[f].stamp, left |-> Keep]
       \/ UNCHANGED entry
    /\ End(f)
    /\ UNCHANGED <<source, lock, state>>

-----------------------------------------------------------------------------
(* invalidate_key, invalidate_prefix, or an eviction by Redis. *)
Invalidate ==
    /\ entry # NoEntry
    /\ entry' = NoEntry
    /\ UNCHANGED <<source, lock, fetch, tasks, state>>

Write ==
    /\ version < MaxWrites
    /\ version' = version + 1
    /\ UNCHANGED <<overdue, entry, lock, fetch, tasks, state>>

(* A second goes by. *)
Tick ==
    /\ \A f \in Fetchers : Active(f) => fetch[f].took < MaxFetch
    /\ overdue' = [v \in Versions |-> IF v < version THEN Later(overdue[v], Ancient) ELSE 0]
    /\ entry' = IF entry = NoEntry \/ entry.left = 1 THEN NoEntry
                ELSE [entry EXCEPT !.age = Later(@, Old), !.left = @ - 1]
    /\ lock' = IF lock = 0 THEN 0 ELSE lock - 1
    /\ fetch' = [f \in Fetchers |->
                    IF ~Active(f) THEN fetch[f]
                    ELSE [fetch[f] EXCEPT !.took = @ + 1,
                                          !.stamp = IF At(f, "store") THEN Later(@, Old) ELSE @]]
    /\ UNCHANGED <<version, tasks, state>>

(* shutdown_background_tasks, after the last request of the process. *)
Shutdown(p) ==
    /\ state[p] = "up"
    /\ \A q \in Requests : ProcOf[q] = p => ~Active(q)
    /\ state' = [state EXCEPT ![p] = "draining"]
    /\ UNCHANGED <<source, entry, lock, fetch, tasks>>

(* gather() returns: close() may follow. *)
Drained(p) ==
    /\ state[p] = "draining"
    /\ \A b \in tasks : ProcOf[b] # p
    /\ state' = [state EXCEPT ![p] = "down"]
    /\ UNCHANGED <<source, entry, lock, fetch, tasks>>

(* The process dies and another takes its place. *)
Crash(p) ==
    /\ fetch' = [f \in Fetchers |-> IF ProcOf[f] = p THEN NoFetch ELSE fetch[f]]
    /\ tasks' = {b \in tasks : ProcOf[b] # p}
    /\ state' = [state EXCEPT ![p] = "up"]
    /\ UNCHANGED <<source, entry, lock>>

Next ==
    \/ \E q \in Requests :
           \/ Miss(q) \/ Undecodable(q) \/ Drop(q)
           \/ StaleHit(q) \/ TakeLock(q) \/ NoRefresh(q)
           \/ \E b \in Refreshes : StartRefresh(q, b)
    \/ \E f \in Fetchers : Query(f) \/ Returns(f) \/ Raises(f) \/ Store(f)
    \/ \E p \in Procs : Shutdown(p) \/ Drained(p) \/ Crash(p)
    \/ Invalidate \/ Write \/ Tick

Spec == Init /\ [][Next]_vars

-----------------------------------------------------------------------------
(* Whatever fails, expires or overtakes, the value a reader is served was  *)
(* the source's within the time the entry was to live and one fetch: the   *)
(* time to live counts from the SET, the value may be a fetch older.       *)
BoundedStaleness ==
    entry # NoEntry => overdue[entry.value] <= (Keep - entry.left) + MaxFetch

(* Two refreshes overlap only when one of them is still running LOCK_TTL   *)
(* after its lock was set: neither a lost answer, a crash nor a function   *)
(* that raises lets a second one in earlier.                               *)
OneRefreshWithinLock ==
    \A b, c \in Refreshes :
        Active(b) /\ Active(c) /\ b # c =>
            fetch[b].took >= LockTTL \/ fetch[c].took >= LockTTL

(* After shutdown_background_tasks no refresh of the process is in flight: *)
(* none meets a closed client.                                             *)
NoRefreshAfterShutdown ==
    \A b \in Refreshes : Active(b) => state[ProcOf[b]] # "down"

(* docs/cache.md:132: "SWR refresh is Redis-locked under `lock:<key>` for  *)
(* 10 s, so one process refreshes at a time."                              *)
OneProcessRefreshes ==
    \A b, c \in Refreshes : Active(b) /\ Active(c) => ProcOf[b] = ProcOf[c]
=============================================================================
