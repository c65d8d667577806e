--------------------------- MODULE SwrCacheProofs ---------------------------
(***************************************************************************)
(* Machine-checked facts about SwrCache, for any number of processes,      *)
(* requests and refreshes and any times to live.                           *)
(***************************************************************************)
EXTENDS SwrCache, TLAPS

(* What a fetch read stopped being current, if it did, during the fetch. *)
AgeInv ==
    /\ \A v \in Versions : v >= version => overdue[v] = 0
    /\ \A f \in Fetchers : At(f, "back") \/ At(f, "store")
           => overdue[fetch[f].value] <= fetch[f].took

(* A lock in use: by the request it was granted to, by the refresh after. *)
Holds(f) == At(f, "granted") \/ (f \in Refreshes /\ Active(f))

(* What the lock has left and what its holder has used add up to all of it, *)
(* and at most one holder is still within it.                              *)
LockInv ==
    /\ \A f \in Fetchers : Holds(f) => LockTTL <= lock + fetch[f].took
    /\ \A f, g \in Fetchers :
           Holds(f) /\ Holds(g) /\ f # g =>
               fetch[f].took >= LockTTL \/ fetch[g].took >= LockTTL

(* A refresh in flight is tracked; a process that is down tracks none. *)
TaskInv ==
    /\ \A b \in Refreshes : Active(b) => b \in tasks
    /\ \A b \in tasks : state[ProcOf[b]] # "down"
    /\ \A q \in Requests : Active(q) => state[ProcOf[q]] = "up"

IInv == TypeOK /\ BoundedStaleness /\ AgeInv /\ LockInv /\ TaskInv

LEMMA FetchTypes ==
    /\ NoFetch \in Fetch
    /\ NoFetch.stage = "none"
    /\ \A s \in Stages : Begun(s) \in Fetch /\ Begun(s).stage = s /\ Begun(s).took = 0
BY TimesAssumption DEF NoFetch, Fetch, Begun, Stages, Versions, Old

LEMMA Numbers ==
    /\ TTL \in Nat /\ LockTTL \in Nat /\ MaxFetch \in Nat /\ MaxWrites \in Nat
    /\ Keep \in Nat /\ Old \in Nat /\ Ancient \in Nat
    /\ \A v \in Versions : v \in Nat /\ v <= MaxWrites
    /\ \A v \in Nat : v <= MaxWrites => v \in Versions
BY TimesAssumption DEF Keep, Old, Ancient, Versions

LEMMA LaterIsBounded ==
    ASSUME NEW max \in Nat, NEW n \in 0..max
    PROVE  Later(n, max) \in 0..max /\ Later(n, max) <= n + 1
BY DEF Later

LEMMA InitIInv == Init => IInv
<1> SUFFICES ASSUME Init PROVE IInv
  OBVIOUS
<1> USE FetchersAssumption, TimesAssumption, FetchTypes DEF Init
<1>1. TypeOK
  BY DEF TypeOK, Versions, Ancient, Keep
<1>2. BoundedStaleness /\ AgeInv /\ LockInv /\ TaskInv
  BY DEF BoundedStaleness, AgeInv, LockInv, Holds, TaskInv, Active, At, Fetchers, Versions
<1>3. QED
  BY <1>1, <1>2 DEF IInv

LEMMA NextIInv == IInv /\ [Next]_vars => IInv'
<1> SUFFICES ASSUME IInv, [Next]_vars PROVE IInv'
  OBVIOUS
<1> USE FetchersAssumption, FetchTypes DEF IInv
<1>1. CASE UNCHANGED vars
  BY <1>1 DEF vars, TypeOK, BoundedStaleness, AgeInv, LockInv, Holds, TaskInv, Active, At
<1>2. ASSUME NEW q \in Requests, Miss(q)
      PROVE  IInv'
  <2>1. TypeOK'
    BY <1>2 DEF Miss, Idle, Active, At, source, TypeOK, Fetch, Stages, Fetchers
  <2>2. BoundedStaleness'
    BY <1>2 DEF Miss, Idle, Active, At, source, TypeOK, BoundedStaleness
  <2>3. AgeInv'
    BY <1>2 DEF Miss, Idle, Active, At, source, TypeOK, AgeInv, Fetch, Stages
  <2>4. LockInv'
    BY <1>2 DEF Miss, Idle, Active, At, source, TypeOK, LockInv, Holds, Fetch, Stages, Fetchers
  <2>5. TaskInv'
    BY <1>2 DEF Miss, Idle, Active, At, source, TypeOK, TaskInv, Fetchers
  <2>6. QED
    BY <2>1, <2>2, <2>3, <2>4, <2>5
<1>3. ASSUME NEW q \in Requests, Undecodable(q)
      PROVE  IInv'
  <2>1. TypeOK'
    BY <1>3 DEF Undecodable, Idle, Active, At, source, TypeOK, Fetch, Stages, Fetchers
  <2>2. BoundedStaleness'
    BY <1>3 DEF Undecodable, Idle, Active, At, source, TypeOK, BoundedStaleness
  <2>3. AgeInv'
    BY <1>3 DEF Undecodable, Idle, Active, At, source, TypeOK, AgeInv, Fetch, Stages
  <2>4. LockInv'
    BY <1>3 DEF Undecodable, Idle, Active, At, source, TypeOK, LockInv, Holds, Fetch, Stages, Fetchers
  <2>5. TaskInv'
    BY <1>3 DEF Undecodable, Idle, Active, At, source, TypeOK, TaskInv, Fetchers
  <2>6. QED
    BY <2>1, <2>2, <2>3, <2>4, <2>5
<1>4. ASSUME NEW q \in Requests, Drop(q)
      PROVE  IInv'
  <2>1. TypeOK'
    <3>1. fetch' \in [Fetchers -> Fetch]
      BY <1>4 DEF Drop, GoTo, TypeOK, Fetch, Stages
    <3>2. entry' \in Entry \cup {NoEntry}
      BY <1>4 DEF Drop, TypeOK
    <3>3. QED
      BY <1>4, <3>1, <3>2 DEF Drop, source, TypeOK
  <2>2. BoundedStaleness'
    BY <1>4 DEF Drop, GoTo, At, source, TypeOK, BoundedStaleness
  <2>3. AgeInv'
    BY <1>4 DEF Drop, GoTo, At, source, TypeOK, AgeInv, Fetch, Stages
  <2>4. LockInv'
    BY <1>4 DEF Drop, GoTo, At, source, TypeOK, LockInv, Holds, Active, Fetch, Stages, Fetchers
  <2>5. TaskInv'
    BY <1>4 DEF Drop, GoTo, At, source, TypeOK, TaskInv, Active, Fetchers
  <2>6. QED
    BY <2>1, <2>2, <2>3, <2>4, <2>5
<1>5. ASSUME NEW q \in Requests, StaleHit(q)
      PROVE  IInv'
  <2>1. TypeOK'
    BY <1>5 DEF StaleHit, Idle, Active, At, source, Stale, TypeOK, Fetch, Stages, Fetchers
  <2>2. BoundedStaleness'
    BY <1>5 DEF StaleHit, Idle, Active, At, source, Stale, TypeOK, BoundedStaleness
  <2>3. AgeInv'
    BY <1>5 DEF StaleHit, Idle, Active, At, source, Stale, TypeOK, AgeInv, Fetch, Stages
  <2>4. LockInv'
    BY <1>5 DEF StaleHit, Idle, Active, At, source, Stale, TypeOK, LockInv, Holds, Fetch, Stages, Fetchers
  <2>5. TaskInv'
    BY <1>5 DEF StaleHit, Idle, Active, At, source, Stale, TypeOK, TaskInv, Fetchers
  <2>6. QED
    BY <2>1, <2>2, <2>3, <2>4, <2>5
<1>6. ASSUME NEW q \in Requests, NoRefresh(q)
      PROVE  IInv'
  <2>1. TypeOK'
    BY <1>6 DEF NoRefresh, source, TypeOK
  <2>2. BoundedStaleness'
    BY <1>6 DEF NoRefresh, source, TypeOK, BoundedStaleness
  <2>3. AgeInv'
    BY <1>6 DEF NoRefresh, At, source, TypeOK, AgeInv, Fetch, Stages
  <2>4. LockInv'
    BY <1>6 DEF NoRefresh, At, TypeOK, LockInv, Holds, Active, Fetchers
  <2>5. TaskInv'
    BY <1>6 DEF NoRefresh, At, source, TypeOK, TaskInv, Active, Fetchers
  <2>6. QED
    BY <2>1, <2>2, <2>3, <2>4, <2>5
<1>7. ASSUME NEW q \in Requests, NEW b \in Refreshes, StartRefresh(q, b)
      PROVE  IInv'
  <2>0. /\ fetch' \in [Fetchers -> Fetch]
        /\ fetch'[q] = NoFetch
        /\ fetch'[b].stage = "call"
        /\ fetch'[b].took = fetch[q].took
        /\ \A f \in Fetchers : f # q /\ f # b => fetch'[f] = fetch[f]
    <3>1. q # b /\ q \in Fetchers /\ b \in Fetchers
      BY DEF Fetchers
    <3>2. PICK r : r = [fetch[q] EXCEPT !.stage = "call"]
      OBVIOUS
    <3>3. r \in Fetch /\ r.stage = "call" /\ r.took = fetch[q].took
      BY <3>1, <3>2 DEF TypeOK, Fetch, Stages
    <3>4. fetch' = [fetch EXCEPT ![q] = NoFetch, ![b] = r]
      BY <1>7, <3>2 DEF StartRefresh
    <3>5. QED
      BY <3>1, <3>3, <3>4 DEF TypeOK
  <2>1. TypeOK'
    BY <1>7, <2>0 DEF StartRefresh, source, TypeOK
  <2>2. BoundedStaleness'
    BY <1>7 DEF StartRefresh, source, BoundedStaleness
  <2>3. AgeInv'
    BY <1>7, <2>0 DEF StartRefresh, At, source, AgeInv
  <2>4. LockInv'
    <3>1. Holds(q) /\ q \in Fetchers /\ q \notin Refreshes
      BY <1>7 DEF StartRefresh, Holds, Fetchers
    <3>2. ASSUME NEW f \in Fetchers, Holds(f)'
          PROVE  f = b \/ (f # q /\ f # b /\ Holds(f) /\ fetch'[f] = fetch[f])
      BY <2>0, <3>1, <3>2 DEF Holds, At, Active
    <3>3. UNCHANGED lock
      BY <1>7 DEF StartRefresh
    <3>4. \A f \in Fetchers : Holds(f)' => LockTTL <= lock' + fetch'[f].took
      BY <2>0, <3>1, <3>2, <3>3 DEF LockInv
    <3>5. ASSUME NEW f \in Fetchers, NEW g \in Fetchers, Holds(f)', Holds(g)', f # g
          PROVE  fetch'[f].took >= LockTTL \/ fetch'[g].took >= LockTTL
      <4>1. CASE f = b
        BY <2>0, <3>1, <3>2, <3>5, <4>1 DEF LockInv
      <4>2. CASE g = b
        BY <2>0, <3>1, <3>2, <3>5, <4>2 DEF LockInv
      <4>3. CASE f # b /\ g # b
        BY <3>2, <3>5, <4>3 DEF LockInv
      <4>4. QED
        BY <4>1, <4>2, <4>3
    <3>6. QED
      BY <3>4, <3>5 DEF LockInv
  <2>5. TaskInv'
    <3>1. state[ProcOf[b]] # "down" /\ UNCHANGED state /\ tasks' = tasks \cup {b}
      BY <1>7 DEF StartRefresh, TaskInv, Active, At
    <3>2. \A f \in Requests : f # b /\ (Active(f)' => Active(f))
      BY <2>0 DEF Active, At, Fetchers
    <3>3. \A f \in Refreshes : f # b /\ Active(f)' => Active(f)
      BY <2>0 DEF Active, At, Fetchers
    <3>4. QED
      BY <3>1, <3>2, <3>3 DEF TaskInv
  <2>6. QED
    BY <2>1, <2>2, <2>3, <2>4, <2>5
<1>7a. ASSUME NEW q \in Requests, TakeLock(q)
      PROVE  IInv'
  <2>0. /\ fetch' \in [Fetchers -> Fetch]
        /\ fetch'[q].stage = "granted"
        /\ \A f \in Fetchers : f # q => fetch'[f] = fetch[f]
    <3>1. PICK r : r = Begun("granted")
      OBVIOUS
    <3>2. r \in Fetch /\ r.stage = "granted"
      BY <3>1 DEF Stages
    <3>3. QED
      BY <1>7a, <3>1, <3>2 DEF TakeLock, TypeOK, Fetchers
  <2>1. TypeOK'
    BY <1>7a, <2>0, Numbers DEF TakeLock, source, TypeOK
  <2>2. BoundedStaleness'
    BY <1>7a DEF TakeLock, source, BoundedStaleness
  <2>3. AgeInv'
    BY <1>7a, <2>0 DEF TakeLock, At, source, AgeInv
  <2>4. LockInv'
    <3>1. \A f \in Fetchers : fetch[f].took \in Nat /\ fetch'[f].took \in Nat
      BY <2>0, Numbers DEF TypeOK, Fetch
    <3>2. \A f \in Fetchers : Holds(f) => fetch[f].took >= LockTTL
      BY <1>7a, <3>1, Numbers DEF TakeLock, LockInv
    <3>3. \A f \in Fetchers : f # q /\ Holds(f)' => Holds(f) /\ fetch'[f] = fetch[f]
      BY <2>0 DEF Holds, At, Active
    <3>4. \A f \in Fetchers : Holds(f)' => LockTTL <= lock' + fetch'[f].took
      BY <1>7a, <3>1, Numbers DEF TakeLock
    <3>5. QED
      BY <3>2, <3>3, <3>4 DEF LockInv
  <2>5. TaskInv'
    BY <1>7a, <2>0 DEF TakeLock, Active, At, TaskInv, Fetchers
  <2>6. QED
    BY <2>1, <2>2, <2>3, <2>4, <2>5
<1>8. ASSUME NEW f \in Fetchers, Query(f)
      PROVE  IInv'
  <2>1. TypeOK'
    BY <1>8 DEF Query, At, source, TypeOK, Fetch, Stages, Fetchers
  <2>2. BoundedStaleness'
    BY <1>8 DEF Query, At, source, TypeOK, BoundedStaleness
  <2>3. AgeInv'
    <3>1. overdue[version] = 0 /\ version \in Versions /\ \A g \in Fetchers : fetch[g].took \in Nat
      BY Numbers DEF TypeOK, AgeInv, Fetch
    <3>2. /\ fetch'[f].value = version
          /\ fetch'[f].took = fetch[f].took
          /\ \A g \in Fetchers : g # f => fetch'[g] = fetch[g]
      BY <1>8 DEF Query, TypeOK, Fetch
    <3>3. UNCHANGED source
      BY <1>8 DEF Query
    <3>4. QED
      BY <3>1, <3>2, <3>3 DEF AgeInv, At, source
  <2>4. LockInv'
    BY <1>8 DEF Query, At, source, TypeOK, LockInv, Holds, Active, Fetch, Stages, Fetchers
  <2>5. TaskInv'
    BY <1>8 DEF Query, At, source, TypeOK, TaskInv, Active, Fetchers
  <2>6. QED
    BY <2>1, <2>2, <2>3, <2>4, <2>5
<1>9. ASSUME NEW f \in Fetchers, Returns(f)
      PROVE  IInv'
  <2>1. TypeOK'
    BY <1>9 DEF Returns, At, source, TypeOK, Fetch, Stages, Fetchers
  <2>2. BoundedStaleness'
    BY <1>9 DEF Returns, At, source, TypeOK, BoundedStaleness
  <2>3. AgeInv'
    BY <1>9 DEF Returns, At, source, TypeOK, AgeInv, Fetch, Stages
  <2>4. LockInv'
    BY <1>9 DEF Returns, At, source, TypeOK, LockInv, Holds, Active, Fetch, Stages, Fetchers
  <2>5. TaskInv'
    BY <1>9 DEF Returns, At, source, TypeOK, TaskInv, Active, Fetchers
  <2>6. QED
    BY <2>1, <2>2, <2>3, <2>4, <2>5
<1>10. ASSUME NEW f \in Fetchers, Raises(f)
      PROVE  IInv'
  <2>1. TypeOK'
    BY <1>10 DEF Raises, End, At, source, TypeOK, Fetch, Stages, Fetchers
  <2>2. BoundedStaleness'
    BY <1>10 DEF Raises, End, At, source, TypeOK, BoundedStaleness
  <2>3. AgeInv'
    BY <1>10 DEF Raises, End, At, source, TypeOK, AgeInv, Fetch, Stages
  <2>4. LockInv'
    BY <1>10 DEF Raises, End, At, source, TypeOK, LockInv, Holds, Active, Fetch, Stages, Fetchers
  <2>5. TaskInv'
    BY <1>10 DEF Raises, End, At, source, TypeOK, TaskInv, Active, Fetchers
  <2>6. QED
    BY <2>1, <2>2, <2>3, <2>4, <2>5
<1>11. ASSUME NEW f \in Fetchers, Store(f)
      PROVE  IInv'
  <2>1. TypeOK'
    <3>1. fetch[f].value \in Versions /\ fetch[f].stamp \in 0..Old
      BY DEF TypeOK, Fetch
    <3>2. entry' \in Entry \cup {NoEntry}
      BY <1>11, <3>1, Numbers DEF Store, TypeOK, Entry
    <3>3. QED
      BY <1>11, <3>2 DEF Store, End, source, TypeOK
  <2>2. BoundedStaleness'
    <3>1. CASE UNCHANGED entry
      BY <1>11, <3>1 DEF Store, source, BoundedStaleness
    <3>2. CASE entry' = [value |-> fetch[f].value, age |-> fetch[f].stamp, left |-> Keep]
      <4>1. /\ fetch[f].value \in Versions
            /\ overdue[fetch[f].value] \in 0..Ancient
            /\ fetch[f].took \in 0..MaxFetch
        BY DEF TypeOK, Fetch
      <4>2. overdue[fetch[f].value] <= fetch[f].took
        BY <1>11 DEF Store, AgeInv, At
      <4>3. overdue[fetch[f].value] <= Keep - Keep + MaxFetch
        BY <4>1, <4>2, Numbers
      <4>4. QED
        BY <1>11, <3>2, <4>3 DEF Store, source, BoundedStaleness
    <3>3. QED
      BY <1>11, <3>1, <3>2 DEF Store
  <2>3. AgeInv'
    BY <1>11 DEF Store, End, At, source, TypeOK, AgeInv, Fetch, Stages
  <2>4. LockInv'
    BY <1>11 DEF Store, End, At, source, TypeOK, LockInv, Holds, Active, Fetch, Stages, Fetchers
  <2>5. TaskInv'
    BY <1>11 DEF Store, End, At, source, TypeOK, TaskInv, Active, Fetchers
  <2>6. QED
    BY <2>1, <2>2, <2>3, <2>4, <2>5
<1>12. ASSUME NEW p \in Procs, Shutdown(p)
      PROVE  IInv'
  <2>1. TypeOK'
    BY <1>12 DEF Shutdown, Active, At, source, TypeOK, Fetch, Stages, Fetchers
  <2>2. BoundedStaleness'
    BY <1>12 DEF Shutdown, Active, At, source, TypeOK, BoundedStaleness
  <2>3. AgeInv'
    BY <1>12 DEF Shutdown, Active, At, source, TypeOK, AgeInv, Fetch, Stages
  <2>4. LockInv'
    BY <1>12 DEF Shutdown, Active, At, source, TypeOK, LockInv, Holds, Fetch, Stages, Fetchers
  <2>5. TaskInv'
    BY <1>12 DEF Shutdown, Active, At, source, TypeOK, TaskInv, Fetchers
  <2>6. QED
    BY <2>1, <2>2, <2>3, <2>4, <2>5
<1>13. ASSUME NEW p \in Procs, Drained(p)
      PROVE  IInv'
  <2>1. TypeOK'
    BY <1>13 DEF Drained, source, TypeOK, Fetch, Stages, Fetchers
  <2>2. BoundedStaleness'
    BY <1>13 DEF Drained, source, TypeOK, BoundedStaleness
  <2>3. AgeInv'
    BY <1>13 DEF Drained, source, TypeOK, AgeInv, At, Fetch, Stages
  <2>4. LockInv'
    BY <1>13 DEF Drained, source, TypeOK, LockInv, Holds, Active, At, Fetch, Stages, Fetchers
  <2>5. TaskInv'
    BY <1>13 DEF Drained, source, TypeOK, TaskInv, Active, At, Fetchers
  <2>6. QED
    BY <2>1, <2>2, <2>3, <2>4, <2>5
<1>14. ASSUME NEW p \in Procs, Crash(p)
      PROVE  IInv'
  <2>1. TypeOK'
    BY <1>14 DEF Crash, source, TypeOK, Fetch, Stages, Fetchers
  <2>2. BoundedStaleness'
    BY <1>14 DEF Crash, source, TypeOK, BoundedStaleness
  <2>3. AgeInv'
    BY <1>14 DEF Crash, source, TypeOK, AgeInv, At, Fetch, Stages
  <2>4. LockInv'
    BY <1>14 DEF Crash, source, TypeOK, LockInv, Holds, Active, At, Fetch, Stages, Fetchers
  <2>5. TaskInv'
    BY <1>14 DEF Crash, source, TypeOK, TaskInv, Active, At, Fetchers
  <2>6. QED
    BY <2>1, <2>2, <2>3, <2>4, <2>5
<1>15. ASSUME Invalidate
      PROVE  IInv'
  <2>1. TypeOK'
    BY <1>15 DEF Invalidate, source, TypeOK, Fetch, Stages, Fetchers
  <2>2. BoundedStaleness'
    BY <1>15 DEF Invalidate, source, TypeOK, BoundedStaleness
  <2>3. AgeInv'
    BY <1>15 DEF Invalidate, source, TypeOK, AgeInv, At, Fetch, Stages
  <2>4. LockInv'
    BY <1>15 DEF Invalidate, source, TypeOK, LockInv, Holds, Active, At, Fetch, Stages, Fetchers
  <2>5. TaskInv'
    BY <1>15 DEF Invalidate, source, TypeOK, TaskInv, Active, At, Fetchers
  <2>6. QED
    BY <2>1, <2>2, <2>3, <2>4, <2>5
<1>16. ASSUME Write
      PROVE  IInv'
  <2>0. version' \in Versions /\ version' = version + 1 /\ version \in Nat
    BY <1>16, Numbers DEF Write, TypeOK
  <2>1. TypeOK'
    BY <1>16, <2>0 DEF Write, TypeOK
  <2>2. BoundedStaleness'
    BY <1>16 DEF Write, TypeOK, BoundedStaleness
  <2>3. AgeInv'
    BY <1>16, <2>0, Numbers DEF Write, TypeOK, AgeInv, At
  <2>4. LockInv'
    BY <1>16 DEF Write, TypeOK, LockInv, Holds, Active, At, Fetch, Stages, Fetchers
  <2>5. TaskInv'
    BY <1>16 DEF Write, TypeOK, TaskInv, Active, At, Fetchers
  <2>6. QED
    BY <2>1, <2>2, <2>3, <2>4, <2>5
<1>17. ASSUME Tick
      PROVE  IInv'
  <2> DEFINE fetchThen(f) ==
        [fetch[f] EXCEPT !.took = @ + 1,
                         !.stamp = IF At(f, "store") THEN Later(@, Old) ELSE @]
  <2>a. ASSUME NEW v \in Versions
        PROVE  /\ overdue[v] \in 0..Ancient
               /\ overdue'[v] \in 0..Ancient
               /\ overdue'[v] <= overdue[v] + 1
               /\ ~(v < version) => overdue'[v] = 0
    <3>1. overdue[v] \in 0..Ancient
      BY DEF TypeOK
    <3>2. overdue'[v] = IF v < version THEN Later(overdue[v], Ancient) ELSE 0
      BY <1>17 DEF Tick
    <3>3. Later(overdue[v], Ancient) \in 0..Ancient /\ Later(overdue[v], Ancient) <= overdue[v] + 1
      BY <3>1, LaterIsBounded, Numbers
    <3>4. 0 \in 0..Ancient /\ 0 <= overdue[v] + 1
      BY <3>1, Numbers
    <3>5. QED
      BY <3>1, <3>2, <3>3, <3>4
  <2>b. ASSUME NEW f \in Fetchers
        PROVE  /\ fetch'[f] \in Fetch
               /\ fetch'[f].stage = fetch[f].stage
               /\ fetch'[f].value = fetch[f].value
               /\ Active(f) => fetch[f].took < MaxFetch /\ fetch'[f].took = fetch[f].took + 1
    <3>1. /\ fetch[f] \in Fetch
          /\ fetch[f].took \in 0..MaxFetch
          /\ fetch[f].stamp \in 0..Old
      BY DEF TypeOK, Fetch
    <3>2. Later(fetch[f].stamp, Old) \in 0..Old
      BY <3>1, LaterIsBounded, Numbers
    <3>3. CASE Active(f)
      <4>1. fetch'[f] = fetchThen(f) /\ fetch[f].took < MaxFetch
        BY <1>17, <3>3 DEF Tick
      <4>2. fetch[f].took + 1 \in 0..MaxFetch
        BY <3>1, <4>1, Numbers
      <4>3. QED
        BY <3>1, <3>2, <4>1, <4>2 DEF Fetch
    <3>4. CASE ~Active(f)
      BY <1>17, <3>1, <3>4 DEF Tick
    <3>5. QED
      BY <3>3, <3>4
  <2>1. TypeOK'
    <3>1. overdue' \in [Versions -> 0..Ancient] /\ fetch' \in [Fetchers -> Fetch]
      BY <1>17, <2>a, <2>b DEF Tick
    <3>2. lock' \in 0..LockTTL
      <4>1. lock \in 0..LockTTL /\ lock' = IF lock = 0 THEN 0 ELSE lock - 1
        BY <1>17 DEF Tick, TypeOK
      <4>2. QED
        BY <4>1, Numbers
    <3>3. entry' \in Entry \cup {NoEntry}
      <4>1. CASE entry = NoEntry \/ entry.left = 1
        BY <1>17, <4>1 DEF Tick
      <4>2. CASE entry # NoEntry /\ entry.left # 1
        <5>1. entry.age \in 0..Old /\ entry.left \in 1..Keep /\ entry \in Entry
          BY <4>2 DEF TypeOK, Entry
        <5>2. Later(entry.age, Old) \in 0..Old
          BY <5>1, LaterIsBounded, Numbers
        <5>3. entry.left - 1 \in 1..Keep
          BY <4>2, <5>1, Numbers
        <5>4. entry' = [entry EXCEPT !.age = Later(@, Old), !.left = @ - 1]
          BY <1>17, <4>2 DEF Tick
        <5>5. QED
          BY <5>1, <5>2, <5>3, <5>4 DEF Entry
      <4>3. QED
        BY <4>1, <4>2
    <3>4. QED
      BY <1>17, <3>1, <3>2, <3>3 DEF Tick, TypeOK
  <2>2. BoundedStaleness'
    <3> SUFFICES ASSUME entry' # NoEntry
                 PROVE  overdue'[entry'.value] <= (Keep - entry'.left) + MaxFetch
      BY DEF BoundedStaleness
    <3>1. /\ entry # NoEntry
          /\ entry \in Entry
          /\ entry' = [entry EXCEPT !.age = Later(@, Old), !.left = @ - 1]
      BY <1>17 DEF Tick, TypeOK
    <3>2. /\ entry.value \in Versions /\ entry.left \in 1..Keep
          /\ entry'.value = entry.value /\ entry'.left = entry.left - 1
      BY <3>1 DEF Entry
    <3>3. /\ overdue[entry.value] \in 0..Ancient
          /\ overdue'[entry.value] \in 0..Ancient
          /\ overdue'[entry.value] <= overdue[entry.value] + 1
      BY <2>a, <3>2
    <3>4. overdue[entry.value] <= (Keep - entry.left) + MaxFetch
      BY <3>1 DEF BoundedStaleness
    <3>5. QED
      BY <3>2, <3>3, <3>4, Numbers
  <2>3. AgeInv'
    <3>1. \A v \in Versions : v >= version => overdue'[v] = 0
      BY <2>a, Numbers DEF TypeOK
    <3>2. ASSUME NEW f \in Fetchers, At(f, "back")' \/ At(f, "store")'
          PROVE  overdue'[fetch'[f].value] <= fetch'[f].took
      <4>1. At(f, "back") \/ At(f, "store")
        BY <3>2, <2>b DEF At
      <4>2. /\ fetch'[f].value = fetch[f].value
            /\ fetch'[f].took = fetch[f].took + 1
            /\ fetch[f].took \in 0..MaxFetch
            /\ fetch[f].value \in Versions
        BY <4>1, <2>b DEF At, Active, TypeOK, Fetch
      <4>3. overdue[fetch[f].value] <= fetch[f].took
        BY <4>1 DEF AgeInv
      <4>4. /\ overdue[fetch[f].value] \in 0..Ancient
            /\ overdue'[fetch[f].value] \in 0..Ancient
            /\ overdue'[fetch[f].value] <= overdue[fetch[f].value] + 1
        BY <2>a, <4>2
      <4>5. QED
        BY <4>2, <4>3, <4>4, Numbers
    <3>3. QED
      BY <1>17, <3>1, <3>2 DEF Tick, AgeInv
  <2>4. LockInv'
    <3>1. \A f \in Fetchers : Holds(f)' <=> Holds(f)
      BY <2>b DEF Holds, Active, At
    <3>2. ASSUME NEW f \in Fetchers, Holds(f)
          PROVE  /\ LockTTL <= lock' + fetch'[f].took
                 /\ fetch[f].took >= LockTTL => fetch'[f].took >= LockTTL
      <4>1. Active(f)
        BY <3>2 DEF Holds, At, Active
      <4>2. /\ LockTTL <= lock + fetch[f].took
            /\ fetch'[f].took = fetch[f].took + 1
            /\ fetch[f].took \in 0..MaxFetch
            /\ lock \in 0..LockTTL
        BY <3>2, <4>1, <2>b DEF LockInv, TypeOK, Fetch
      <4>3. lock' = IF lock = 0 THEN 0 ELSE lock - 1
        BY <1>17 DEF Tick
      <4>4. QED
        BY <4>2, <4>3, Numbers
    <3>3. QED
      BY <3>1, <3>2 DEF LockInv
  <2>5. TaskInv'
    BY <1>17 DEF Tick, Active, At, TypeOK, TaskInv, Fetchers
  <2>6. QED
    BY <2>1, <2>2, <2>3, <2>4, <2>5
<1>18. QED
  BY <1>1, <1>2, <1>3, <1>4, <1>5, <1>6, <1>7, <1>8, <1>9, <1>10, <1>11, <1>12, <1>13, <1>14, <1>15, <1>16, <1>17, <1>7a
     DEF Next

(* The inductive invariant holds of every behaviour. *)
THEOREM Invariance == Spec => []IInv
BY InitIInv, NextIInv, PTL DEF Spec

(* Every state is well typed. *)
THEOREM TypeCorrectness == Spec => []TypeOK
BY Invariance, PTL DEF IInv

(* A reader is never served a value that stopped being current longer ago  *)
(* than the time to live and one fetch (Cache.fetch_or_set, fetch_swr).    *)
THEOREM StalenessIsBounded == Spec => []BoundedStaleness
BY Invariance, PTL DEF IInv

(* Two refreshes overlap, in one process or between processes, only when   *)
(* one of them still runs LOCK_TTL after its lock was set, however long    *)
(* the answer to the SET took (_refresh_in_background).                    *)
THEOREM RefreshesExclude == Spec => []OneRefreshWithinLock
<1>1. IInv => OneRefreshWithinLock
  BY DEF IInv, LockInv, Holds, OneRefreshWithinLock, Fetchers
<1>2. QED
  BY <1>1, Invariance, PTL

(* shutdown_background_tasks leaves no refresh behind. *)
THEOREM ShutdownWaits == Spec => []NoRefreshAfterShutdown
<1>1. IInv => NoRefreshAfterShutdown
  BY DEF IInv, TaskInv, NoRefreshAfterShutdown
<1>2. QED
  BY <1>1, Invariance, PTL
=============================================================================
