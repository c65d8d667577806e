-------------------------- MODULE MigrationsProofs --------------------------
(***************************************************************************)
(* Machine-checked facts about Migrations, for any runners, pools,         *)
(* directories and any number of lost locks and crashes.                   *)
(***************************************************************************)
EXTENDS Migrations, TLAPS

(* A runner with an open transaction is inside one migration of its        *)
(* directory, and holds the only uncommitted row of that version.          *)
TxnInv ==
    /\ \A r \in Runners : pc[r] \in InTransaction => at[r] \in VersionsIn(dir[r])
    /\ \A r \in Runners : pc[r] \in {"script", "commit"} => txn[r] = at[r]
    /\ \A r \in Runners : pc[r] \notin {"script", "commit"} => txn[r] = 0
    /\ \A r \in Runners : txn[r] # 0 => ledger[txn[r]] = NoRow
    /\ \A q, r \in Runners : txn[q] # 0 /\ txn[q] = txn[r] => q = r

IInv == TypeOK /\ TxnInv /\ AppliedOnce /\ LedgerMatchesSchema

(* The content of a file of a directory is a content. *)
LEMMA ContentType ==
    ASSUME NEW d \in SUBSET File, NEW v \in VersionsIn(d)
    PROVE  ContentOf(d, v) \in Contents
BY DEF VersionsIn, ContentOf, File

LEMMA InitIInv == Init => IInv
<1> SUFFICES ASSUME Init PROVE IInv
  OBVIOUS
<1> USE VersionsAssumption, RowsAssumption, InputsAssumption DEF Init
<1>1. TypeOK
  <2>1. ledger \in Ledger
    BY DEF Ledger
  <2>2. QED
    BY <2>1 DEF TypeOK, PC, EmptyLedger, Ledger
<1>2. TxnInv
  BY DEF TxnInv, InTransaction
<1>3. AppliedOnce /\ LedgerMatchesSchema
  BY DEF AppliedOnce, LedgerMatchesSchema
<1>4. QED
  BY <1>1, <1>2, <1>3 DEF IInv

(* Nothing a step does to the runners alone reaches the committed state. *)
LEMMA DbUnchanged ==
    ASSUME UNCHANGED db, AppliedOnce, LedgerMatchesSchema
    PROVE  (AppliedOnce /\ LedgerMatchesSchema)'
BY DEF db, AppliedOnce, LedgerMatchesSchema

(* Leaving the lock's block, with a commit or a rollback behind it. *)
LEMMA LeaveIInv ==
    ASSUME IInv, NEW r \in Runners, NEW o \in {"ok", "error"}, Leave(r, o)
    PROVE  IInv'
<1> USE DEF IInv, Leave, local
<1>1. TypeOK'
  BY DEF TypeOK, PC, db
<1>2. TxnInv'
  BY DEF TxnInv, InTransaction, TypeOK, db
<1>3. QED
  BY <1>1, <1>2, DbUnchanged

(* A commit adds one script to the schema, of a version that had none. *)
LEMMA CommitIInv ==
    ASSUME IInv, NEW r \in Runners, Commit(r)
    PROVE  IInv'
<1> DEFINE v == at[r]
           c == ContentOf(dir[r], v)
           new == [version |-> v, content |-> c]
<1> USE DEF IInv
<1>1. v \in VersionsIn(dir[r]) /\ v \in Versions /\ v # 0
  BY VersionsAssumption DEF TxnInv, TypeOK, InTransaction, Commit, VersionsIn, File
<1>2. c \in Contents
  BY <1>1, ContentType DEF TypeOK
<1>3. /\ ledger' = [ledger EXCEPT ![v] = c]
      /\ schema' = Append(schema, new)
      /\ txn' = [txn EXCEPT ![r] = 0]
      /\ pc' = [pc EXCEPT ![r] = "scan"]
      /\ UNCHANGED <<table, local, lock, result, calls, losses>>
  BY DEF Commit, GoTo
<1>4. new \in File
  BY <1>1, <1>2 DEF File
<1> HIDE DEF v, c, new
<1>5. TypeOK'
  <2>1. ledger' \in Ledger
    BY <1>1, <1>2, <1>3 DEF TypeOK, Ledger
  <2>2. schema' \in Seq(File)
    BY <1>3, <1>4 DEF TypeOK
  <2>3. QED
    BY <1>3, <2>1, <2>2 DEF TypeOK, PC, local
<1>6. txn[r] = v /\ ledger[v] = NoRow
  BY <1>1 DEF TxnInv, Commit, v
<1>7. TxnInv'
  BY <1>1, <1>3, <1>6 DEF TxnInv, InTransaction, TypeOK, Ledger, local
<1>8. \A i \in DOMAIN schema : schema[i].version # v /\ schema[i] \in File
  <2>1. \A i \in DOMAIN schema : schema[i] \in File
    BY DEF TypeOK
  <2>2. \A i \in DOMAIN schema : ledger[schema[i].version] \in Contents
    BY <2>1 DEF LedgerMatchesSchema, File
  <2>3. QED
    BY <1>6, <2>1, <2>2, RowsAssumption
<1>9. /\ DOMAIN schema' = DOMAIN schema \cup {Len(schema) + 1}
      /\ \A i \in DOMAIN schema : schema'[i] = schema[i] /\ i # Len(schema) + 1
      /\ schema'[Len(schema) + 1] = new
  BY <1>3, <1>4 DEF TypeOK
<1>10. new.version = v /\ new.content = c
  BY DEF new
<1>11. AppliedOnce'
  BY <1>8, <1>9, <1>10 DEF AppliedOnce
<1>12. LedgerMatchesSchema'
  <2>1. \A w \in Versions : ledger'[w] = IF w = v THEN c ELSE ledger[w]
    BY <1>1, <1>3 DEF TypeOK, Ledger
  <2>2. ASSUME NEW i \in DOMAIN schema'
        PROVE  ledger'[schema'[i].version] = schema'[i].content
    <3>1. CASE i \in DOMAIN schema
      BY <3>1, <2>1, <1>8, <1>9 DEF LedgerMatchesSchema, File
    <3>2. CASE i = Len(schema) + 1
      BY <3>2, <2>1, <1>1, <1>9, <1>10
    <3>3. QED
      BY <3>1, <3>2, <1>9
  <2>3. ASSUME NEW w \in Versions, ledger'[w] \in Contents
        PROVE  [version |-> w, content |-> ledger'[w]] \in {schema'[i] : i \in DOMAIN schema'}
    <3>1. CASE w = v
      BY <3>1, <2>1, <1>9 DEF new
    <3>2. CASE w # v
      BY <3>2, <2>1, <2>3, <1>9 DEF LedgerMatchesSchema
    <3>3. QED
      BY <3>1, <3>2
  <2>4. QED
    BY <2>2, <2>3 DEF LedgerMatchesSchema
<1>13. QED
  BY <1>5, <1>7, <1>11, <1>12

LEMMA NextIInv == IInv /\ [Next]_vars => IInv'
<1> SUFFICES ASSUME IInv, [Next]_vars PROVE IInv'
  OBVIOUS
<1> USE DEF IInv
<1>1. CASE UNCHANGED vars
  BY <1>1 DEF vars, TypeOK, TxnInv, AppliedOnce, LedgerMatchesSchema, IsNext, InTransaction
<1>2. ASSUME NEW r \in Runners, NEW d \in Directories, Start(r, d) PROVE IInv'
  <2>1. TypeOK'
    BY <1>2, InputsAssumption DEF Start, GoTo, TypeOK, PC, db
  <2>2. TxnInv'
    BY <1>2 DEF Start, GoTo, TypeOK, TxnInv, InTransaction, db
  <2>3. QED
    BY <1>2, <2>1, <2>2, DbUnchanged DEF Start
<1>3. ASSUME NEW r \in Runners, Acquire(r) PROVE IInv'
  <2>1. TypeOK'
    BY <1>3 DEF Acquire, GoTo, TypeOK, PC, db, local
  <2>2. TxnInv'
    BY <1>3 DEF Acquire, GoTo, TypeOK, TxnInv, InTransaction, db, local
  <2>3. QED
    BY <1>3, <2>1, <2>2, DbUnchanged DEF Acquire
<1>4. ASSUME NEW r \in Runners, Bootstrap(r) PROVE IInv'
  <2>1. TypeOK'
    BY <1>4 DEF Bootstrap, GoTo, TypeOK, PC, local
  <2>2. TxnInv'
    BY <1>4 DEF Bootstrap, GoTo, TypeOK, TxnInv, InTransaction, local
  <2>3. QED
    BY <1>4, <2>1, <2>2 DEF Bootstrap, AppliedOnce, LedgerMatchesSchema
<1>5. ASSUME NEW r \in Runners, Read(r) PROVE IInv'
  <2>1. TypeOK'
    BY <1>5 DEF Read, GoTo, TypeOK, PC, db
  <2>2. TxnInv'
    BY <1>5 DEF Read, GoTo, TypeOK, TxnInv, InTransaction, db
  <2>3. QED
    BY <1>5, <2>1, <2>2, DbUnchanged DEF Read
<1>6. ASSUME NEW r \in Runners, NEW v \in Versions, Verify(r, v) PROVE IInv'
  <2>1. TypeOK'
    BY <1>6 DEF Verify, TypeOK, db
  <2>2. TxnInv'
    BY <1>6 DEF Verify, Scanning, TypeOK, TxnInv, InTransaction, db
  <2>3. QED
    BY <1>6, <2>1, <2>2, DbUnchanged DEF Verify
<1>7. ASSUME NEW r \in Runners, NEW v \in Versions, Begin(r, v) PROVE IInv'
  <2>1. TypeOK'
    BY <1>7 DEF Begin, GoTo, TypeOK, PC, db
  <2>2. TxnInv'
    BY <1>7 DEF Begin, GoTo, Scanning, IsNext, Ahead, TypeOK, TxnInv, InTransaction, db
  <2>3. QED
    BY <1>7, <2>1, <2>2, DbUnchanged DEF Begin
<1>8. ASSUME NEW r \in Runners, Insert(r) PROVE IInv'
  <2>1. TypeOK'
    BY <1>8 DEF Insert, GoTo, TypeOK, PC, db, local
  <2>2. TxnInv'
    BY <1>8 DEF Insert, GoTo, TypeOK, TxnInv, InTransaction, db, local
  <2>3. QED
    BY <1>8, <2>1, <2>2, DbUnchanged DEF Insert
<1>9. ASSUME NEW r \in Runners, Script(r) PROVE IInv'
  <2>1. TypeOK'
    BY <1>9 DEF Script, GoTo, TypeOK, PC, db, local
  <2>2. TxnInv'
    BY <1>9 DEF Script, GoTo, TypeOK, TxnInv, InTransaction, db, local
  <2>3. QED
    BY <1>9, <2>1, <2>2, DbUnchanged DEF Script
<1>10. ASSUME NEW r \in Runners, Commit(r) PROVE IInv'
  BY <1>10, CommitIInv
<1>11. ASSUME NEW r \in Runners, Release(r) PROVE IInv'
  <2>1. TypeOK'
    BY <1>11 DEF Release, GoTo, TypeOK, PC, db, local
  <2>2. TxnInv'
    BY <1>11 DEF Release, GoTo, TypeOK, TxnInv, InTransaction, db, local
  <2>3. QED
    BY <1>11, <2>1, <2>2, DbUnchanged DEF Release
<1>12. ASSUME NEW r \in Runners, Crash(r) PROVE IInv'
  <2>1. TypeOK'
    BY <1>12 DEF Crash, GoTo, TypeOK, PC, db, local
  <2>2. TxnInv'
    BY <1>12 DEF Crash, GoTo, TypeOK, TxnInv, InTransaction, db, local
  <2>3. QED
    BY <1>12, <2>1, <2>2, DbUnchanged DEF Crash
<1>13. ASSUME NEW r \in Runners, LoseLock(r) PROVE IInv'
  <2>1. TypeOK'
    BY <1>13 DEF LoseLock, TypeOK, db, local
  <2>2. TxnInv'
    BY <1>13 DEF LoseLock, TypeOK, TxnInv, InTransaction, db, local
  <2>3. QED
    BY <1>13, <2>1, <2>2, DbUnchanged DEF LoseLock
<1>14. ASSUME NEW r \in Runners,
              \/ ListFails(r) \/ InsertFails(r) \/ Finish(r) \/ Fail(r) \/ PoolTimeout(r)
              \/ \E v \in Versions : Reject(r, v)
       PROVE  IInv'
  <2>1. Leave(r, "ok") \/ Leave(r, "error")
    BY <1>14 DEF ListFails, InsertFails, Finish, Fail, PoolTimeout, Reject
  <2>2. QED
    BY <2>1, LeaveIInv
<1>15. QED
  BY <1>1, <1>2, <1>3, <1>4, <1>5, <1>6, <1>7, <1>8, <1>9, <1>10, <1>11, <1>12, <1>13, <1>14
     DEF Next, Steps, ScanStep

(* The inductive invariant holds of every behaviour. *)
THEOREM Invariance == Spec => []IInv
BY InitIInv, NextIInv, PTL DEF Spec

(* Every variable keeps to its type. *)
THEOREM TypeCorrectness == Spec => []TypeOK
BY Invariance, PTL DEF IInv

(* However many runners race, crash or lose the lock, no migration takes   *)
(* effect twice (SchemaMigrationRunner._apply).                            *)
THEOREM NeverAppliedTwice == Spec => []AppliedOnce
BY Invariance, PTL DEF IInv

(* The version table and the schema never disagree, at any interruption    *)
(* of SchemaMigrationRunner._apply.                                        *)
THEOREM LedgerIsTheSchema == Spec => []LedgerMatchesSchema
BY Invariance, PTL DEF IInv

-----------------------------------------------------------------------------
(* What a caller knows of the database, and the order of application.      *)

Working == {"scan"} \cup InTransaction

(* The versions r's call has dealt with. *)
Done(r) == {v \in VersionsIn(dir[r]) : v < at[r] \/ (v = at[r] /\ pc[r] = "scan")}

InSync(r, v) == ledger[v] \in {NoChecksum, ContentOf(dir[r], v)}

(* What was read is still there, and what was dealt with is in the         *)
(* database.  This survives the loss of the lock, since a version that has *)
(* a row keeps it.                                                         *)
Sync(r) ==
    /\ pc[r] \in {"acquire", "bootstrap", "read"} => at[r] = 0
    /\ pc[r] \in Working =>
           /\ \A v \in Versions : seen[r][v] # NoRow => ledger[v] = seen[r][v]
           /\ \A v \in Done(r) : InSync(r, v)
    /\ pc[r] \in InTransaction => ~SharesVersion(dir[r])
    /\ pc[r] = "release" /\ result[r] = "ok"
         => ~SharesVersion(dir[r]) /\ \A v \in VersionsIn(dir[r]) : InSync(r, v)
SyncInv == \A r \in Runners : Sync(r)

(* As long as no lock was lost, only its holder is past acquire, and knows *)
(* every row but the ones it has committed itself.                         *)
Knows(r) ==
    /\ pc[r] \notin {"idle", "acquire"} => lock = r
    /\ pc[r] = "scan" =>
           \A w \in Versions : ledger[w] # NoRow => seen[r][w] # NoRow \/ w <= at[r]
    /\ pc[r] \in InTransaction =>
           \A w \in Versions : ledger[w] # NoRow => w < at[r]
OrderInv == losses = 0 => \A r \in Runners : Knows(r)

(* A version that has a row keeps it, and only a commit adds one.          *)
RowsStay == \A v \in Versions : ledger[v] # NoRow => ledger'[v] = ledger[v]

LEMMA VersionNumbers ==
    ASSUME IInv, NEW r \in Runners
    PROVE  /\ VersionsIn(dir[r]) \subseteq Versions
           /\ \A v \in Versions : v \in Nat /\ v # 0
           /\ at[r] \in Nat
<1>1. dir[r] \subseteq File /\ at[r] \in Versions \cup {0}
  BY DEF IInv, TypeOK
<1>2. \A v \in Versions : v \in Nat /\ v # 0
  BY VersionsAssumption
<1>3. VersionsIn(dir[r]) \subseteq Versions
  BY <1>1 DEF VersionsIn, File
<1> QED
  BY <1>1, <1>2, <1>3

LEMMA CommitAddsItsRow ==
    ASSUME IInv, NEW r \in Runners, Commit(r)
    PROVE  /\ at[r] \in VersionsIn(dir[r]) /\ at[r] \in Versions
           /\ ContentOf(dir[r], at[r]) \in Contents
           /\ ledger[at[r]] = NoRow
           /\ ledger' = [ledger EXCEPT ![at[r]] = ContentOf(dir[r], at[r])]
           /\ \A v \in Versions :
                  ledger'[v] = IF v = at[r] THEN ContentOf(dir[r], at[r]) ELSE ledger[v]
<1>1. at[r] \in VersionsIn(dir[r]) /\ at[r] \in Versions /\ txn[r] = at[r] /\ at[r] # 0
  BY VersionNumbers DEF IInv, TxnInv, InTransaction, Commit
<1>2. ContentOf(dir[r], at[r]) \in Contents
  BY <1>1, ContentType DEF IInv, TypeOK
<1> QED
  BY <1>1, <1>2 DEF IInv, TypeOK, TxnInv, Ledger, Commit

LEMMA StepsKeepRows ==
    ASSUME IInv, [Next]_vars
    PROVE  RowsStay
<1>1. CASE \E r \in Runners : Commit(r)
  BY <1>1, CommitAddsItsRow DEF RowsStay
<1>2. CASE ~ \E r \in Runners : Commit(r)
  <2>1. ledger' = ledger
    BY <1>2 DEF Next, Steps, ScanStep, Start, Acquire, Bootstrap, Read, ListFails, Finish, Verify, Reject,
                Begin, Insert, InsertFails, Script, Release, PoolTimeout, Fail, Crash, LoseLock, Leave, db, vars
  <2> QED
    BY <2>1 DEF RowsStay
<1> QED
  BY <1>1, <1>2

(* A step of another runner leaves what r knows true.                      *)
LEMMA SyncFrame ==
    ASSUME IInv, RowsStay, NEW r \in Runners, Sync(r),
           pc'[r] = pc[r], dir'[r] = dir[r], seen'[r] = seen[r], at'[r] = at[r], result'[r] = result[r]
    PROVE  Sync(r)'
<1>1. \A v \in VersionsIn(dir[r]) : v \in Versions /\ ContentOf(dir[r], v) \in Contents
  BY VersionNumbers, ContentType DEF IInv, TypeOK
<1>2. \A v \in VersionsIn(dir[r]) : InSync(r, v) => InSync(r, v)'
  BY <1>1, RowsAssumption DEF InSync, RowsStay
<1>3. Done(r)' = Done(r) /\ Done(r) \subseteq VersionsIn(dir[r])
  BY DEF Done
<1> QED
  BY <1>1, <1>2, <1>3, RowsAssumption DEF Sync, RowsStay

(* Each runner's own steps keep Sync.                                      *)
LEMMA SyncStep ==
    ASSUME IInv, NEW r \in Runners, Sync(r),
           \/ \E d \in Directories : Start(r, d)
           \/ Steps(r) \/ Fail(r) \/ Crash(r) \/ LoseLock(r)
    PROVE  Sync(r)'
<1> USE DEF Working, InTransaction
<1>0. /\ VersionsIn(dir[r]) \subseteq Versions
      /\ \A v \in Versions : v \in Nat /\ v # 0
      /\ at[r] \in Nat
  BY VersionNumbers
<1>1. ASSUME NEW d \in Directories, Start(r, d) PROVE Sync(r)'
  BY <1>1 DEF Start, GoTo, Sync, IInv, TypeOK
<1>2. CASE Acquire(r) \/ Bootstrap(r)
  BY <1>2 DEF Acquire, Bootstrap, GoTo, Sync, IInv, TypeOK, local
<1>3. CASE Read(r)
  <2>1. Done(r)' = {}
    BY <1>0, <1>3 DEF Read, GoTo, Sync, Done, IInv, TypeOK
  <2> QED
    BY <1>3, <2>1 DEF Read, GoTo, Sync, IInv, TypeOK, db
<1>4. ASSUME NEW v \in Versions, Verify(r, v) PROVE Sync(r)'
  <2>1. /\ pc[r] = "scan" /\ pc' = pc /\ ledger' = ledger /\ dir' = dir /\ seen' = seen
        /\ at' = [at EXCEPT ![r] = v] /\ at'[r] = v
    BY <1>4 DEF Verify, Scanning, db, IInv, TypeOK
  <2>2. Done(r)' \subseteq Done(r) \cup {v}
    BY <1>0, <1>4, <2>1 DEF Verify, IsNext, Ahead, Done
  <2>3. InSync(r, v)
    BY <1>4, <2>1 DEF Verify, Unchanged, InSync, Sync
  <2>4. \A w \in Done(r)' : InSync(r, w)'
    BY <2>1, <2>2, <2>3 DEF Sync, InSync
  <2> QED
    BY <2>1, <2>4 DEF Sync
<1>5. ASSUME NEW v \in Versions, Begin(r, v) PROVE Sync(r)'
  <2>1. /\ pc[r] = "scan" /\ pc'[r] = "insert" /\ ledger' = ledger /\ dir' = dir /\ seen' = seen
        /\ at'[r] = v /\ ~SharesVersion(dir[r])
    BY <1>5 DEF Begin, GoTo, Scanning, db, IInv, TypeOK
  <2>2. Done(r)' \subseteq Done(r)
    BY <1>0, <1>5, <2>1 DEF Begin, IsNext, Ahead, Done
  <2>3. \A w \in Done(r)' : InSync(r, w)'
    BY <2>1, <2>2 DEF Sync, InSync
  <2> QED
    BY <2>1, <2>3 DEF Sync
<1>6. CASE Insert(r) \/ Script(r)
  <2>1. /\ pc[r] \in InTransaction /\ pc'[r] \in InTransaction
        /\ UNCHANGED <<ledger, dir, seen, at>>
    BY <1>6 DEF Insert, Script, GoTo, db, local, IInv, TypeOK
  <2>2. Done(r)' = Done(r)
    BY <2>1 DEF Done
  <2>3. \A w \in Done(r)' : InSync(r, w)'
    BY <2>1, <2>2 DEF Sync, InSync
  <2> QED
    BY <2>1, <2>3 DEF Sync
<1>7. CASE Commit(r)
  <2>1. /\ pc[r] = "commit" /\ pc'[r] = "scan" /\ UNCHANGED <<dir, seen, at>>
    BY <1>7 DEF Commit, GoTo, local, IInv, TypeOK
  <2>2. Done(r)' \subseteq Done(r) \cup {at[r]}
    BY <2>1 DEF Done
  <2>3. \A w \in VersionsIn(dir[r]) : ContentOf(dir[r], w) \in Contents
    BY ContentType DEF IInv, TypeOK
  <2>4. \A w \in Done(r)' : InSync(r, w)'
    BY <1>0, <1>7, <2>1, <2>2, <2>3, CommitAddsItsRow, RowsAssumption DEF Sync, InSync, Done
  <2>5. \A w \in Versions : seen'[r][w] # NoRow => ledger'[w] = seen'[r][w]
    BY <1>7, <2>1, CommitAddsItsRow DEF Sync
  <2> QED
    BY <2>1, <2>4, <2>5 DEF Sync
<1>8. CASE Finish(r)
  <2>1. /\ pc[r] = "scan" /\ ~SharesVersion(dir[r])
        /\ pc'[r] = "release" /\ UNCHANGED <<ledger, dir>>
    BY <1>8 DEF Finish, Scanning, Leave, db, local, IInv, TypeOK
  <2>2. \A v \in VersionsIn(dir[r]) : v \in Done(r)
    BY <1>0, <1>8, <2>1 DEF Finish, Ahead, Done
  <2>3. \A v \in VersionsIn(dir[r])' : InSync(r, v)'
    BY <2>1, <2>2 DEF Sync, InSync
  <2> QED
    BY <2>1, <2>3 DEF Sync
<1>9. CASE \/ ListFails(r) \/ InsertFails(r) \/ Fail(r) \/ PoolTimeout(r)
           \/ \E v \in Versions : Reject(r, v)
  <2>1. Leave(r, "error")
    BY <1>9 DEF ListFails, InsertFails, Fail, PoolTimeout, Reject
  <2> QED
    BY <2>1 DEF Leave, Sync, IInv, TypeOK
<1>10. CASE Release(r) \/ Crash(r)
  BY <1>10 DEF Release, Crash, GoTo, Sync, IInv, TypeOK
<1>11. CASE LoseLock(r)
  <2>1. UNCHANGED <<ledger, pc, dir, seen, at, result>>
    BY <1>11 DEF LoseLock, db, local
  <2>2. RowsStay
    BY <2>1 DEF RowsStay
  <2> QED
    BY <2>1, <2>2, SyncFrame
<1> QED
  BY <1>1, <1>2, <1>3, <1>4, <1>5, <1>6, <1>7, <1>8, <1>9, <1>10, <1>11 DEF Steps, ScanStep

(* A step is one runner's, and no other runner's variables move with it.   *)
LEMMA OneMoves ==
    ASSUME IInv, NEW r \in Runners,
           \/ \E d \in Directories : Start(r, d)
           \/ Steps(r) \/ Fail(r) \/ Crash(r) \/ LoseLock(r)
    PROVE  \A q \in Runners \ {r} :
               /\ pc'[q] = pc[q] /\ dir'[q] = dir[q] /\ seen'[q] = seen[q]
               /\ at'[q] = at[q] /\ result'[q] = result[q]
BY DEF Steps, ScanStep, Start, Acquire, Bootstrap, Read, ListFails, Finish, Verify, Reject, Begin, Insert, InsertFails,
       Script, Commit, Release, PoolTimeout, Fail, Crash, LoseLock, Leave, GoTo, db, local, IInv, TypeOK

(* What a call has read and dealt with stays true until it returns.        *)
THEOREM SyncInvariance == Spec => []SyncInv
<1>1. Init => SyncInv
  BY DEF Init, SyncInv, Sync, Working, InTransaction
<1>2. IInv /\ SyncInv /\ [Next]_vars => SyncInv'
  <2> SUFFICES ASSUME IInv, SyncInv, [Next]_vars PROVE SyncInv'
    OBVIOUS
  <2>0. RowsStay
    BY StepsKeepRows
  <2>1. CASE UNCHANGED vars
    BY <2>0, <2>1, SyncFrame DEF vars, SyncInv
  <2>2. ASSUME NEW r \in Runners,
               \/ \E d \in Directories : Start(r, d)
               \/ Steps(r) \/ Fail(r) \/ Crash(r) \/ LoseLock(r)
        PROVE  SyncInv'
    BY <2>0, <2>2, SyncFrame, SyncStep, OneMoves DEF SyncInv
  <2> QED
    BY <2>1, <2>2 DEF Next
<1> QED
  BY <1>1, <1>2, Invariance, PTL DEF Spec

(* SchemaMigrationRunner.apply() never reports success while a file of the *)
(* directory is missing from the database or differs from it, even when    *)
(* the lock was lost and others applied files meanwhile.                   *)
THEOREM SuccessIsHonest == Spec => []SuccessMeansInSync
<1>1. IInv /\ SyncInv => SuccessMeansInSync
  <2> SUFFICES ASSUME IInv, SyncInv, NEW r \in Runners, pc[r] = "release", result[r] = "ok", NEW f \in dir[r]
               PROVE  ledger[f.version] \in {NoChecksum, f.content}
    BY DEF SuccessMeansInSync
  <2>1. ~SharesVersion(dir[r]) /\ InSync(r, f.version)
    BY DEF SyncInv, Sync, VersionsIn
  <2>2. ContentOf(dir[r], f.version) = f.content
    BY <2>1 DEF SharesVersion, ContentOf
  <2> QED
    BY <2>1, <2>2 DEF InSync
<1> QED
  BY <1>1, Invariance, SyncInvariance, PTL

-----------------------------------------------------------------------------
(* Order: r is alone past acquire, so nobody adds a row behind its back.   *)

(* A step of another runner that leaves the rows and r's lock alone.       *)
LEMMA KnowsFrame ==
    ASSUME NEW r \in Runners, Knows(r), ledger' = ledger,
           pc'[r] = pc[r], seen'[r] = seen[r], at'[r] = at[r], lock = r => lock' = r
    PROVE  Knows(r)'
BY DEF Knows

LEMMA KnowsStep ==
    ASSUME IInv, NEW r \in Runners, Knows(r),
           \/ \E d \in Directories : Start(r, d)
           \/ Steps(r) \/ Fail(r) \/ Crash(r)
    PROVE  Knows(r)'
<1> USE DEF InTransaction
<1>0. /\ \A v \in Versions : v \in Nat /\ v # 0
      /\ at[r] \in Nat
  BY VersionNumbers
<1>1. ASSUME NEW d \in Directories, Start(r, d) PROVE Knows(r)'
  BY <1>1 DEF Start, GoTo, Knows, IInv, TypeOK
<1>2. CASE Acquire(r) \/ Bootstrap(r)
  BY <1>2 DEF Acquire, Bootstrap, GoTo, Knows, IInv, TypeOK, local
<1>3. CASE Read(r)
  BY <1>3 DEF Read, GoTo, Knows, IInv, TypeOK, db
<1>4. ASSUME NEW v \in Versions, Verify(r, v) PROVE Knows(r)'
  <2>1. /\ pc[r] = "scan" /\ pc' = pc /\ lock' = lock /\ ledger' = ledger /\ seen' = seen
        /\ at'[r] = v /\ at[r] < v
    BY <1>4 DEF Verify, Scanning, IsNext, Ahead, db, IInv, TypeOK
  <2> QED
    BY <1>0, <2>1 DEF Knows
<1>5. ASSUME NEW v \in Versions, Begin(r, v) PROVE Knows(r)'
  <2>1. /\ pc[r] = "scan" /\ pc'[r] = "insert" /\ lock' = lock /\ ledger' = ledger
        /\ at'[r] = v /\ at[r] < v
    BY <1>5 DEF Begin, GoTo, Scanning, IsNext, Ahead, db, IInv, TypeOK
  <2>2. \A w \in Versions : seen[r][w] # NoRow => w < v
    BY <1>0, <1>5 DEF Begin, Pending, OutOfOrder
  <2>3. \A w \in Versions : ledger[w] # NoRow => w < v
    BY <1>0, <2>1, <2>2 DEF Knows
  <2> QED
    BY <2>1, <2>3 DEF Knows
<1>6. CASE Insert(r) \/ Script(r)
  BY <1>6 DEF Insert, Script, GoTo, Knows, db, local, IInv, TypeOK
<1>7. CASE Commit(r)
  <2>1. /\ pc[r] = "commit" /\ pc'[r] = "scan" /\ UNCHANGED <<lock, at>>
    BY <1>7 DEF Commit, GoTo, local, IInv, TypeOK
  <2>2. \A w \in Versions : ledger'[w] # NoRow => w <= at'[r]
    BY <1>0, <1>7, <2>1, CommitAddsItsRow DEF Knows
  <2> QED
    BY <2>1, <2>2 DEF Knows
<1>8. CASE \/ ListFails(r) \/ InsertFails(r) \/ Finish(r) \/ Fail(r) \/ PoolTimeout(r)
           \/ \E v \in Versions : Reject(r, v)
  <2>1. pc[r] \notin {"idle", "acquire"}
    BY <1>8 DEF ListFails, InsertFails, Finish, Fail, PoolTimeout, Reject, Scanning
  <2>2. Leave(r, "ok") \/ Leave(r, "error")
    BY <1>8 DEF ListFails, InsertFails, Finish, Fail, PoolTimeout, Reject
  <2> QED
    BY <2>1, <2>2 DEF Leave, Knows, IInv, TypeOK
<1>9. CASE Release(r) \/ Crash(r)
  BY <1>9 DEF Release, Crash, GoTo, Knows, IInv, TypeOK
<1> QED
  BY <1>1, <1>2, <1>3, <1>4, <1>5, <1>6, <1>7, <1>8, <1>9 DEF Steps, ScanStep

(* No step of one runner frees a lock another holds, short of its loss.    *)
LEMMA LockStays ==
    ASSUME IInv, NEW r \in Runners,
           \/ \E d \in Directories : Start(r, d)
           \/ Steps(r) \/ Fail(r) \/ Crash(r)
    PROVE  /\ losses' = losses
           /\ \A q \in Runners \ {r} : lock = q => lock' = q
BY RunnersAssumption
   DEF Steps, ScanStep, Start, Acquire, Bootstrap, Read, ListFails, Finish, Verify, Reject, Begin, Insert, InsertFails,
       Script, Commit, Release, PoolTimeout, Fail, Crash, Leave

LEMMA OnlyCommitsWrite ==
    ASSUME NEW r \in Runners, ~Commit(r),
           \/ \E d \in Directories : Start(r, d)
           \/ Steps(r) \/ Fail(r) \/ Crash(r)
    PROVE  ledger' = ledger /\ schema' = schema
BY DEF Steps, ScanStep, Start, Acquire, Bootstrap, Read, ListFails, Finish, Verify, Reject, Begin, Insert, InsertFails,
       Script, Release, PoolTimeout, Fail, Crash, Leave, db

(* The runner that commits holds the lock, so every other is idle or       *)
(* waits for it, and Knows asks nothing of its copy of the ledger.         *)
LEMMA CommitsAlone ==
    ASSUME IInv, NEW r \in Runners, Commit(r), NEW q \in Runners \ {r}, Knows(r), Knows(q)
    PROVE  Knows(q)'
<1>1. lock = r /\ pc[q] \in {"idle", "acquire"}
  BY DEF Knows, Commit
<1>2. pc'[q] = pc[q]
  BY DEF Commit, GoTo, IInv, TypeOK
<1> QED
  BY <1>1, <1>2 DEF Knows, InTransaction

(* What is committed is above all that was.                                *)
LEMMA CommitInOrder ==
    ASSUME IInv, NEW r \in Runners, Commit(r), Knows(r), AppliedInOrder
    PROVE  AppliedInOrder'
<1> SUFFICES ASSUME losses' = 0 PROVE AppliedInOrder'
  BY DEF AppliedInOrder
<1> DEFINE v == at[r]
           new == [version |-> v, content |-> ContentOf(dir[r], v)]
<1>1. losses = 0 /\ schema' = Append(schema, new) /\ new.version = v
  BY DEF Commit
<1>2. v \in Versions /\ new \in File /\ \A w \in Versions : w \in Nat
  BY CommitAddsItsRow, VersionNumbers DEF File
<1>3. \A w \in Versions : ledger[w] # NoRow => w < v
  BY DEF Knows, Commit, InTransaction
<1> HIDE DEF v, new
<1>4. \A i \in DOMAIN schema : schema[i] \in File /\ schema[i].version \in Versions
  <2>1. \A i \in DOMAIN schema : schema[i] \in File
    BY DEF IInv, TypeOK
  <2> QED
    BY <2>1 DEF File
<1>5. \A i \in DOMAIN schema : schema[i].version < v
  <2>1. \A i \in DOMAIN schema : ledger[schema[i].version] # NoRow
    BY <1>4, RowsAssumption DEF IInv, LedgerMatchesSchema, File
  <2> QED
    BY <1>3, <1>4, <2>1
<1>6. /\ DOMAIN schema' = DOMAIN schema \cup {Len(schema) + 1}
      /\ \A i \in DOMAIN schema : schema'[i] = schema[i] /\ i < Len(schema) + 1
      /\ schema'[Len(schema) + 1] = new
      /\ DOMAIN schema \subseteq Nat /\ Len(schema) \in Nat
  BY <1>1, <1>2 DEF IInv, TypeOK
<1>7. \A i, j \in DOMAIN schema' : i < j => schema'[i].version < schema'[j].version
  <2> SUFFICES ASSUME NEW i \in DOMAIN schema', NEW j \in DOMAIN schema', i < j
               PROVE  schema'[i].version < schema'[j].version
    OBVIOUS
  <2>1. i \in DOMAIN schema
    BY <1>6
  <2>2. CASE j \in DOMAIN schema
    BY <1>1, <1>6, <2>1, <2>2 DEF AppliedInOrder
  <2>3. CASE j = Len(schema) + 1
    BY <1>1, <1>5, <1>6, <2>1, <2>3
  <2> QED
    BY <1>6, <2>2, <2>3
<1>8. ASSUME NEW i \in DOMAIN schema', NEW w \in Versions, ledger'[w] = NoChecksum
      PROVE  w < schema'[i].version
  <2>1. ledger[w] = NoChecksum
    BY <1>8, CommitAddsItsRow, RowsAssumption
  <2>2. CASE i \in DOMAIN schema
    BY <1>1, <1>6, <2>1, <2>2 DEF AppliedInOrder
  <2>3. CASE i = Len(schema) + 1
    BY <1>1, <1>3, <1>6, <2>1, <2>3, RowsAssumption
  <2> QED
    BY <1>6, <2>2, <2>3
<1> QED
  BY <1>7, <1>8 DEF AppliedInOrder

(* As long as no lock is lost, all callers with all their directories      *)
(* apply migrations in ascending order (_apply_pending's test against the  *)
(* highest applied version).                                               *)
THEOREM OrderIsKept == Spec => []AppliedInOrder
<1> DEFINE Ordered == OrderInv /\ AppliedInOrder
<1>1. Init => Ordered
  BY DEF Init, OrderInv, Knows, InTransaction, AppliedInOrder
<1>2. IInv /\ Ordered /\ [Next]_vars => Ordered'
  <2> SUFFICES ASSUME IInv, Ordered, [Next]_vars PROVE Ordered'
    OBVIOUS
  <2>1. CASE UNCHANGED vars
    BY <2>1 DEF vars, OrderInv, Knows, AppliedInOrder
  <2>2. ASSUME NEW r \in Runners, LoseLock(r) PROVE Ordered'
    BY <2>2 DEF LoseLock, OrderInv, AppliedInOrder, IInv, TypeOK
  <2>3. ASSUME NEW r \in Runners,
               \/ \E d \in Directories : Start(r, d)
               \/ Steps(r) \/ Fail(r) \/ Crash(r)
        PROVE  Ordered'
    <3> SUFFICES ASSUME losses' = 0 PROVE Ordered'
      BY DEF OrderInv, AppliedInOrder
    <3>1. losses = 0 /\ \A q \in Runners : Knows(q)
      BY <2>3, LockStays DEF OrderInv
    <3>2. Knows(r)'
      BY <2>3, <3>1, KnowsStep
    <3>3. CASE Commit(r)
      BY <3>1, <3>2, <3>3, CommitsAlone, CommitInOrder DEF OrderInv
    <3>4. CASE ~Commit(r)
      <4>1. ledger' = ledger /\ schema' = schema
        BY <2>3, <3>4, OnlyCommitsWrite
      <4>2. \A q \in Runners \ {r} : Knows(q)'
        BY <2>3, <3>1, <4>1, KnowsFrame, OneMoves, LockStays
      <4> QED
        BY <3>1, <3>2, <4>1, <4>2 DEF OrderInv, AppliedInOrder
    <3> QED
      BY <3>3, <3>4
  <2> QED
    BY <2>1, <2>2, <2>3 DEF Next
<1> QED
  BY <1>1, <1>2, Invariance, PTL DEF Spec
=============================================================================
