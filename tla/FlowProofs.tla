----------------------------- MODULE FlowProofs -----------------------------
(***************************************************************************)
(* Proofs about Flow, for any workers, runs, plan, outputs and number of   *)
(* faults.                                                                 *)
(***************************************************************************)
EXTENDS Flow, SequenceTheorems, FiniteSetTheorems, TLAPS

Entries == Outputs \cup {Skipped}

-----------------------------------------------------------------------------
(* Sequences of outputs and the keys they lead to. *)

LEMMA StateSeq ==
    ASSUME NEW s \in States
    PROVE  /\ s \in Seq(Entries)
           /\ Len(s) \in 0..Len(Plan)
           /\ Len(s) \in Nat /\ Len(Plan) \in Nat
           /\ \A i \in 1..Len(s) : s[i] \in Entries
<1>1. PICK n \in 0..Len(Plan) : s \in [1..n -> Entries]
  BY DEF States, Entries
<1>2. n \in Nat /\ Len(Plan) \in Nat
  BY <1>1, PlanAssumption
<1>3. s \in Seq(Entries)
  BY <1>1, <1>2
<1>4. Len(s) = n
  BY <1>1, <1>2, <1>3
<1> QED
  BY <1>1, <1>2, <1>3, <1>4

LEMMA SeqState ==
    ASSUME NEW s \in Seq(Entries), Len(s) <= Len(Plan)
    PROVE  s \in States
<1>1. Len(s) \in 0..Len(Plan) /\ s \in [1..Len(s) -> Entries]
  BY LenProperties, PlanAssumption
<1> QED
  BY <1>1 DEF States, Entries

LEMMA EmptyState == <<>> \in States /\ Len(<<>>) = 0
<1>1. Len(Plan) \in Nat
  BY PlanAssumption
<1>2. <<>> \in Seq(Entries) /\ Len(<<>>) = 0
  BY EmptySeq
<1>3. Len(<<>>) <= Len(Plan)
  BY <1>1, <1>2
<1> QED
  BY <1>2, <1>3, SeqState, Zenon

LEMMA Longer ==
    ASSUME NEW s \in States, NEW o \in Entries, Len(s) < Len(Plan)
    PROVE  /\ Append(s, o) \in States
           /\ Len(Append(s, o)) = Len(s) + 1
           /\ Append(s, o)[Len(s) + 1] = o
           /\ \A i \in 1..Len(s) : Append(s, o)[i] = s[i]
<1>1. s \in Seq(Entries) /\ Len(s) \in Nat /\ Len(Plan) \in Nat
  BY StateSeq
<1>2. Append(s, o) \in Seq(Entries) /\ Len(Append(s, o)) = Len(s) + 1
  BY <1>1
<1>3. Len(Append(s, o)) <= Len(Plan)
  BY <1>1, <1>2
<1>4. Append(s, o) \in States
  BY <1>2, <1>3, SeqState, Zenon
<1> QED
  BY <1>1, <1>2, <1>4

LEMMA KeyType ==
    ASSUME NEW s \in States, Len(s) < Len(Plan)
    PROVE  KeyOf(s) \in Keys
<1>1. Len(s) \in Nat /\ Len(Plan) \in Nat
  BY StateSeq
<1>2. Len(s) + 1 \in Places /\ Len(s) = (Len(s) + 1) - 1
  BY <1>1 DEF Places
<1> QED
  BY <1>2, EmptyState DEF Keys, KeyOf

(* Two states that agree as far as both go. *)
Agree(s, t) == \A i \in 1..Len(s) : i <= Len(t) => s[i] = t[i]

LEMMA Prefix ==
    ASSUME NEW s \in States, NEW t \in States, Agree(s, t), Len(s) <= Len(t)
    PROVE  SubSeq(t, 1, Len(s)) = s
<1>1. /\ s \in Seq(Entries) /\ Len(s) \in Nat
      /\ t \in Seq(Entries) /\ Len(t) \in Nat
      /\ \A i \in 1..Len(t) : t[i] \in Entries
  BY StateSeq
<1>2. \A i \in 1..Len(s) : t[i] \in Entries
  BY <1>1
<1>3. /\ SubSeq(t, 1, Len(s)) \in Seq(Entries)
      /\ Len(SubSeq(t, 1, Len(s))) = Len(s)
      /\ \A i \in 1..Len(s) : SubSeq(t, 1, Len(s))[i] = t[i]
  BY <1>1, <1>2, SubSeqProperties
<1>4. \A i \in 1..Len(s) : s[i] = t[i]
  BY <1>1 DEF Agree
<1> QED
  BY <1>1, <1>3, <1>4, SeqEqual

LEMMA SamePrefix ==
    ASSUME NEW s \in States, NEW o \in Entries, Len(s) < Len(Plan), NEW k \in 1..Len(s) + 1
    PROVE  SubSeq(Append(s, o), 1, k - 1) = SubSeq(s, 1, k - 1)
<1> DEFINE t == Append(s, o)
<1>1. /\ s \in Seq(Entries) /\ Len(s) \in Nat
      /\ \A i \in 1..Len(s) : s[i] \in Entries
  BY StateSeq
<1>2. t \in States /\ Len(t) = Len(s) + 1 /\ \A i \in 1..Len(s) : t[i] = s[i]
  BY Longer
<1>3. \A i \in 1..k - 1 : s[i] \in Entries /\ t[i] \in Entries /\ t[i] = s[i]
  BY <1>1, <1>2
<1>4. /\ SubSeq(s, 1, k - 1) \in Seq(Entries)
      /\ Len(SubSeq(s, 1, k - 1)) = k - 1
      /\ \A i \in 1..k - 1 : SubSeq(s, 1, k - 1)[i] = s[i]
  BY <1>1, <1>3, SubSeqProperties
<1>5. /\ SubSeq(t, 1, k - 1) \in Seq(Entries)
      /\ Len(SubSeq(t, 1, k - 1)) = k - 1
      /\ \A i \in 1..k - 1 : SubSeq(t, 1, k - 1)[i] = t[i]
  BY <1>1, <1>3, SubSeqProperties
<1> QED
  BY <1>3, <1>4, <1>5, SeqEqual

LEMMA Whole ==
    ASSUME NEW s \in States
    PROVE  SubSeq(s, 1, Len(s)) = s
  BY StateSeq, SubSeqFull

(* A longer state that agrees passed the row of the shorter one. *)
LEMMA PassedRow ==
    ASSUME NEW rows, NEW s \in States, NEW t \in States, Agree(s, t), Len(s) < Len(t), Replayed(rows, t)
    PROVE  rows[KeyOf(s)].st = "completed" /\ rows[KeyOf(s)].out = t[Len(s) + 1]
<1>1. Len(s) \in Nat /\ Len(t) \in Nat
  BY StateSeq
<1>2. SubSeq(t, 1, (Len(s) + 1) - 1) = s /\ Len(s) + 1 \in 1..Len(t)
  BY <1>1, Prefix
<1> QED
  BY <1>2 DEF Replayed

LEMMA SameState ==
    ASSUME NEW s \in States, NEW t \in States, Agree(s, t), Len(s) = Len(t)
    PROVE  s = t
  BY Prefix, Whole, StateSeq

LEMMA ReplayOneMore ==
    ASSUME NEW rows, NEW s \in States, NEW o \in Entries, Len(s) < Len(Plan),
           Replayed(rows, s), rows[KeyOf(s)].st = "completed", rows[KeyOf(s)].out = o
    PROVE  Replayed(rows, Append(s, o))
<1> DEFINE t == Append(s, o)
<1>1. Len(s) \in Nat
  BY StateSeq
<1>2. t \in States /\ Len(t) = Len(s) + 1 /\ t[Len(s) + 1] = o /\ \A i \in 1..Len(s) : t[i] = s[i]
  BY Longer
<1>3. SUFFICES ASSUME NEW k \in 1..Len(s) + 1
      PROVE  rows[KeyOf(SubSeq(t, 1, k - 1))].st = "completed" /\ rows[KeyOf(SubSeq(t, 1, k - 1))].out = t[k]
  BY <1>2 DEF Replayed
<1>4. SubSeq(t, 1, k - 1) = SubSeq(s, 1, k - 1)
  BY SamePrefix
<1>5. CASE k \in 1..Len(s)
  BY <1>2, <1>4, <1>5 DEF Replayed
<1>6. CASE k = Len(s) + 1
  <2>1. SubSeq(s, 1, k - 1) = s
    BY <1>1, <1>6, Whole
  <2> QED
    BY <1>2, <1>4, <1>6, <2>1
<1> QED
  BY <1>1, <1>5, <1>6

(* Completed rows that stay keep a replay good. *)
Kept(rows, rows2) ==
    \A k \in Keys : rows[k].st = "completed" => rows2[k].st = "completed" /\ rows2[k].out = rows[k].out

LEMMA StillReplayed ==
    ASSUME NEW rows, NEW rows2, Kept(rows, rows2), NEW s \in States, Replayed(rows, s)
    PROVE  Replayed(rows2, s)
<1>1. SUFFICES ASSUME NEW k \in 1..Len(s)
      PROVE  rows2[KeyOf(SubSeq(s, 1, k - 1))].st = "completed" /\ rows2[KeyOf(SubSeq(s, 1, k - 1))].out = s[k]
  BY DEF Replayed
<1> DEFINE t == SubSeq(s, 1, k - 1)
<1>2. /\ Len(s) \in 0..Len(Plan) /\ Len(s) \in Nat /\ Len(Plan) \in Nat
      /\ \A i \in 1..Len(s) : s[i] \in Entries
  BY StateSeq
<1>3. \A i \in 1..k - 1 : s[i] \in Entries
  BY <1>2
<1>4. t \in Seq(Entries) /\ Len(t) = k - 1
  BY <1>2, <1>3, SubSeqProperties
<1>5. Len(t) <= Len(Plan) /\ Len(t) < Len(Plan)
  BY <1>2, <1>4
<1>6. t \in States
  BY <1>4, <1>5, SeqState, Zenon
<1>7. KeyOf(t) \in Keys
  BY <1>5, <1>6, KeyType, Zenon
<1> QED
  BY <1>7 DEF Replayed, Kept

-----------------------------------------------------------------------------
(* Types. *)

LEMMA RowTypes ==
    ASSUME NEW x \in RowType
    PROVE  /\ Upserted(x) \in RowType
           /\ Claimed(x) \in RowType
           /\ Reclaimed(x) \in RowType
           /\ [x EXCEPT !.beat = TRUE] \in RowType
           /\ [x EXCEPT !.beat = FALSE] \in RowType
           /\ [x EXCEPT !.due = TRUE] \in RowType
           /\ \A o \in Entries : Completed(x, o) \in RowType
           /\ \A final \in BOOLEAN : Failed(x, final) \in RowType
<1>1. x.st \in {"none", "pending", "running", "completed", "failed"} /\ x.attempts \in Nat /\ x.beat \in BOOLEAN /\ x.due \in BOOLEAN
  BY DEF RowType
<1>2. Upserted(x) \in RowType
  BY DEF RowType, Upserted
<1>3. Claimed(x) \in RowType
  <2>1. x.attempts + 1 \in Nat
    BY <1>1
  <2> QED
    BY <2>1 DEF RowType, Claimed
<1>4. Reclaimed(x) \in RowType
  BY DEF RowType, Reclaimed
<1>5. /\ [x EXCEPT !.beat = TRUE] \in RowType /\ [x EXCEPT !.beat = FALSE] \in RowType
      /\ [x EXCEPT !.due = TRUE] \in RowType
  BY DEF RowType
<1>6. ASSUME NEW o \in Entries
      PROVE  Completed(x, o) \in RowType
  BY DEF RowType, Entries, Completed
<1>7. ASSUME NEW final \in BOOLEAN
      PROVE  Failed(x, final) \in RowType
  <2> DEFINE s == IF final THEN "failed" ELSE "pending"
  <2>1. s \in {"none", "pending", "running", "completed", "failed"}
    OBVIOUS
  <2>2. \A y \in {"none", "pending", "running", "completed", "failed"} : [x EXCEPT !.st = y, !.due = final] \in RowType
    BY DEF RowType
  <2> QED
    BY <2>1, <2>2 DEF Failed
<1> QED
  BY <1>2, <1>3, <1>4, <1>5, <1>6, <1>7

AtStep == {"upsert", "claim"} \cup Held

(* An executor at a step has a step left to do; one that is not there is    *)
(* nowhere.                                                                 *)
Placed(e) ==
    /\ e.pc \in AtStep => Len(e.st) < Len(Plan)
    /\ e.pc = "idle" => e = Idle
TypeInv == TypeOK /\ \A w \in Workers, r \in Runs : Placed(exec[w][r])

(* The executor of one worker and run moves. *)
Moves(w, r, e) == exec' = [exec EXCEPT ![w][r] = e]

LEMMA MovesType ==
    ASSUME TypeInv, NEW w \in Workers, NEW r \in Runs, NEW e \in ExecType, Placed(e), Moves(w, r, e)
    PROVE  /\ exec' \in [Workers -> [Runs -> ExecType]]
           /\ \A v \in Workers, q \in Runs : Placed(exec'[v][q])
           /\ exec'[w][r] = e
           /\ \A v \in Workers, q \in Runs : v # w \/ q # r => exec'[v][q] = exec[v][q]
  BY DEF TypeInv, TypeOK, Moves

LEMMA ExecFacts ==
    ASSUME TypeInv, NEW w \in Workers, NEW r \in Runs
    PROVE  /\ exec[w][r] \in ExecType
           /\ exec[w][r].st \in States
           /\ exec[w][r].out \in Entries
           /\ exec[w][r].pc \in PC
           /\ exec[w][r].pc \in AtStep =>
                /\ Len(exec[w][r].st) < Len(Plan)
                /\ Key(w, r) \in Keys
                /\ Row(w, r) \in RowType
<1>1. exec[w][r] \in ExecType /\ Placed(exec[w][r]) /\ row[r] \in [Keys -> RowType]
  BY DEF TypeInv, TypeOK
<1>2. exec[w][r].st \in States /\ exec[w][r].out \in Entries /\ exec[w][r].pc \in PC
  BY <1>1 DEF ExecType, Entries
<1>3. exec[w][r].pc \in AtStep => Len(exec[w][r].st) < Len(Plan) /\ Key(w, r) \in Keys
  BY <1>1, <1>2, KeyType DEF Placed, Key
<1> QED
  BY <1>1, <1>2, <1>3 DEF Row

(* GoTo moves the program counter alone. *)
LEMMA GoToMoves ==
    ASSUME TypeInv, NEW w \in Workers, NEW r \in Runs, NEW p \in PC \ {"idle"}, GoTo(w, r, p),
           p \in AtStep => Len(exec[w][r].st) < Len(Plan)
    PROVE  LET e == [exec[w][r] EXCEPT !.pc = p] IN
           /\ Moves(w, r, e)
           /\ e \in ExecType /\ Placed(e)
           /\ e.pc = p /\ e.st = exec[w][r].st /\ e.out = exec[w][r].out
<1> DEFINE e == [exec[w][r] EXCEPT !.pc = p]
<1>1. exec[w][r] \in ExecType
  BY ExecFacts
<1>2. Moves(w, r, e)
  BY DEF GoTo, Moves, TypeInv, TypeOK
<1>3. e \in ExecType /\ e.pc = p /\ e.st = exec[w][r].st /\ e.out = exec[w][r].out
  BY <1>1 DEF ExecType
<1> QED
  BY <1>2, <1>3 DEF Placed

(* Passed appends an output and goes to the next place, or to the end. *)
LEMMA PassedMoves ==
    ASSUME TypeInv, NEW w \in Workers, NEW r \in Runs, NEW o \in Entries, Passed(w, r, o),
           exec[w][r].pc \in AtStep
    PROVE  \E e \in ExecType :
             /\ Moves(w, r, e) /\ Placed(e)
             /\ e.pc \in {"save", "end", "upsert"}
             /\ e.pc = "end" => Len(e.st) = Len(Plan)
             /\ e.st = Append(exec[w][r].st, o)
<1> DEFINE s == Append(exec[w][r].st, o)
           next == IF Len(s) = Len(Plan) THEN "end" ELSE "upsert"
           e == [pc |-> IF Kind(w, r) = "wait" THEN next ELSE "save", st |-> s, out |-> Skipped]
<1>1. exec[w][r].st \in States /\ Len(exec[w][r].st) < Len(Plan)
  BY ExecFacts
<1>2. Len(exec[w][r].st) \in Nat /\ Len(Plan) \in Nat
  BY <1>1, StateSeq
<1>3. s \in States /\ Len(s) = Len(exec[w][r].st) + 1
  BY <1>1, Longer, Zenon
<1>4. next \in {"end", "upsert"} /\ (next = "end" => Len(s) = Len(Plan)) /\ (next = "upsert" => Len(s) < Len(Plan))
  BY <1>1, <1>2, <1>3
<1>5. e.pc \in {"save", "end", "upsert"} /\ (e.pc = "end" => Len(s) = Len(Plan)) /\ (e.pc = "upsert" => Len(s) < Len(Plan))
  BY <1>4
<1>6. e \in ExecType
  <2>1. e.pc \in PC
    BY <1>5 DEF PC
  <2> QED
    BY <1>3, <2>1 DEF ExecType
<1>7. Placed(e)
  BY <1>5 DEF Placed, AtStep, Held, Beating
<1>8. Moves(w, r, e)
  BY DEF Passed, Moves
<1> QED
  BY <1>5, <1>6, <1>7, <1>8

LEMMA SetRowType ==
    ASSUME TypeInv, NEW r \in Runs, NEW k \in Keys, NEW x \in RowType, SetRow(r, k, x)
    PROVE  /\ row' \in [Runs -> [Keys -> RowType]]
           /\ row'[r][k] = x
           /\ \A q \in Runs, j \in Keys : q # r \/ j # k => row'[q][j] = row[q][j]
  BY DEF TypeInv, TypeOK, SetRow

LEMMA InitType == Init => TypeInv
<1> SUFFICES ASSUME Init PROVE TypeInv
  OBVIOUS
<1>1. <<>> \in States /\ Skipped \in Entries
  BY EmptyState DEF Entries
<1>2. NoRow \in RowType
  BY DEF NoRow, RowType
<1>3. Idle \in ExecType /\ Placed(Idle)
  BY <1>1 DEF Idle, ExecType, PC, Placed, AtStep, Held, Beating
<1>4. TypeOK
  <2>1. inbox \in [Runs -> Seq(Outputs)]
    BY EmptySeq DEF Init
  <2> QED
    BY <1>1, <1>2, <1>3, <2>1 DEF Init, TypeOK, RunStatus
<1> QED
  BY <1>3, <1>4 DEF Init, TypeInv

(* What a failing statement does: its effect on the row is made or not, and *)
(* the executor is to fail the run or to end without a word.                *)
Rewritten(w, r, x) ==
    LET pc == exec[w][r].pc
        old == Row(w, r)
    IN  \/ pc = "upsert" /\ x = Upserted(old)
        \/ pc = "claim" /\ Claimable(old) /\ x = Claimed(old)
        \/ pc \in {"done", "skip"} /\ x = Completed(old, exec[w][r].out)
        \/ pc \in {"retry", "final", "abort"} /\ x = Failed(old, pc # "retry")
LeavesOthers(set, r) == set' = set \/ set' = set \cup {r}

LEMMA FailingFacts ==
    ASSUME TypeInv, NEW w \in Workers, NEW r \in Runs, Failing(w, r)
    PROVE  /\ \E p \in {"fail", "leave"} : GoTo(w, r, p)
           /\ exec[w][r].pc \notin {"idle", "leave"}
           /\ exec'[w][r].pc \in {"fail", "leave"} /\ exec'[w][r].st = exec[w][r].st
           /\ \/ row' = row
              \/ exec[w][r].pc \in AtStep /\ \E x : SetRow(r, Key(w, r), x) /\ Rewritten(w, r, x)
           /\ UNCHANGED <<sent, leadership, lapsed, contested, cancelled>>
           /\ faults' = faults + 1
           /\ LeavesOthers(adrift, r) /\ LeavesOthers(spilled, r)
           /\ \/ run' = run /\ output' = output
              \/ run' = run /\ output' = [output EXCEPT ![r] = exec[w][r].st] /\ exec[w][r].pc = "save"
              \/ WriteStatus(w, r) /\ row' = row
           /\ inbox' = inbox \/ (exec[w][r].pc = "body" /\ inbox[r] # <<>> /\ inbox' = [inbox EXCEPT ![r] = Tail(@)])
           /\ exec[w][r].pc \in {"fail", "cancel"} => exec'[w][r].pc = "leave"
           /\ exec'[w][r].pc = "leave" =>
                  /\ row' = row
                  /\ \/ r \in adrift'
                     \/ exec[w][r].pc = "requeue"
                     \/ exec[w][r].pc \in {"fail", "cancel"} /\ WriteStatus(w, r)
<1> USE DEF At, LeavesOthers, AtStep, Held, Beating, db, leadership
<1> DEFINE pc == exec[w][r].pc
<1>1. exec \in [Workers -> [Runs -> ExecType]]
  BY DEF TypeInv, TypeOK
<1>2. ASSUME NEW p, GoTo(w, r, p)
      PROVE  exec'[w][r].pc = p /\ exec'[w][r].st = exec[w][r].st
  BY <1>1, <1>2 DEF GoTo, ExecType
<1>3. CASE RowFails(w, r)
  <2>1. GoTo(w, r, "fail") /\ exec'[w][r].pc = "fail" /\ exec'[w][r].st = exec[w][r].st
    BY <1>2, <1>3 DEF RowFails
  <2>2. PICK x \in {Row(w, r), Written(w, r)} : SetRow(r, Key(w, r), x)
    BY <1>3 DEF RowFails
  <2>3. pc \in {"upsert", "claim", "done", "skip", "retry", "final", "abort"}
    BY <1>3 DEF RowFails
  <2>4. x = Row(w, r) => row' = row
    <3>1. row \in [Runs -> [Keys -> RowType]] /\ Key(w, r) \in Keys
      BY <2>3, ExecFacts DEF TypeInv, TypeOK
    <3> QED
      BY <2>2, <3>1 DEF SetRow, Row
  <2>5. x = Written(w, r) => row' = row \/ Rewritten(w, r, x)
    BY <2>3, <2>4 DEF Written, Rewritten
  <2>6. row' = row \/ (pc \in AtStep /\ \E y : SetRow(r, Key(w, r), y) /\ Rewritten(w, r, y))
    BY <2>2, <2>3, <2>4, <2>5
  <2>7. spilled' = spilled \/ spilled' = spilled \cup {r}
    BY <1>3 DEF RowFails
  <2> QED
    BY <1>3, <2>1, <2>3, <2>6, <2>7 DEF RowFails, Faulty
<1>4. CASE BodyFails(w, r)
  <2>1. GoTo(w, r, "fail") /\ exec'[w][r].pc = "fail" /\ exec'[w][r].st = exec[w][r].st
    BY <1>2, <1>4 DEF BodyFails
  <2> QED
    BY <1>4, <2>1 DEF BodyFails, Faulty
<1>5. CASE RunFails(w, r)
  <2>1. pc \in {"save", "end", "fail", "cancel", "requeue"}
    BY <1>5 DEF RunFails, Outcome
  <2>2. PICK p \in {"fail", "leave"} : GoTo(w, r, p) /\ (p = "fail" <=> pc \in {"save", "end"})
    BY <1>5 DEF RunFails
  <2>3. exec'[w][r].pc = p /\ exec'[w][r].st = exec[w][r].st
    BY <1>2, <2>2
  <2>4. \/ run' = run /\ output' = output
        \/ run' = run /\ output' = [output EXCEPT ![r] = exec[w][r].st] /\ pc = "save"
        \/ WriteStatus(w, r) /\ row' = row
    BY <1>5 DEF RunFails
  <2>5. pc \in {"fail", "cancel"} => r \in adrift' \/ WriteStatus(w, r)
    BY <1>5 DEF RunFails
  <2>6. adrift' = adrift \/ adrift' = adrift \cup {r}
    BY <1>5 DEF RunFails
  <2>7. UNCHANGED <<row, inbox, sent, leadership, lapsed, contested, spilled, cancelled>> /\ faults' = faults + 1
    BY <1>5 DEF RunFails, Faulty
  <2>8. p = "leave" => pc \in {"fail", "cancel", "requeue"}
    BY <2>1, <2>2
  <2>9. pc \in {"fail", "cancel"} => p = "leave"
    BY <2>2
  <2> QED
    BY <2>1, <2>2, <2>3, <2>4, <2>5, <2>6, <2>7, <2>8, <2>9
<1>6. CASE LoadFails(w, r)
  <2>1. GoTo(w, r, "leave") /\ exec'[w][r].pc = "leave" /\ exec'[w][r].st = exec[w][r].st
    BY <1>2, <1>6 DEF LoadFails
  <2> QED
    BY <1>6, <2>1 DEF LoadFails, Faulty
<1> QED
  BY <1>3, <1>4, <1>5, <1>6 DEF Failing

Executing(w, r) == Execute(w, r) \/ Heartbeat(w, r) \/ Failing(w, r)

(* What a step of an executor does to the rows and to the executors. *)
LEMMA ExecutingType ==
    ASSUME TypeInv, NEW w \in Workers, NEW r \in Runs, Executing(w, r)
    PROVE  TypeInv'
<1> USE DEF Here, leadership, db
<1> DEFINE s == exec[w][r].st
           k == Key(w, r)
           RowsOK == row' \in [Runs -> [Keys -> RowType]]
           ExecOK == /\ exec' \in [Workers -> [Runs -> ExecType]]
                     /\ \A v \in Workers, q \in Runs : Placed(exec'[v][q])
<1>1. /\ exec[w][r] \in ExecType /\ s \in States /\ exec[w][r].out \in Entries /\ exec[w][r].pc \in PC
      /\ exec[w][r].pc \in AtStep => Len(s) < Len(Plan) /\ k \in Keys /\ Row(w, r) \in RowType
  BY ExecFacts
<1>2. TypeOK /\ \A v \in Workers, q \in Runs : Placed(exec[v][q])
  BY DEF TypeInv
<1>3. ASSUME run' \in [Runs -> RunStatus], output' \in [Runs -> States], inbox' \in [Runs -> Seq(Outputs)],
             RowsOK, ExecOK, UNCHANGED <<sent, leadership, lapsed, contested, cancelled>>,
             adrift' \subseteq Runs, spilled' \subseteq Runs, faults' \in Nat
      PROVE  TypeInv'
  BY <1>2, <1>3 DEF TypeInv, TypeOK
<1>4. row' = row => RowsOK
  BY <1>2 DEF TypeOK
<1>5. ASSUME NEW x \in RowType, k \in Keys, SetRow(r, k, x)
      PROVE  RowsOK
  BY <1>5, SetRowType
<1>6. exec' = exec => ExecOK
  BY <1>2 DEF TypeOK
<1>7. ASSUME NEW e \in ExecType, Placed(e), Moves(w, r, e)
      PROVE  ExecOK
  BY <1>7, MovesType
<1>8. ASSUME NEW p \in PC \ {"idle"}, GoTo(w, r, p), p \in AtStep => exec[w][r].pc \in AtStep \/ Len(s) < Len(Plan)
      PROVE  ExecOK
  BY <1>1, <1>7, <1>8, GoToMoves
<1>9. ASSUME NEW o \in Entries, Passed(w, r, o), exec[w][r].pc \in AtStep
      PROVE  ExecOK
  BY <1>7, <1>9, PassedMoves
<1> USE DEF At, AtStep, Held, Beating
<1>10. CASE Upsert(w, r)
  <2>1. Row(w, r).out \in Entries /\ Upserted(Row(w, r)) \in RowType /\ k \in Keys
    BY <1>1, <1>10, RowTypes DEF Upsert, RowType, Entries
  <2>2. RowsOK
    BY <1>5, <1>10, <2>1 DEF Upsert
  <2>3. ExecOK
    BY <1>8, <1>9, <1>10, <2>1 DEF Upsert, PC
  <2> QED
    BY <1>2, <1>3, <1>10, <2>2, <2>3 DEF Upsert, TypeOK
<1>11. CASE Claim(w, r)
  <2>1. Claimed(Row(w, r)) \in RowType /\ k \in Keys
    BY <1>1, <1>11, RowTypes DEF Claim
  <2>2. RowsOK
    BY <1>5, <1>11, <2>1 DEF Claim
  <2>3. PICK p \in {"body", "skip"} : GoTo(w, r, p)
    BY <1>11 DEF Claim
  <2>4. ExecOK
    BY <1>8, <1>11, <2>3 DEF Claim, PC
  <2> QED
    BY <1>2, <1>3, <1>11, <2>2, <2>4 DEF Claim, TypeOK
<1>12. CASE ClaimLost(w, r)
  <2>1. ExecOK
    BY <1>8, <1>12 DEF ClaimLost, PC
  <2> QED
    BY <1>2, <1>3, <1>4, <1>12, <2>1 DEF ClaimLost, TypeOK
<1>13. CASE BodyRaises(w, r)
  <2>1. PICK p \in {"abort", "final", "retry"} : GoTo(w, r, p)
    BY <1>13 DEF BodyRaises
  <2>2. ExecOK
    BY <1>8, <1>13, <2>1 DEF BodyRaises, PC
  <2> QED
    BY <1>2, <1>3, <1>4, <1>13, <2>2 DEF BodyRaises, TypeOK
<1>14. ASSUME NEW o \in Outputs, exec[w][r].pc = "body", exec' = [exec EXCEPT ![w][r].pc = "done", ![w][r].out = o]
       PROVE  ExecOK
  <2> DEFINE e == [exec[w][r] EXCEPT !.pc = "done", !.out = o]
  <2>1. e \in ExecType /\ e.pc = "done" /\ e.st = s
    BY <1>1 DEF ExecType, PC
  <2>2. Placed(e)
    BY <1>1, <1>14, <2>1 DEF Placed
  <2>3. Moves(w, r, e)
    BY <1>2, <1>14 DEF TypeOK, Moves
  <2> QED
    BY <1>7, <2>1, <2>2, <2>3
<1>15. CASE \E o \in Outputs : BodyReturns(w, r, o)
  <2>1. ExecOK
    BY <1>14, <1>15 DEF BodyReturns
  <2> QED
    BY <1>2, <1>3, <1>4, <1>15, <2>1 DEF BodyReturns, TypeOK
<1>16. CASE ConsumeSignal(w, r)
  <2>1. inbox[r] \in Seq(Outputs) /\ inbox[r] # <<>>
    BY <1>2, <1>16 DEF TypeOK, ConsumeSignal
  <2>2. Head(inbox[r]) \in Outputs /\ Tail(inbox[r]) \in Seq(Outputs)
    BY <2>1
  <2>3. ExecOK
    BY <1>14, <1>16, <2>2 DEF ConsumeSignal
  <2>4. inbox' \in [Runs -> Seq(Outputs)]
    BY <1>2, <1>16, <2>2 DEF ConsumeSignal, TypeOK
  <2> QED
    BY <1>2, <1>3, <1>4, <1>16, <2>3, <2>4 DEF ConsumeSignal, TypeOK
<1>17. CASE Complete(w, r)
  <2>1. exec[w][r].pc \in AtStep
    BY <1>17 DEF Complete
  <2>2. Completed(Row(w, r), exec[w][r].out) \in RowType
    BY <1>1, <2>1, RowTypes
  <2>3. RowsOK
    BY <1>1, <1>5, <1>17, <2>1, <2>2 DEF Complete
  <2>4. ExecOK
    BY <1>1, <1>9, <1>17, <2>1 DEF Complete
  <2> QED
    BY <1>2, <1>3, <1>17, <2>3, <2>4 DEF Complete, TypeOK
<1>18. CASE Save(w, r)
  <2>1. Len(s) \in Nat /\ Len(Plan) \in Nat /\ Len(s) <= Len(Plan)
    BY <1>1, StateSeq
  <2>2. PICK p \in {"end", "upsert"} : GoTo(w, r, p) /\ (p = "upsert" => Len(s) # Len(Plan))
    BY <1>18 DEF Save
  <2>3. p = "upsert" => Len(s) < Len(Plan)
    BY <2>1, <2>2
  <2>4. ExecOK
    BY <1>8, <2>2, <2>3 DEF PC
  <2>5. output' \in [Runs -> States]
    BY <1>1, <1>2, <1>18 DEF Save, TypeOK
  <2> QED
    BY <1>2, <1>3, <1>4, <1>18, <2>4, <2>5 DEF Save, TypeOK
<1>19. CASE RecordFailure(w, r)
  <2>1. PICK p \in {<<"retry", "requeue">>, <<"final", "fail">>, <<"abort", "cancel">>} :
            /\ At(w, r, p[1])
            /\ SetRow(r, Key(w, r), Failed(Row(w, r), p[1] # "retry"))
            /\ GoTo(w, r, p[2])
            /\ UNCHANGED <<run, output, Here>>
    BY <1>19 DEF RecordFailure
  <2>2. exec[w][r].pc \in AtStep /\ p[2] \in {"requeue", "fail", "cancel"}
    BY <2>1
  <2>3. Failed(Row(w, r), p[1] # "retry") \in RowType
    <3>1. (p[1] # "retry") \in BOOLEAN
      OBVIOUS
    <3> QED
      BY <1>1, <2>2, <3>1, RowTypes
  <2>4. RowsOK
    BY <1>1, <1>5, <2>1, <2>2, <2>3
  <2>5. ExecOK
    BY <1>8, <2>1, <2>2 DEF PC
  <2> QED
    BY <1>2, <1>3, <2>1, <2>4, <2>5 DEF TypeOK
<1>23. ASSUME WriteStatus(w, r)
       PROVE  run' \in [Runs -> RunStatus] /\ output' \in [Runs -> States]
  <2>1. exec[w][r].pc \in {"end", "fail", "cancel", "requeue"}
    BY <1>23 DEF WriteStatus, Outcome
  <2>2. run' \in [Runs -> RunStatus]
    BY <1>2, <1>23, <2>1 DEF WriteStatus, SetRun, Outcome, TypeOK, RunStatus, Terminal
  <2>3. output' \in [Runs -> States]
    BY <1>1, <1>2, <1>23 DEF WriteStatus, TypeOK
  <2> QED
    BY <2>2, <2>3
<1>20. CASE Finish(w, r)
  <2>1. ExecOK
    BY <1>8, <1>20 DEF Finish, PC
  <2>2. run' \in [Runs -> RunStatus] /\ output' \in [Runs -> States]
    BY <1>20, <1>23 DEF Finish
  <2> QED
    BY <1>2, <1>3, <1>4, <1>20, <2>1, <2>2 DEF Finish, TypeOK
<1>24. CASE Breaks(w, r)
  <2>1. ExecOK
    BY <1>8, <1>24 DEF Breaks, PC
  <2> QED
    BY <1>2, <1>3, <1>4, <1>24, <2>1 DEF Breaks, TypeOK
<1>25. CASE Failing(w, r)
  <2>1. ExecOK
    <3>1. PICK p \in {"fail", "leave"} : GoTo(w, r, p)
      BY <1>25, FailingFacts
    <3> QED
      BY <1>8, <3>1 DEF PC
  <2>2. RowsOK
    <3>1. CASE exec[w][r].pc \in AtStep /\ \E x : SetRow(r, k, x) /\ Rewritten(w, r, x)
      <4>1. PICK x : SetRow(r, k, x) /\ Rewritten(w, r, x)
        BY <3>1
      <4>2. k \in Keys /\ Row(w, r) \in RowType
        BY <1>1, <3>1
      <4>3. (exec[w][r].pc # "retry") \in BOOLEAN
        OBVIOUS
      <4>4. x \in RowType
        BY <1>1, <4>1, <4>2, <4>3, RowTypes DEF Rewritten
      <4> QED
        BY <1>5, <4>1, <4>2, <4>4
    <3> QED
      BY <1>4, <1>25, <3>1, FailingFacts
  <2>3. run' \in [Runs -> RunStatus] /\ output' \in [Runs -> States]
    <3>1. CASE run' = run /\ output' = output
      BY <1>2, <3>1 DEF TypeOK
    <3>2. CASE run' = run /\ output' = [output EXCEPT ![r] = s]
      BY <1>1, <1>2, <3>2 DEF TypeOK
    <3> QED
      BY <1>23, <1>25, <3>1, <3>2, FailingFacts
  <2>4. inbox' \in [Runs -> Seq(Outputs)]
    <3>1. CASE inbox[r] # <<>> /\ inbox' = [inbox EXCEPT ![r] = Tail(@)]
      <4>1. Tail(inbox[r]) \in Seq(Outputs)
        BY <1>2, <3>1 DEF TypeOK
      <4> QED
        BY <1>2, <3>1, <4>1 DEF TypeOK
    <3> QED
      BY <1>2, <1>25, <3>1, FailingFacts DEF TypeOK
  <2>5. adrift' \subseteq Runs /\ spilled' \subseteq Runs /\ faults' \in Nat
    <3>1. LeavesOthers(adrift, r) /\ LeavesOthers(spilled, r) /\ faults' = faults + 1
      BY <1>25, FailingFacts
    <3> QED
      BY <1>2, <3>1 DEF TypeOK, LeavesOthers
  <2>6. UNCHANGED <<sent, leadership, lapsed, contested, cancelled>>
    BY <1>25, FailingFacts
  <2> QED
    BY <1>3, <2>1, <2>2, <2>3, <2>4, <2>5, <2>6
<1>21. CASE TaskEnds(w, r)
  <2>1. Idle \in ExecType /\ Placed(Idle)
    BY EmptyState DEF Idle, ExecType, PC, Placed
  <2>2. ExecOK
    BY <1>7, <1>21, <2>1 DEF TaskEnds, Moves
  <2> QED
    BY <1>2, <1>3, <1>4, <1>21, <2>2 DEF TaskEnds, TypeOK
<1>22. CASE Heartbeat(w, r)
  <2>1. [Row(w, r) EXCEPT !.beat = TRUE] \in RowType /\ k \in Keys
    BY <1>1, <1>22, RowTypes DEF Heartbeat
  <2>2. RowsOK
    BY <1>5, <1>22, <2>1 DEF Heartbeat
  <2> QED
    BY <1>2, <1>3, <1>6, <1>22, <2>2 DEF Heartbeat, TypeOK
<1> QED
  BY <1>10, <1>11, <1>12, <1>13, <1>15, <1>16, <1>17, <1>18, <1>19, <1>20, <1>21, <1>22,
     <1>24, <1>25 DEF Executing, Execute

LEMMA TypeStep == TypeInv /\ [Next]_vars => TypeInv'
<1> SUFFICES ASSUME TypeInv, [Next]_vars PROVE TypeInv'
  OBVIOUS
<1> USE DEF db, leadership
<1>1. TypeOK /\ \A w \in Workers, r \in Runs : Placed(exec[w][r])
  BY DEF TypeInv
<1>2. ASSUME NEW r \in Runs, Client(r)
      PROVE  TypeInv'
  <2>1. ASSUME NEW x \in RunStatus, SetRun(r, x)
        PROVE  run' \in [Runs -> RunStatus]
    BY <1>1, <2>1 DEF SetRun, TypeOK
  <2>3. CASE Submit(r)
    <3>1. run' \in [Runs -> RunStatus]
      BY <2>1, <2>3 DEF Submit, RunStatus
    <3> QED
      BY <1>1, <2>3, <3>1 DEF Submit, TypeInv, TypeOK
  <2>4. CASE Cancel(r)
    <3>1. run' \in [Runs -> RunStatus]
      BY <2>1, <2>4 DEF Cancel, RunStatus, Terminal
    <3>2. faults' \in Nat /\ cancelled' \subseteq Runs
      BY <1>1, <2>4 DEF Cancel, Faulty, TypeOK
    <3> QED
      BY <1>1, <2>4, <3>1, <3>2 DEF Cancel, TypeInv, TypeOK
  <2>2. CASE \E o \in Outputs : Send(r, o)
    <3>1. PICK o \in Outputs : Send(r, o)
      BY <2>2
    <3>2. inbox' \in [Runs -> Seq(Outputs)]
      BY <1>1, <3>1 DEF Send, TypeOK
    <3> QED
      BY <1>1, <3>1, <3>2 DEF Send, TypeInv, TypeOK
  <2> QED
    BY <1>2, <2>2, <2>3, <2>4 DEF Client
<1>3. ASSUME NEW w \in Workers, Drive(w)
      PROVE  TypeInv'
  <2>1. Idle \in ExecType /\ Placed(Idle) /\ [Idle EXCEPT !.pc = "upsert"] \in ExecType /\ Placed([Idle EXCEPT !.pc = "upsert"])
    <3>1. Len(<<>>) < Len(Plan)
      BY PlanAssumption, EmptyState, EmptySeq
    <3>2. Idle \in ExecType
      BY EmptyState DEF Idle, ExecType, PC
    <3> QED
      BY <3>1, <3>2 DEF Idle, ExecType, PC, Placed, AtStep, Held, Beating
  <2>2. CASE Start(w) \/ Compete(w)
    BY <1>1, <2>2 DEF Start, Compete, TypeInv, TypeOK
  <2>3. CASE Reclaim(w)
    <3>1. row' \in [Runs -> [Keys -> RowType]]
      <4>1. \A r \in Runs, k \in Keys : Reclaimed(row[r][k]) \in RowType /\ row[r][k] \in RowType
        BY <1>1, RowTypes DEF TypeOK
      <4> QED
        BY <2>3, <4>1 DEF Reclaim
    <3> QED
      BY <1>1, <2>3, <3>1 DEF Reclaim, Advance, TypeInv, TypeOK
  <2>4. CASE Revive(w)
    <3>1. run' \in [Runs -> RunStatus]
      BY <1>1, <2>4 DEF Revive, TypeOK, RunStatus
    <3> QED
      BY <1>1, <2>4, <3>1 DEF Revive, Advance, TypeInv, TypeOK
  <2>5. CASE ClaimRuns(w)
    <3>1. run' \in [Runs -> RunStatus]
      BY <1>1, <2>5 DEF ClaimRuns, TypeOK, RunStatus
    <3>2. exec' \in [Workers -> [Runs -> ExecType]] /\ \A v \in Workers, r \in Runs : Placed(exec'[v][r])
      BY <1>1, <2>1, <2>5 DEF ClaimRuns, TypeOK
    <3>3. contested' \subseteq Runs
      BY <1>1, <2>5 DEF ClaimRuns, TypeOK
    <3> QED
      BY <1>1, <2>5, <3>1, <3>2, <3>3 DEF ClaimRuns, Advance, TypeInv, TypeOK
  <2>6. CASE Drained(w)
    BY <1>1, <2>1, <2>6 DEF Drained, Cut, TypeInv, TypeOK
  <2> QED
    BY <1>3, <2>2, <2>3, <2>4, <2>5, <2>6 DEF Drive, Tick
<1>4. ASSUME NEW w \in Workers, Fault(w)
      PROVE  TypeInv'
  <2>1. Idle \in ExecType /\ Placed(Idle)
    BY EmptyState DEF Idle, ExecType, PC, Placed, AtStep, Held, Beating
  <2>2. CASE DropLock(w)
    BY <1>1, <2>2 DEF DropLock, Faulty, TypeInv, TypeOK
  <2>4. CASE Stop(w)
    <3>1. /\ faults' \in Nat /\ lock' \in Workers \cup {NoOne}
          /\ driver' \in [Workers -> {"off", "standby", "leader", "draining"}]
      BY <1>1, <2>4 DEF Stop, Leave, Faulty, TypeOK
    <3> QED
      BY <1>1, <2>4, <3>1 DEF Stop, TypeInv, TypeOK
  <2>3. CASE Kill(w)
    BY <1>1, <2>1, <2>3 DEF Kill, Leave, Cut, Faulty, TypeInv, TypeOK
  <2>5. CASE TickFails(w)
    <3>1. run' \in [Runs -> RunStatus] /\ adrift' \subseteq Runs
      BY <1>1, <2>5 DEF TickFails, TypeOK, RunStatus
    <3>2. phase' \in [Workers -> {"reclaim", "revive", "claim"}]
      BY <1>1, <2>5 DEF TickFails, Advance, TypeOK
    <3>3. faults' \in Nat
      BY <1>1, <2>5 DEF TickFails, Faulty, TypeOK
    <3> QED
      BY <1>1, <2>5, <3>1, <3>2, <3>3 DEF TickFails, TypeInv, TypeOK
  <2> QED
    BY <1>4, <2>2, <2>3, <2>4, <2>5 DEF Fault
<1>5. ASSUME NEW w \in Workers, NEW r \in Runs, Execute(w, r) \/ Heartbeat(w, r) \/ Failing(w, r)
      PROVE  TypeInv'
  BY <1>5, ExecutingType DEF Executing
<1>6. CASE Time
  <2>1. PICK r \in Runs, k \in Keys : Silence(r, k) \/ Lapse(r, k) \/ FallDue(r, k)
    BY <1>6 DEF Time
  <2>2. row[r][k] \in RowType
    BY <1>1 DEF TypeOK
  <2>3. CASE Silence(r, k) \/ Lapse(r, k)
    <3>1. row' \in [Runs -> [Keys -> RowType]]
      BY <2>2, <2>3, RowTypes, SetRowType DEF Silence, Lapse, Silent
    <3> QED
      BY <1>1, <2>3, <3>1 DEF Silence, Lapse, Here, Faulty, TypeInv, TypeOK
  <2>4. CASE FallDue(r, k)
    <3>1. row' \in [Runs -> [Keys -> RowType]]
      BY <2>2, <2>4, RowTypes, SetRowType DEF FallDue
    <3>2. lapsed' \subseteq Runs /\ faults' \in Nat
      BY <1>1, <2>4 DEF FallDue, Faulty, TypeOK
    <3> QED
      BY <1>1, <2>4, <3>1, <3>2 DEF FallDue, TypeInv, TypeOK
  <2> QED
    BY <2>1, <2>3, <2>4
<1>7. CASE UNCHANGED vars
  BY <1>1, <1>7 DEF vars, TypeInv, TypeOK
<1> QED
  BY <1>2, <1>3, <1>4, <1>5, <1>6, <1>7 DEF Next

LEMMA TypeAlways == Spec => []TypeInv
<1>1. Init => TypeInv
  BY InitType
<1>2. TypeInv /\ [Next]_vars => TypeInv'
  BY TypeStep
<1> QED
  BY <1>1, <1>2, PTL DEF Spec

(* The variables keep their types, for any workers, runs, plan, outputs and faults. *)
THEOREM TypeCorrectness == Spec => []TypeOK
<1>1. TypeInv => TypeOK
  BY DEF TypeInv
<1> QED
  BY <1>1, TypeAlways, PTL

-----------------------------------------------------------------------------
(* What holds of a run none of whose live executors missed a timeout: its   *)
(* executors are at prefixes of one history, all of it recorded, and one of *)
(* them at most holds a step.                                               *)

Finished(r) == run[r] = "completed" /\ r \notin cancelled
WholeRecord(rows) == \E s \in [Places -> Entries] : Replayed(rows, s)
Sound(r) ==
    /\ \A w \in Workers : Replayed(row[r], exec[w][r].st)
    /\ \A w \in Workers : exec[w][r].pc = "end" => Len(exec[w][r].st) = Len(Plan)
    /\ \A w \in Workers : exec[w][r].pc \in Held => row[r][KeyOf(exec[w][r].st)].st = "running"
    /\ \A v, w \in Workers : exec[v][r].pc \in Held /\ exec[w][r].pc \in Held => v = w
    /\ \A v, w \in Workers : Agree(exec[v][r].st, exec[w][r].st)
    /\ Finished(r) => WholeRecord(row[r])
SoundInv == \A r \in Runs \ lapsed : Sound(r)

LEMMA NothingDone == \A rows : Replayed(rows, <<>>)
  BY EmptyState DEF Replayed

LEMMA EmptyAgrees ==
    ASSUME NEW t \in States
    PROVE  Agree(<<>>, t) /\ Agree(t, <<>>)
<1>1. Len(t) \in Nat /\ Len(<<>>) = 0
  BY StateSeq, EmptyState
<1> QED
  BY <1>1 DEF Agree

LEMMA StillWhole ==
    ASSUME NEW rows, NEW rows2, Kept(rows, rows2), WholeRecord(rows)
    PROVE  WholeRecord(rows2)
<1>1. PICK s \in [Places -> Entries] : Replayed(rows, s)
  BY DEF WholeRecord
<1>2. s \in Seq(Entries) /\ Len(s) = Len(Plan)
  BY <1>1, PlanAssumption DEF Places
<1>3. Len(s) <= Len(Plan)
  BY <1>2, PlanAssumption
<1>4. s \in States
  BY <1>2, <1>3, SeqState, Zenon
<1>5. Replayed(rows2, s)
  BY <1>1, <1>4, StillReplayed, Zenon
<1> QED
  BY <1>5 DEF WholeRecord

(* A step after which every executor is where it was, or at the beginning.  *)
Stays(v, r) ==
    \/ /\ exec'[v][r].st = exec[v][r].st
       /\ exec'[v][r].pc \in Held => exec[v][r].pc \in Held
       /\ exec'[v][r].pc = "end" => Len(exec[v][r].st) = Len(Plan)
    \/ exec'[v][r].st = <<>> /\ exec'[v][r].pc \in {"idle", "upsert"}

LEMMA StaysSound ==
    ASSUME TypeInv, TypeInv', NEW r \in Runs, Sound(r),
           \A v \in Workers : Stays(v, r),
           Kept(row[r], row'[r]),
           \A v \in Workers : exec[v][r].pc \in Held /\ exec'[v][r].pc \in Held =>
                                  row'[r][KeyOf(exec[v][r].st)].st = "running",
           Finished(r)' => Finished(r) \/ WholeRecord(row'[r])
    PROVE  Sound(r)'
<1>1. \A v \in Workers : exec[v][r].st \in States /\ exec'[v][r].st \in States
  BY DEF TypeInv, TypeOK, ExecType
<1>2. \A v \in Workers : exec'[v][r].st \in {exec[v][r].st, <<>>}
  BY DEF Stays
<1>3. \A v \in Workers : exec'[v][r].pc \in Held => exec[v][r].pc \in Held /\ exec'[v][r].st = exec[v][r].st
  BY DEF Stays, Held, Beating
<1>4. ASSUME NEW w \in Workers
      PROVE  Replayed(row'[r], exec'[w][r].st)
  BY <1>1, <1>2, NothingDone, StillReplayed DEF Sound
<1>5. \A w \in Workers : exec'[w][r].pc = "end" => Len(exec'[w][r].st) = Len(Plan)
  BY DEF Stays
<1>6. \A w \in Workers : exec'[w][r].pc \in Held => row'[r][KeyOf(exec'[w][r].st)].st = "running"
  BY <1>3
<1>7. \A v, w \in Workers : exec'[v][r].pc \in Held /\ exec'[w][r].pc \in Held => v = w
  BY <1>3 DEF Sound
<1>8. ASSUME NEW v \in Workers, NEW w \in Workers
      PROVE  Agree(exec'[v][r].st, exec'[w][r].st)
  <2>1. Agree(exec[v][r].st, exec[w][r].st)
    BY DEF Sound
  <2> QED
    BY <1>1, <1>2, <2>1, EmptyAgrees, Zenon
<1>9. Finished(r)' => WholeRecord(row'[r])
  BY StillWhole DEF Sound
<1> QED
  BY <1>4, <1>5, <1>6, <1>7, <1>8, <1>9 DEF Sound

(* A step of one executor, the others and their rows left alone.            *)
Others(w, r) ==
    \A v \in Workers \ {w} :
        /\ exec'[v][r] = exec[v][r]
        /\ exec[v][r].pc \in Held => row'[r][KeyOf(exec[v][r].st)].st = "running"

(* The executor records or replays one more output. *)
LEMMA AppendsSound ==
    ASSUME TypeInv, TypeInv', NEW r \in Runs, Sound(r), NEW w \in Workers, NEW o \in Entries,
           Others(w, r), Kept(row[r], row'[r]),
           exec[w][r].pc \in AtStep,
           exec'[w][r].st = Append(exec[w][r].st, o),
           exec'[w][r].pc \in {"save", "end", "upsert"},
           exec'[w][r].pc = "end" => Len(exec'[w][r].st) = Len(Plan),
           row'[r][KeyOf(exec[w][r].st)].st = "completed",
           row'[r][KeyOf(exec[w][r].st)].out = o,
           Finished(r)' => Finished(r)
    PROVE  Sound(r)'
<1> DEFINE s == exec[w][r].st
           t == Append(s, o)
<1>1. \A v \in Workers : exec[v][r].st \in States /\ exec'[v][r].st \in States
  BY DEF TypeInv, TypeOK, ExecType
<1>2. Len(s) < Len(Plan) /\ s \in States /\ Len(s) \in Nat
  BY ExecFacts, StateSeq
<1>3. t \in States /\ Len(t) = Len(s) + 1 /\ t[Len(s) + 1] = o /\ \A i \in 1..Len(s) : t[i] = s[i]
  BY <1>2, Longer, Zenon
<1>4. Replayed(row'[r], s)
  BY <1>2, StillReplayed DEF Sound
<1>5. Replayed(row'[r], t)
  BY <1>2, <1>4, ReplayOneMore, Zenon
<1>6. ASSUME NEW v \in Workers
      PROVE  Replayed(row'[r], exec'[v][r].st)
  <2>1. v # w => exec'[v][r].st = exec[v][r].st /\ Replayed(row[r], exec[v][r].st)
    BY DEF Sound, Others
  <2>2. v # w => Replayed(row'[r], exec[v][r].st)
    BY <1>1, <2>1, StillReplayed, Zenon
  <2> QED
    BY <1>5, <2>1, <2>2
<1>7. ASSUME NEW v \in Workers \ {w}
      PROVE  Agree(t, exec[v][r].st) /\ Agree(exec[v][r].st, t)
  <2> DEFINE u == exec[v][r].st
  <2>1. u \in States /\ Len(u) \in Nat /\ Agree(s, u) /\ Agree(u, s) /\ Replayed(row'[r], u)
    BY <1>1, <1>6, StateSeq DEF Sound, Others
  <2>2. Len(s) < Len(u) => u[Len(s) + 1] = o
    BY <1>2, <2>1, PassedRow
  <2>3. ASSUME NEW i \in 1..Len(t), i <= Len(u)
        PROVE  t[i] = u[i]
    <3>1. CASE i = Len(s) + 1
      <4>1. Len(s) < Len(u)
        BY <1>2, <2>1, <2>3, <3>1
      <4> QED
        BY <1>3, <2>2, <3>1, <4>1
    <3>2. CASE i \in 1..Len(s)
      BY <1>3, <2>1, <2>3, <3>2 DEF Agree
    <3> QED
      BY <1>2, <1>3, <3>1, <3>2
  <2>4. ASSUME NEW i \in 1..Len(u), i <= Len(t)
        PROVE  u[i] = t[i]
    BY <1>2, <1>3, <2>1, <2>3, <2>4
  <2> QED
    BY <2>3, <2>4 DEF Agree
<1>8. ASSUME NEW v \in Workers, NEW x \in Workers
      PROVE  Agree(exec'[v][r].st, exec'[x][r].st)
  <2>1. Agree(t, t)
    BY <1>1 DEF Agree
  <2> QED
    BY <1>7, <2>1 DEF Sound, Others
<1>9. \A v \in Workers : exec'[v][r].pc \in Held => v # w /\ exec[v][r].pc \in Held /\ exec'[v][r] = exec[v][r]
  BY DEF Others, Held, Beating
<1>10. \A v \in Workers : exec'[v][r].pc \in Held => row'[r][KeyOf(exec'[v][r].st)].st = "running"
  BY <1>9 DEF Others
<1>11. \A v, x \in Workers : exec'[v][r].pc \in Held /\ exec'[x][r].pc \in Held => v = x
  BY <1>9 DEF Sound
<1>12. ASSUME NEW v \in Workers, exec'[v][r].pc = "end"
       PROVE  Len(exec'[v][r].st) = Len(Plan)
  <2>1. v # w => exec'[v][r] = exec[v][r]
    BY DEF Others
  <2> QED
    BY <1>12, <2>1 DEF Sound
<1>13. Finished(r)' => WholeRecord(row'[r])
  BY StillWhole DEF Sound
<1> QED
  BY <1>6, <1>8, <1>10, <1>11, <1>12, <1>13 DEF Sound

(* An executor whose key has a row that is not completed: no other holds    *)
(* another key.                                                             *)
LEMMA OneFront ==
    ASSUME TypeInv, NEW r \in Runs, Sound(r), NEW v \in Workers, NEW w \in Workers,
           exec[v][r].pc \in Held, exec[w][r].pc \in AtStep, Row(w, r).st # "completed"
    PROVE  exec[v][r].st = exec[w][r].st
<1> DEFINE s == exec[w][r].st
           u == exec[v][r].st
<1>1. s \in States /\ u \in States /\ Len(s) \in Nat /\ Len(u) \in Nat
  BY ExecFacts, StateSeq
<1>2. Agree(s, u) /\ Agree(u, s) /\ Replayed(row[r], s) /\ Replayed(row[r], u)
  BY DEF Sound
<1>3. row[r][KeyOf(u)].st = "running"
  BY DEF Sound
<1>4. ~(Len(s) < Len(u))
  BY <1>1, <1>2, PassedRow DEF Row, Key
<1>5. ~(Len(u) < Len(s))
  BY <1>1, <1>2, <1>3, PassedRow
<1> QED
  BY <1>1, <1>2, <1>4, <1>5, SameState

(* A step of an executor leaves every other executor, and every other run, alone. *)
LEMMA ExecutingFrame ==
    ASSUME TypeInv, NEW w \in Workers, NEW r \in Runs, Executing(w, r)
    PROVE  /\ lapsed' = lapsed /\ cancelled' = cancelled /\ contested' = contested
           /\ LeavesOthers(adrift, r) /\ LeavesOthers(spilled, r)
           /\ driver' = driver
           /\ faults' = faults \/ (Failing(w, r) /\ faults' = faults + 1)
           /\ sent' = sent
           /\ \A q \in Runs \ {r} : inbox'[q] = inbox[q]
           /\ \A v \in Workers, q \in Runs : v # w \/ q # r => exec'[v][q] = exec[v][q]
           /\ \A q \in Runs \ {r} : run'[q] = run[q] /\ row'[q] = row[q] /\ output'[q] = output[q]
           /\ \A k \in Keys : k # Key(w, r) => row'[r][k] = row[r][k]
<1> USE DEF Here, db, leadership, At, LeavesOthers
<1>1. /\ exec \in [Workers -> [Runs -> ExecType]] /\ run \in [Runs -> RunStatus] /\ row \in [Runs -> [Keys -> RowType]]
      /\ output \in [Runs -> States] /\ inbox \in [Runs -> Seq(Outputs)]
  BY DEF TypeInv, TypeOK
<1>2. CASE Execute(w, r) \/ Heartbeat(w, r)
  <2> USE <1>2
  <2>1. UNCHANGED <<lapsed, cancelled, contested, adrift, spilled, faults, sent, driver>>
    BY DEF Execute, Upsert, Claim, ClaimLost, BodyReturns, BodyRaises, ConsumeSignal, Complete, Save,
           RecordFailure, Finish, TaskEnds, Breaks, Heartbeat
  <2>2. \/ exec' = exec
        \/ \E p \in PC : GoTo(w, r, p)
        \/ \E o : exec' = [exec EXCEPT ![w][r].pc = "done", ![w][r].out = o]
        \/ \E o : Passed(w, r, o)
        \/ exec' = [exec EXCEPT ![w][r] = Idle]
    BY DEF Execute, Upsert, Claim, ClaimLost, BodyReturns, BodyRaises, ConsumeSignal, Complete, Save,
           RecordFailure, Finish, TaskEnds, Breaks, Heartbeat, PC, Held, Beating
  <2>3. \A v \in Workers, q \in Runs : v # w \/ q # r => exec'[v][q] = exec[v][q]
    BY <1>1, <2>2 DEF GoTo, Passed
  <2>4. \/ row' = row
        \/ \E x : SetRow(r, Key(w, r), x)
    BY DEF Execute, Upsert, Claim, ClaimLost, BodyReturns, BodyRaises, ConsumeSignal, Complete, Save,
           RecordFailure, Finish, TaskEnds, Breaks, Heartbeat
  <2>5. /\ \A q \in Runs \ {r} : row'[q] = row[q]
        /\ \A k \in Keys : k # Key(w, r) => row'[r][k] = row[r][k]
    BY <1>1, <2>4 DEF SetRow
  <2>6. run' = run \/ \E x : SetRun(r, x)
    BY DEF Execute, Upsert, Claim, ClaimLost, BodyReturns, BodyRaises, ConsumeSignal, Complete, Save,
           RecordFailure, Finish, WriteStatus, TaskEnds, Breaks, Heartbeat
  <2>7. output' = output \/ \E x : output' = [output EXCEPT ![r] = x]
    BY DEF Execute, Upsert, Claim, ClaimLost, BodyReturns, BodyRaises, ConsumeSignal, Complete, Save,
           RecordFailure, Finish, WriteStatus, TaskEnds, Breaks, Heartbeat
  <2>8. inbox' = inbox \/ inbox' = [inbox EXCEPT ![r] = Tail(@)]
    BY DEF Execute, Upsert, Claim, ClaimLost, BodyReturns, BodyRaises, ConsumeSignal, Complete, Save,
           RecordFailure, Finish, TaskEnds, Breaks, Heartbeat
  <2>9. \A q \in Runs \ {r} : run'[q] = run[q] /\ output'[q] = output[q] /\ inbox'[q] = inbox[q]
    BY <1>1, <2>6, <2>7, <2>8 DEF SetRun
  <2> QED
    BY <2>1, <2>3, <2>5, <2>9
<1>3. CASE Failing(w, r)
  <2>1. UNCHANGED <<lapsed, cancelled, contested, sent, driver>> /\ LeavesOthers(adrift, r) /\ LeavesOthers(spilled, r)
        /\ faults' = faults + 1
    BY <1>3, FailingFacts
  <2>2. PICK p \in {"fail", "leave"} : GoTo(w, r, p)
    BY <1>3, FailingFacts
  <2>3. \A v \in Workers, q \in Runs : v # w \/ q # r => exec'[v][q] = exec[v][q]
    BY <1>1, <2>2 DEF GoTo
  <2>4. row' = row \/ \E x : SetRow(r, Key(w, r), x)
    BY <1>3, FailingFacts
  <2>5. /\ \A q \in Runs \ {r} : row'[q] = row[q]
        /\ \A k \in Keys : k # Key(w, r) => row'[r][k] = row[r][k]
    BY <1>1, <2>4 DEF SetRow
  <2>6. (run' = run \/ \E x : SetRun(r, x)) /\ (output' = output \/ \E x : output' = [output EXCEPT ![r] = x])
    BY <1>3, FailingFacts DEF WriteStatus
  <2>7. inbox' = inbox \/ inbox' = [inbox EXCEPT ![r] = Tail(@)]
    BY <1>3, FailingFacts
  <2>8. \A q \in Runs \ {r} : run'[q] = run[q] /\ output'[q] = output[q] /\ inbox'[q] = inbox[q]
    BY <1>1, <2>6, <2>7 DEF SetRun
  <2> QED
    BY <1>3, <2>1, <2>3, <2>5, <2>8
<1> QED
  BY <1>2, <1>3 DEF Executing

LEMMA ExecutingSound ==
    ASSUME TypeInv, TypeInv', NEW w \in Workers, NEW r \in Runs, Executing(w, r), Sound(r)
    PROVE  Sound(r)'
<1> USE DEF Here, db, leadership, At, AtStep, Held, Beating
<1> DEFINE s == exec[w][r].st
           k == Key(w, r)
<1>1. /\ exec[w][r] \in ExecType /\ s \in States /\ exec[w][r].out \in Entries
      /\ exec[w][r].pc \in AtStep => Len(s) < Len(Plan) /\ k \in Keys /\ Row(w, r) \in RowType
  BY ExecFacts
<1>2. /\ cancelled' = cancelled
      /\ \A v \in Workers \ {w} : exec'[v][r] = exec[v][r]
      /\ \A j \in Keys : j # k => row'[r][j] = row[r][j]
  BY ExecutingFrame
<1>3. /\ exec \in [Workers -> [Runs -> ExecType]] /\ run \in [Runs -> RunStatus]
      /\ row \in [Runs -> [Keys -> RowType]]
  BY DEF TypeInv, TypeOK
<1>4. \A v \in Workers : /\ exec[v][r].pc \in Held => row[r][KeyOf(exec[v][r].st)].st = "running"
                         /\ exec[v][r].pc = "end" => Len(exec[v][r].st) = Len(Plan)
  BY DEF Sound
<1>5. \A v \in Workers : v # w => Stays(v, r)
  BY <1>2, <1>4 DEF Stays
(* What a step that moves this executor alone, and no row, needs. *)
<1>6. ASSUME row' = row, Stays(w, r), Finished(r)' => Finished(r) \/ WholeRecord(row'[r])
      PROVE  Sound(r)'
  <2>1. Kept(row[r], row'[r])
    BY <1>6 DEF Kept
  <2> QED
    BY <1>4, <1>5, <1>6, <2>1, StaysSound
<1>7. ASSUME NEW p, GoTo(w, r, p)
      PROVE  exec'[w][r].pc = p /\ exec'[w][r].st = s
  BY <1>1, <1>3, <1>7 DEF GoTo, ExecType
<1>8. ASSUME NEW x, SetRow(r, k, x), k \in Keys
      PROVE  row'[r][k] = x
  BY <1>3, <1>8 DEF SetRow
<1>9. run' = run => (Finished(r)' => Finished(r))
  BY <1>2 DEF Finished
<1>10. CASE Upsert(w, r)
  <2>1. k \in Keys /\ row'[r][k] = Upserted(row[r][k]) /\ Row(w, r) = row[r][k] /\ Row(w, r) \in RowType
    BY <1>1, <1>8, <1>10 DEF Upsert, Row
  <2>2. row[r][k].st # "none" => row'[r][k] = row[r][k]
    BY <2>1 DEF Upserted
  <2>3. Kept(row[r], row'[r])
    BY <1>2, <2>2 DEF Kept
  <2>4. \A v \in Workers : exec[v][r].pc \in Held => row'[r][KeyOf(exec[v][r].st)].st = "running"
    <3>1. \A v \in Workers : exec[v][r].pc \in Held => Key(v, r) \in Keys
      BY ExecFacts
    <3> QED
      BY <1>2, <1>4, <2>2, <3>1 DEF Key
  <2>5. CASE Row(w, r).st = "completed"
    <3>1. PICK e \in ExecType : Moves(w, r, e) /\ e.pc \in {"save", "end", "upsert"} /\ (e.pc = "end" => Len(e.st) = Len(Plan))
                               /\ e.st = Append(s, Row(w, r).out)
      <4>1. Row(w, r).out \in Entries /\ Passed(w, r, Row(w, r).out)
        BY <1>10, <2>1, <2>5 DEF Upsert, RowType, Entries
      <4> QED
        BY <1>10, <4>1, PassedMoves DEF Upsert
    <3>2. exec'[w][r] = e
      BY <1>3, <3>1 DEF Moves
    <3>3. row'[r][KeyOf(s)].st = "completed" /\ row'[r][KeyOf(s)].out = Row(w, r).out
      BY <2>1, <2>2, <2>5 DEF Key
    <3>4. Others(w, r)
      BY <1>2, <2>4 DEF Others
    <3>5. Row(w, r).out \in Entries /\ exec[w][r].pc \in AtStep /\ (Finished(r)' => Finished(r))
      BY <1>9, <1>10, <2>1 DEF Upsert, RowType, Entries
    <3> QED
      BY <2>3, <3>1, <3>2, <3>3, <3>4, <3>5, AppendsSound
  <2>6. CASE Row(w, r).st # "completed"
    <3>1. exec'[w][r].pc = "claim" /\ exec'[w][r].st = s
      BY <1>7, <1>10, <2>6 DEF Upsert
    <3>2. Stays(w, r)
      BY <3>1 DEF Stays
    <3>3. run' = run
      BY <1>10 DEF Upsert
    <3> QED
      BY <1>5, <1>9, <2>3, <2>4, <3>2, <3>3, StaysSound
  <2> QED
    BY <2>5, <2>6
<1>11. CASE Claim(w, r)
  <2>1. k \in Keys /\ row'[r][k] = Claimed(row[r][k]) /\ row[r][k].st = "pending" /\ row[r][k] \in RowType /\ Row(w, r) = row[r][k]
    BY <1>1, <1>8, <1>11 DEF Claim, Row, Claimable
  <2>2. row'[r][k].st = "running"
    BY <2>1 DEF Claimed, RowType
  <2>3. PICK p \in {"body", "skip"} : GoTo(w, r, p)
    BY <1>11 DEF Claim
  <2>4. exec'[w][r].pc = p /\ exec'[w][r].st = s
    BY <1>7, <2>3
  <2>5. Kept(row[r], row'[r])
    BY <1>2, <2>1 DEF Kept
  <2>6. \A v \in Workers : exec[v][r].pc \notin Held
    <3> SUFFICES ASSUME NEW v \in Workers, exec[v][r].pc \in Held PROVE FALSE
      OBVIOUS
    <3>1. Row(w, r).st # "completed" /\ exec[w][r].pc \in AtStep
      BY <1>11, <2>1 DEF Claim
    <3>2. exec[v][r].st = s
      BY <3>1, OneFront
    <3> QED
      BY <1>4, <2>1, <3>2 DEF Key
  <2>7. \A v \in Workers : exec'[v][r].pc \in Held => v = w
    BY <1>2, <2>6
  <2>8. \A v \in Workers : exec'[v][r].st = exec[v][r].st /\ exec[v][r].st \in States
    BY <1>2, <1>3, <2>4 DEF ExecType
  <2>9. \A v \in Workers : Replayed(row'[r], exec[v][r].st)
    BY <2>5, <2>8, StillReplayed DEF Sound
  <2>10. run' = run
    BY <1>11 DEF Claim
  <2>11. Finished(r)' => WholeRecord(row'[r])
    BY <1>9, <2>5, <2>10, StillWhole DEF Sound
  <2>12. \A v \in Workers : exec'[v][r].pc \in Held => row'[r][KeyOf(exec'[v][r].st)].st = "running"
    BY <2>2, <2>4, <2>7 DEF Key
  <2>13. \A v \in Workers : exec'[v][r].pc = "end" => Len(exec'[v][r].st) = Len(Plan)
    BY <1>2, <1>4, <2>3, <2>4
  <2>14. \A v, x \in Workers : exec'[v][r].pc \in Held /\ exec'[x][r].pc \in Held => v = x
    BY <2>7
  <2>15. \A v, x \in Workers : Agree(exec'[v][r].st, exec'[x][r].st)
    BY <2>8 DEF Sound
  <2>16. \A v \in Workers : Replayed(row'[r], exec'[v][r].st)
    BY <2>8, <2>9
  <2> QED
    BY <2>11, <2>12, <2>13, <2>14, <2>15, <2>16 DEF Sound
<1>12. CASE ClaimLost(w, r)
  <2>1. Stays(w, r)
    BY <1>7, <1>12 DEF ClaimLost, Stays
  <2> QED
    BY <1>6, <1>9, <1>12, <2>1 DEF ClaimLost
<1>13. CASE BodyRaises(w, r)
  <2>1. PICK p \in {"abort", "final", "retry"} : GoTo(w, r, p)
    BY <1>13 DEF BodyRaises
  <2>2. Stays(w, r)
    BY <1>7, <1>13, <2>1 DEF BodyRaises, Stays
  <2> QED
    BY <1>6, <1>9, <1>13, <2>2 DEF BodyRaises
<1>14. ASSUME NEW o, exec[w][r].pc = "body", exec' = [exec EXCEPT ![w][r].pc = "done", ![w][r].out = o], row' = row, run' = run
       PROVE  Sound(r)'
  <2>1. exec'[w][r].pc = "done" /\ exec'[w][r].st = s
    BY <1>1, <1>3, <1>14 DEF ExecType
  <2>2. Stays(w, r)
    BY <1>14, <2>1 DEF Stays
  <2> QED
    BY <1>6, <1>9, <1>14, <2>2
<1>15. CASE \E o \in Outputs : BodyReturns(w, r, o)
  BY <1>14, <1>15 DEF BodyReturns
<1>16. CASE ConsumeSignal(w, r)
  BY <1>14, <1>16 DEF ConsumeSignal
<1>17. CASE Complete(w, r)
  <2> DEFINE o == exec[w][r].out
  <2>1. exec[w][r].pc \in Held /\ exec[w][r].pc \in AtStep /\ k \in Keys /\ run' = run
    BY <1>1, <1>17 DEF Complete
  <2>2. row'[r][k] = Completed(row[r][k], o) /\ row[r][k] \in RowType /\ row[r][k].st = "running"
    BY <1>1, <1>4, <1>8, <1>17, <2>1 DEF Complete, Row, Key
  <2>3. row'[r][k].st = "completed" /\ row'[r][k].out = o
    BY <2>2 DEF Completed, RowType
  <2>4. Kept(row[r], row'[r])
    BY <1>2, <2>2 DEF Kept
  <2>5. Others(w, r)
    BY <1>2, <2>1 DEF Others, Sound
  <2>6. PICK e \in ExecType : Moves(w, r, e) /\ e.pc \in {"save", "end", "upsert"} /\ (e.pc = "end" => Len(e.st) = Len(Plan))
                             /\ e.st = Append(s, o)
    BY <1>1, <1>17, <2>1, PassedMoves DEF Complete
  <2>7. exec'[w][r] = e
    BY <1>3, <2>6 DEF Moves
  <2>8. row'[r][KeyOf(s)].st = "completed" /\ row'[r][KeyOf(s)].out = o
    BY <2>3 DEF Key
  <2> QED
    BY <1>1, <1>9, <2>1, <2>4, <2>5, <2>6, <2>7, <2>8, AppendsSound
<1>18. CASE Save(w, r)
  <2>1. PICK p \in {"end", "upsert"} : GoTo(w, r, p) /\ (p = "end" => Len(s) = Len(Plan))
    BY <1>18 DEF Save
  <2>2. Stays(w, r)
    BY <1>7, <2>1 DEF Stays
  <2> QED
    BY <1>6, <1>9, <1>18, <2>2 DEF Save
<1>19. CASE RecordFailure(w, r)
  <2>1. PICK p \in {<<"retry", "requeue">>, <<"final", "fail">>, <<"abort", "cancel">>} :
            /\ At(w, r, p[1])
            /\ SetRow(r, Key(w, r), Failed(Row(w, r), p[1] # "retry"))
            /\ GoTo(w, r, p[2])
            /\ UNCHANGED <<run, output, Here>>
    BY <1>19 DEF RecordFailure
  <2>2. exec[w][r].pc \in Held /\ k \in Keys /\ p[2] \in {"requeue", "fail", "cancel"} /\ run' = run
    BY <1>1, <2>1
  <2>3. row[r][k].st = "running"
    BY <1>4, <2>2 DEF Key
  <2>4. Kept(row[r], row'[r])
    BY <1>2, <2>3 DEF Kept
  <2>5. exec'[w][r].pc \in {"requeue", "fail", "cancel"} /\ exec'[w][r].st = s
    BY <1>7, <2>1, <2>2
  <2>6. Stays(w, r)
    BY <2>5 DEF Stays
  <2>7. \A v \in Workers : exec[v][r].pc \in Held /\ exec'[v][r].pc \in Held => FALSE
    BY <2>2, <2>5 DEF Sound
  <2> QED
    BY <1>5, <1>9, <2>2, <2>4, <2>6, <2>7, StaysSound
<1>23. ASSUME WriteStatus(w, r), row' = row, Finished(r)'
       PROVE  WholeRecord(row'[r])
  <2>1. run'[r] = "completed" => exec[w][r].pc = "end"
    <3>1. exec[w][r].pc \in {"end", "fail", "cancel", "requeue"}
      BY <1>23 DEF WriteStatus, Outcome
    <3> QED
      BY <1>3, <1>23, <3>1 DEF WriteStatus, SetRun, Outcome
  <2>2. Len(s) = Len(Plan) /\ Replayed(row[r], s)
    BY <1>23, <2>1 DEF Finished, Sound
  <2>3. s \in [Places -> Entries]
    <3>1. s \in Seq(Entries) /\ Len(s) \in Nat
      BY <1>1, StateSeq
    <3>2. s \in [1..Len(s) -> Entries]
      BY <3>1
    <3> QED
      BY <2>2, <3>2 DEF Places
  <2> QED
    BY <1>23, <2>2, <2>3 DEF WholeRecord
<1>20. CASE Finish(w, r)
  <2>1. Stays(w, r)
    BY <1>7, <1>20 DEF Finish, Stays
  <2> QED
    BY <1>6, <1>20, <1>23, <2>1 DEF Finish
<1>24. CASE Breaks(w, r)
  <2>1. Stays(w, r)
    BY <1>7, <1>24 DEF Breaks, Stays
  <2> QED
    BY <1>6, <1>9, <1>24, <2>1 DEF Breaks
<1>25. CASE Failing(w, r)
  <2>1. exec'[w][r].pc \in {"fail", "leave"} /\ exec'[w][r].st = s
    BY <1>25, FailingFacts
  <2>2. Stays(w, r)
    BY <2>1 DEF Stays
  <2>3. CASE row' = row
    <3>1. Finished(r)' => Finished(r) \/ WholeRecord(row'[r])
      BY <1>9, <1>23, <1>25, <2>3, FailingFacts
    <3> QED
      BY <1>6, <2>2, <2>3, <3>1
  <2>4. ASSUME NEW x, exec[w][r].pc \in AtStep, SetRow(r, k, x), Rewritten(w, r, x)
        PROVE  Sound(r)'
    <3>1. k \in Keys /\ row'[r][k] = x /\ Row(w, r) = row[r][k] /\ row[r][k] \in RowType
      BY <1>1, <1>8, <2>4 DEF Row
    <3>2. \/ x = row[r][k]
          \/ x.st # "none" /\ row[r][k].st \in {"none", "pending"} /\ exec[w][r].pc \notin Held
          \/ row[r][k].st = "running" /\ exec[w][r].pc \in Held
      <4>1. CASE exec[w][r].pc = "upsert"
        BY <2>4, <3>1, <4>1 DEF Rewritten, Upserted, RowType
      <4>2. CASE exec[w][r].pc = "claim"
        BY <2>4, <3>1, <4>2 DEF Rewritten, Claimable, Claimed, RowType
      <4>3. CASE exec[w][r].pc \in Held
        BY <1>4, <4>3 DEF Key
      <4> QED
        BY <2>4, <4>1, <4>2, <4>3
    <3>3. Kept(row[r], row'[r])
      BY <1>2, <3>1, <3>2 DEF Kept
    <3>4. ASSUME NEW v \in Workers, exec[v][r].pc \in Held, exec'[v][r].pc \in Held
          PROVE  row'[r][KeyOf(exec[v][r].st)].st = "running"
      <4>1. v # w
        BY <2>1, <3>4
      <4>2. Key(v, r) \in Keys /\ row[r][Key(v, r)].st = "running"
        BY <1>4, <3>4, ExecFacts DEF Key
      <4>3. exec[w][r].pc \notin Held
        BY <3>4, <4>1 DEF Sound
      <4> QED
        BY <1>2, <3>1, <3>2, <4>2, <4>3 DEF Key
    <3>5. run' = run
      <4>1. WriteStatus(w, r) => exec[w][r].pc \in {"end", "fail", "cancel", "requeue"}
        BY DEF WriteStatus, Outcome
      <4> QED
        BY <1>25, <2>4, <4>1, FailingFacts
    <3> QED
      BY <1>5, <1>9, <2>2, <3>3, <3>4, <3>5, StaysSound
  <2> QED
    BY <1>25, <2>3, <2>4, FailingFacts
<1>21. CASE TaskEnds(w, r)
  <2>1. exec'[w][r] = Idle
    BY <1>3, <1>21 DEF TaskEnds
  <2>2. Stays(w, r)
    BY <2>1 DEF Stays, Idle
  <2> QED
    BY <1>6, <1>9, <1>21, <2>2 DEF TaskEnds
<1>22. CASE Heartbeat(w, r)
  <2>1. exec' = exec /\ run' = run /\ k \in Keys /\ row[r][k] \in RowType /\ row'[r][k] = [row[r][k] EXCEPT !.beat = TRUE]
    BY <1>1, <1>8, <1>22 DEF Heartbeat, Row
  <2>2. row'[r][k].st = row[r][k].st /\ row'[r][k].out = row[r][k].out
    BY <2>1 DEF RowType
  <2>3. Kept(row[r], row'[r])
    BY <1>2, <2>2 DEF Kept
  <2>4. \A v \in Workers : Stays(v, r)
    BY <1>4, <2>1 DEF Stays
  <2>5. \A v \in Workers : exec[v][r].pc \in Held => row'[r][KeyOf(exec[v][r].st)].st = "running"
    <3>1. \A v \in Workers : exec[v][r].pc \in Held => Key(v, r) \in Keys
      BY ExecFacts
    <3> QED
      BY <1>2, <1>4, <2>2, <3>1 DEF Key
  <2> QED
    BY <1>9, <2>1, <2>3, <2>4, <2>5, StaysSound
<1> QED
  BY <1>10, <1>11, <1>12, <1>13, <1>15, <1>16, <1>17, <1>18, <1>19, <1>20, <1>21, <1>22,
     <1>24, <1>25 DEF Executing, Execute

(* A step of anything else: executors are cut or dispatched, and only rows  *)
(* that nobody holds change their status.                                   *)
Dispatched == [Idle EXCEPT !.pc = "upsert"]
Quiet(r) ==
    /\ \A v \in Workers : exec'[v][r] \in {exec[v][r], Idle, Dispatched}
    /\ \A k \in Keys : \/ row'[r][k].st = row[r][k].st /\ row'[r][k].out = row[r][k].out
                       \/ Holders(r, k) = {} /\ row[r][k].st # "completed"
    /\ Finished(r)' => Finished(r)

LEMMA QuietSound ==
    ASSUME TypeInv, TypeInv', NEW r \in Runs, Sound(r), Quiet(r)
    PROVE  Sound(r)'
<1>1. \A v \in Workers : Stays(v, r)
  BY DEF Quiet, Stays, Sound, Idle, Dispatched, Held, Beating
<1>2. Kept(row[r], row'[r])
  BY DEF Quiet, Kept
<1>3. ASSUME NEW v \in Workers, exec[v][r].pc \in Held
      PROVE  row'[r][KeyOf(exec[v][r].st)].st = "running"
  <2>1. Key(v, r) \in Keys
    BY <1>3, ExecFacts DEF AtStep
  <2>2. v \in Holders(r, Key(v, r))
    BY <1>3 DEF Holders, Key
  <2>3. row[r][Key(v, r)].st = "running"
    BY <1>3 DEF Sound, Key
  <2> QED
    BY <2>1, <2>2, <2>3 DEF Quiet, Key
<1> QED
  BY <1>1, <1>2, <1>3, StaysSound DEF Quiet

(* The clock changes nothing of a row but its beat and whether it is due.    *)
LEMMA ClockRows ==
    ASSUME TypeInv, NEW r \in Runs, NEW j \in Keys, Silence(r, j) \/ Lapse(r, j) \/ FallDue(r, j)
    PROVE  \A q \in Runs, k \in Keys : /\ row'[q][k].st = row[q][k].st /\ row'[q][k].out = row[q][k].out
                                        /\ row'[q][k].attempts = row[q][k].attempts
<1> DEFINE changed == {[row[r][j] EXCEPT !.beat = FALSE], [row[r][j] EXCEPT !.due = TRUE]}
<1>1. row \in [Runs -> [Keys -> RowType]] /\ row[r][j] \in RowType
  BY DEF TypeInv, TypeOK
<1>2. PICK x \in changed : row' = [row EXCEPT ![r][j] = x]
  BY DEF Silence, Lapse, FallDue, Silent, SetRow
<1>3. x.st = row[r][j].st /\ x.out = row[r][j].out /\ x.attempts = row[r][j].attempts
  BY <1>1, <1>2 DEF RowType
<1>4. /\ row'[r][j] = x
      /\ \A q \in Runs, k \in Keys : q # r \/ k # j => row'[q][k] = row[q][k]
  BY <1>1, <1>2
<1> QED
  BY <1>3, <1>4

LEMMA OtherSteps ==
    ASSUME TypeInv, [Next]_vars, \A w \in Workers, r \in Runs : ~Executing(w, r)
    PROVE  lapsed \subseteq lapsed' /\ \A r \in Runs \ lapsed' : Quiet(r)
<1> USE DEF db, leadership
<1> DEFINE Goal == lapsed \subseteq lapsed' /\ \A r \in Runs \ lapsed' : Quiet(r)
<1>1. /\ exec \in [Workers -> [Runs -> ExecType]] /\ run \in [Runs -> RunStatus]
      /\ row \in [Runs -> [Keys -> RowType]] /\ lapsed \subseteq Runs /\ cancelled \subseteq Runs
  BY DEF TypeInv, TypeOK
<1>3. ASSUME NEW r \in Runs, Client(r)
      PROVE  Goal
  <2>1. exec' = exec /\ row' = row /\ lapsed' = lapsed
    BY <1>3 DEF Client, Submit, Cancel, Send
  <2>2. ASSUME NEW q \in Runs
        PROVE  Finished(q)' => Finished(q)
    BY <1>1, <1>3 DEF Client, Submit, Cancel, Send, SetRun, Finished
  <2> QED
    BY <2>1, <2>2 DEF Quiet
<1>4. ASSUME exec' = exec, row' = row, lapsed' = lapsed, cancelled' = cancelled, run' = run
      PROVE  Goal
  BY <1>4 DEF Quiet, Finished
<1>5. ASSUME NEW w \in Workers, Cut(w), row' = row, lapsed' = lapsed, cancelled' = cancelled, run' = run
      PROVE  Goal
  <2>1. \A v \in Workers, q \in Runs : exec'[v][q] \in {exec[v][q], Idle}
    BY <1>1, <1>5 DEF Cut
  <2> QED
    BY <1>5, <2>1 DEF Quiet, Finished
<1>6. ASSUME NEW w \in Workers, Drive(w)
      PROVE  Goal
  <2>1. CASE Start(w) \/ Compete(w)
    BY <1>4, <2>1 DEF Start, Compete
  <2>2. CASE Reclaim(w)
    <3>1. ASSUME NEW r \in Runs \ lapsed', NEW k \in Keys
          PROVE  row'[r][k] = row[r][k] \/ (Holders(r, k) = {} /\ row[r][k].st # "completed")
      <4>1. row'[r][k] = IF Stale(row[r][k]) THEN Reclaimed(row[r][k]) ELSE row[r][k]
        BY <2>2 DEF Reclaim
      <4>2. Stale(row[r][k]) => Holders(r, k) = {}
        BY <2>2 DEF Reclaim
      <4> QED
        BY <4>1, <4>2 DEF Stale
    <3> QED
      BY <2>2, <3>1 DEF Reclaim, Quiet, Finished
  <2>3. CASE Revive(w)
    <3>1. \A q \in Runs : run'[q] \in {run[q], "pending"}
      BY <2>3 DEF Revive
    <3> QED
      BY <2>3, <3>1 DEF Revive, Quiet, Finished
  <2>4. CASE ClaimRuns(w)
    <3>1. \A q \in Runs : run'[q] \in {run[q], "running"}
      BY <2>4 DEF ClaimRuns
    <3>2. \A v \in Workers, q \in Runs : exec'[v][q] \in {exec[v][q], Dispatched}
      BY <1>1, <2>4 DEF ClaimRuns, Dispatched
    <3> QED
      BY <2>4, <3>1, <3>2 DEF ClaimRuns, Quiet, Finished
  <2>5. CASE Drained(w)
    BY <1>5, <2>5 DEF Drained
  <2> QED
    BY <1>6, <2>1, <2>2, <2>3, <2>4, <2>5 DEF Drive, Tick
<1>7. ASSUME NEW w \in Workers, Fault(w)
      PROVE  Goal
  <2>1. CASE DropLock(w) \/ Stop(w)
    BY <1>4, <2>1 DEF DropLock, Stop
  <2>2. CASE Kill(w)
    BY <1>5, <2>2 DEF Kill
  <2>3. CASE TickFails(w)
    <3>1. \A q \in Runs : run'[q] \in {run[q], "running"}
      BY <2>3 DEF TickFails
    <3> QED
      BY <2>3, <3>1 DEF TickFails, Quiet, Finished
  <2> QED
    BY <1>7, <2>1, <2>2, <2>3 DEF Fault
<1>8. CASE Time
  <2>1. PICK r \in Runs, j \in Keys : Silence(r, j) \/ Lapse(r, j) \/ FallDue(r, j)
    BY <1>8 DEF Time
  <2>2. exec' = exec /\ run' = run /\ cancelled' = cancelled /\ lapsed \subseteq lapsed'
    BY <2>1 DEF Silence, Lapse, FallDue, Here
  <2>3. \A q \in Runs, k \in Keys : row'[q][k].st = row[q][k].st /\ row'[q][k].out = row[q][k].out
    BY <2>1, ClockRows
  <2> QED
    BY <2>2, <2>3 DEF Quiet, Finished
<1>9. CASE UNCHANGED vars
  BY <1>4, <1>9 DEF vars
<1> QED
  BY <1>3, <1>6, <1>7, <1>8, <1>9 DEF Next, Executing

LEMMA SoundStep == TypeInv /\ TypeInv' /\ SoundInv /\ [Next]_vars => SoundInv'
<1> SUFFICES ASSUME TypeInv, TypeInv', SoundInv, [Next]_vars PROVE SoundInv'
  OBVIOUS
<1>1. ASSUME NEW w \in Workers, NEW r \in Runs, Executing(w, r)
      PROVE  SoundInv'
  <2>1. /\ lapsed' = lapsed /\ cancelled' = cancelled
        /\ \A v \in Workers, q \in Runs : q # r => exec'[v][q] = exec[v][q]
        /\ \A q \in Runs \ {r} : run'[q] = run[q] /\ row'[q] = row[q]
    BY <1>1, ExecutingFrame
  <2>2. ASSUME NEW q \in Runs \ lapsed, q # r
        PROVE  Sound(q)'
    <3>1. Quiet(q)
      BY <2>1, <2>2 DEF Quiet, Finished
    <3> QED
      BY <2>2, <3>1, QuietSound DEF SoundInv
  <2>3. r \notin lapsed => Sound(r)'
    BY <1>1, ExecutingSound DEF SoundInv
  <2> QED
    BY <2>1, <2>2, <2>3 DEF SoundInv
<1>2. CASE \A w \in Workers, r \in Runs : ~Executing(w, r)
  BY <1>2, OtherSteps, QuietSound DEF SoundInv
<1> QED
  BY <1>1, <1>2

LEMMA SoundAlways == Spec => [](TypeInv /\ SoundInv)
<1>1. Init => SoundInv
  <2> SUFFICES ASSUME Init, NEW r \in Runs PROVE Sound(r)
    BY DEF SoundInv
  <2>1. \A w \in Workers : exec[w][r] = Idle
    BY DEF Init
  <2>2. Agree(<<>>, <<>>)
    BY EmptyState, EmptyAgrees
  <2> QED
    BY <2>1, <2>2, NothingDone DEF Init, Sound, Idle, Held, Beating, Finished
<1>2. TypeInv /\ SoundInv /\ [Next]_vars => TypeInv' /\ SoundInv'
  BY TypeStep, SoundStep
<1>3. Init => TypeInv
  BY InitType
<1> QED
  BY <1>1, <1>2, <1>3, PTL DEF Spec

(* Bodies exclude each other, whatever workers die and leaders change.      *)
THEOREM Exclusion == Spec => []OneBodyAtATime
<1>1. SoundInv => OneBodyAtATime
  BY DEF SoundInv, Sound, OneBodyAtATime
<1> QED
  BY <1>1, SoundAlways, PTL

(* A completed run has the whole of its plan recorded.                      *)
THEOREM WholeRuns == Spec => []CompletedIsWhole
<1>1. SoundInv => CompletedIsWhole
  BY DEF SoundInv, Sound, Finished, WholeRecord, CompletedIsWhole, Undisturbed, Entries
<1> QED
  BY <1>1, SoundAlways, PTL

-----------------------------------------------------------------------------
(* What the claims of a row have left: a fault may give a row a second      *)
(* holder, or back to be claimed, once; a stopped worker gives its rows     *)
(* back when it is drained, later than the fault that stopped it.           *)

Retrying(r, k) == {w \in Holders(r, k) : exec[w][r].pc = "retry"}
Draining == {w \in Workers : driver[w] = "draining"}
Spare == faults - Cardinality(Draining)
(* Nothing but time is needed for the row to be claimed again.              *)
Free(r, k) ==
    \/ row[r][k].st \in {"none", "pending"}
    \/ row[r][k].st = "running" /\ (~row[r][k].beat \/ Holders(r, k) = {})
Budget(r, k) ==
    /\ row[r][k].attempts + Cardinality(Retrying(r, k)) <= MaxAttempts + Spare
    /\ Cardinality(Holders(r, k)) <= Spare + 1
    /\ Free(r, k) => /\ row[r][k].attempts + Cardinality(Retrying(r, k)) + 1 <= MaxAttempts + Spare
                     /\ Cardinality(Holders(r, k)) <= Spare
BudgetInv == \A r \in Runs, k \in Keys : Budget(r, k)

LEMMA WorkerSets ==
    ASSUME NEW S \in SUBSET Workers, NEW T \in SUBSET S
    PROVE  /\ IsFiniteSet(S) /\ IsFiniteSet(T)
           /\ Cardinality(S) \in Nat /\ Cardinality(T) \in Nat
           /\ Cardinality(T) <= Cardinality(S)
<1>1. IsFiniteSet(S)
  BY WorkersAssumption, FS_Subset
<1> QED
  BY <1>1, FS_Subset, FS_CardinalityType

LEMMA SpareIs ==
    ASSUME TypeInv
    PROVE  Spare \in Int /\ faults \in Nat /\ Cardinality(Draining) \in Nat
<1>1. Draining \in SUBSET Workers
  BY DEF Draining
<1> QED
  BY <1>1, WorkerSets DEF Spare, TypeInv, TypeOK

LEMMA SameDrivers ==
    ASSUME TypeInv, TypeInv', Draining' = Draining
    PROVE  Spare' = Spare + (faults' - faults)
<1>1. faults \in Nat /\ faults' \in Nat /\ Cardinality(Draining) \in Nat
  BY SpareIs DEF TypeInv, TypeOK
<1> QED
  BY <1>1 DEF Spare

(* A worker that ends gives one to spare, killed or drained.                *)
LEMMA CutSpares ==
    ASSUME TypeInv, TypeInv', NEW w \in Workers, Kill(w) \/ Drained(w)
    PROVE  Spare' >= Spare + 1
<1>1. faults \in Nat /\ faults' \in Nat /\ driver \in [Workers -> {"off", "standby", "leader", "draining"}]
  BY DEF TypeInv, TypeOK
<1>2. Draining' = Draining \ {w}
  BY <1>1 DEF Kill, Drained, Leave, Draining
<1>3. Draining \in SUBSET Workers /\ Draining' \in SUBSET Draining
  BY <1>2 DEF Draining
<1>4. /\ IsFiniteSet(Draining) /\ Cardinality(Draining) \in Nat
      /\ Cardinality(Draining') \in Nat /\ Cardinality(Draining') <= Cardinality(Draining)
  BY <1>3, WorkerSets
<1>5. CASE Kill(w)
  BY <1>1, <1>4, <1>5 DEF Kill, Faulty, Spare
<1>6. CASE Drained(w)
  <2>1. w \in Draining
    BY <1>6 DEF Drained, Draining
  <2>2. Cardinality(Draining') = Cardinality(Draining) - 1
    BY <1>2, <1>4, <2>1, FS_RemoveElement
  <2> QED
    BY <1>1, <1>4, <1>6, <2>2 DEF Drained, Spare
<1> QED
  BY <1>5, <1>6

LEMMA StopSpares ==
    ASSUME TypeInv, TypeInv', NEW w \in Workers, Stop(w)
    PROVE  Spare' = Spare
<1>1. faults \in Nat /\ driver \in [Workers -> {"off", "standby", "leader", "draining"}]
  BY DEF TypeInv, TypeOK
<1>2. Draining' = Draining \cup {w} /\ w \notin Draining
  BY <1>1 DEF Stop, Leave, Draining
<1>3. IsFiniteSet(Draining) /\ Cardinality(Draining) \in Nat
  <2>1. Draining \in SUBSET Workers
    BY DEF Draining
  <2> QED
    BY <2>1, WorkerSets
<1>4. Cardinality(Draining') = Cardinality(Draining) + 1
  BY <1>2, <1>3, FS_AddElement
<1> QED
  BY <1>1, <1>3, <1>4 DEF Stop, Faulty, Spare

LEMMA SpareNext ==
    ASSUME TypeInv'
    PROVE  Spare' \in Int
<1>1. Draining' \in SUBSET Workers
  BY DEF Draining
<1>2. Cardinality(Draining') \in Nat /\ faults' \in Nat
  BY <1>1, WorkerSets DEF TypeInv, TypeOK
<1> QED
  BY <1>2 DEF Spare

LEMMA BudgetFacts ==
    ASSUME TypeInv, NEW r \in Runs, NEW k \in Keys
    PROVE  /\ Holders(r, k) \in SUBSET Workers /\ Retrying(r, k) \in SUBSET Holders(r, k)
           /\ IsFiniteSet(Holders(r, k)) /\ IsFiniteSet(Retrying(r, k))
           /\ Cardinality(Holders(r, k)) \in Nat /\ Cardinality(Retrying(r, k)) \in Nat
           /\ Cardinality(Retrying(r, k)) <= Cardinality(Holders(r, k))
           /\ row[r][k] \in RowType /\ row[r][k].attempts \in Nat
           /\ Spare \in Int /\ MaxAttempts \in Nat \ {0}
<1>1. Holders(r, k) \in SUBSET Workers /\ Retrying(r, k) \in SUBSET Holders(r, k)
  BY DEF Holders, Retrying
<1>2. row[r][k] \in RowType
  BY DEF TypeInv, TypeOK
<1>3. row[r][k].attempts \in Nat
  BY <1>2 DEF RowType
<1> QED
  BY <1>1, <1>2, <1>3, WorkerSets, SpareIs, AttemptsAssumption

LEMMA Fewer ==
    ASSUME NEW a \in Nat, NEW h \in Nat, NEW h2 \in Nat, NEW t \in Nat, NEW t2 \in Nat, NEW m \in Nat,
           NEW s \in Int, NEW s2 \in Int, h2 <= h, t2 <= t, a + t <= m + s, h <= s + 1, s2 >= s
    PROVE  /\ a + t2 <= m + s2 /\ h2 <= s2 + 1
           /\ a + t + 1 <= m + s /\ h <= s => a + t2 + 1 <= m + s2 /\ h2 <= s2
           /\ s2 >= s + 1 => a + t2 + 1 <= m + s2 /\ h2 <= s2
  OBVIOUS

(* A row that is not claimed keeps its budget, if it becomes free at the    *)
(* cost of a fault alone.                                                   *)
LEMMA BudgetStays ==
    ASSUME TypeInv, TypeInv', NEW r \in Runs, NEW k \in Keys, Budget(r, k),
           row'[r][k].attempts = row[r][k].attempts,
           Holders(r, k)' \subseteq Holders(r, k), Retrying(r, k)' \subseteq Retrying(r, k),
           Spare' >= Spare,
           Free(r, k)' => Free(r, k) \/ Spare' >= Spare + 1
    PROVE  Budget(r, k)'
<1>1. /\ row[r][k].attempts \in Nat /\ Spare \in Int /\ MaxAttempts \in Nat
      /\ Cardinality(Holders(r, k)) \in Nat /\ Cardinality(Retrying(r, k)) \in Nat
      /\ Holders(r, k) \in SUBSET Workers /\ Retrying(r, k) \in SUBSET Workers
  BY BudgetFacts
<1>2. /\ Cardinality(Holders(r, k)') \in Nat /\ Cardinality(Holders(r, k)') <= Cardinality(Holders(r, k))
      /\ Cardinality(Retrying(r, k)') \in Nat /\ Cardinality(Retrying(r, k)') <= Cardinality(Retrying(r, k))
  BY <1>1, WorkerSets
<1>3. Spare' \in Int
  BY SpareNext
<1>4. PICK a \in Nat, h \in Nat, t \in Nat, s \in Int :
          a = row[r][k].attempts /\ h = Cardinality(Holders(r, k)) /\ t = Cardinality(Retrying(r, k)) /\ s = Spare
  BY <1>1
<1>5. PICK h2 \in Nat, t2 \in Nat, s2 \in Int :
          h2 = Cardinality(Holders(r, k)') /\ t2 = Cardinality(Retrying(r, k)') /\ s2 = Spare'
  BY <1>2, <1>3
<1>6. h2 <= h /\ t2 <= t /\ a + t <= MaxAttempts + s /\ h <= s + 1 /\ s2 >= s
  BY <1>2, <1>4, <1>5 DEF Budget
<1>7. /\ a + t2 <= MaxAttempts + s2 /\ h2 <= s2 + 1
      /\ a + t + 1 <= MaxAttempts + s /\ h <= s => a + t2 + 1 <= MaxAttempts + s2 /\ h2 <= s2
      /\ s2 >= s + 1 => a + t2 + 1 <= MaxAttempts + s2 /\ h2 <= s2
  BY <1>1, <1>6, Fewer
<1>8. Free(r, k) => a + t + 1 <= MaxAttempts + s /\ h <= s
  BY <1>4 DEF Budget
<1>9. Free(r, k)' => a + t2 + 1 <= MaxAttempts + s2 /\ h2 <= s2
  BY <1>4, <1>5, <1>7, <1>8
<1> QED
  BY <1>4, <1>5, <1>7, <1>9 DEF Budget

(* A row whose holders and counts stay as they are.                         *)
LEMMA BudgetSame ==
    ASSUME TypeInv, TypeInv', NEW r \in Runs, NEW k \in Keys, Budget(r, k),
           row'[r][k].attempts = row[r][k].attempts, row'[r][k].st = row[r][k].st, row'[r][k].beat = row[r][k].beat,
           Holders(r, k)' = Holders(r, k), Retrying(r, k)' \subseteq Retrying(r, k), Spare' >= Spare
    PROVE  Budget(r, k)'
<1>1. Free(r, k)' => Free(r, k)
  BY DEF Free
<1> QED
  BY <1>1, BudgetStays

(* The steps that count: a claim, a body that is to be tried again, and its *)
(* row given back.                                                          *)
LEMMA BudgetClaimed ==
    ASSUME TypeInv, TypeInv', NEW r \in Runs, NEW k \in Keys, NEW w \in Workers, Budget(r, k),
           row[r][k].st = "pending", row'[r][k].attempts = row[r][k].attempts + 1,
           \/ /\ Holders(r, k)' = Holders(r, k) \cup {w} /\ w \notin Holders(r, k)
              /\ row'[r][k].st = "running" /\ row'[r][k].beat
              /\ Spare' >= Spare
           \/ Holders(r, k)' = Holders(r, k) /\ Spare' >= Spare + 1,
           Retrying(r, k)' = Retrying(r, k)
    PROVE  Budget(r, k)'
<1>1. /\ row[r][k].attempts \in Nat /\ Spare \in Int /\ MaxAttempts \in Nat
      /\ Cardinality(Holders(r, k)) \in Nat /\ Cardinality(Retrying(r, k)) \in Nat
      /\ IsFiniteSet(Holders(r, k))
  BY BudgetFacts
<1>2. Spare' \in Int
  BY SpareNext
<1>3. PICK a \in Nat, h \in Nat, t \in Nat, s \in Int, s2 \in Int :
          /\ a = row[r][k].attempts /\ h = Cardinality(Holders(r, k)) /\ t = Cardinality(Retrying(r, k))
          /\ s = Spare /\ s2 = Spare'
  BY <1>1, <1>2
<1>4. a + t + 1 <= MaxAttempts + s /\ h <= s
  BY <1>3 DEF Budget, Free
<1>5. row'[r][k].attempts = a + 1 /\ Cardinality(Retrying(r, k)') = t
  BY <1>3
<1>6. CASE /\ Holders(r, k)' = Holders(r, k) \cup {w} /\ w \notin Holders(r, k)
           /\ row'[r][k].st = "running" /\ row'[r][k].beat
           /\ Spare' >= Spare
  <2>1. Cardinality(Holders(r, k)') = h + 1
    <3>1. Cardinality(Holders(r, k) \cup {w}) = Cardinality(Holders(r, k)) + 1
      BY <1>1, <1>6, FS_AddElement
    <3> QED
      BY <1>3, <1>6, <3>1
  <2>2. ~Free(r, k)'
    BY <1>6 DEF Free
  <2>3. s2 >= s
    BY <1>3, <1>6
  <2>4. (a + 1) + t <= MaxAttempts + s2 /\ h + 1 <= s2 + 1
    BY <1>1, <1>4, <2>3
  <2> QED
    BY <1>3, <1>5, <2>1, <2>2, <2>4 DEF Budget
<1>7. CASE Holders(r, k)' = Holders(r, k) /\ Spare' >= Spare + 1
  <2>1. s2 >= s + 1 /\ Cardinality(Holders(r, k)') = h
    BY <1>3, <1>7
  <2>2. (a + 1) + t + 1 <= MaxAttempts + s2 /\ (a + 1) + t <= MaxAttempts + s2 /\ h <= s2 /\ h <= s2 + 1
    BY <1>1, <1>4, <2>1
  <2> QED
    BY <1>3, <1>5, <2>1, <2>2 DEF Budget
<1> QED
  BY <1>6, <1>7

LEMMA BudgetRetried ==
    ASSUME TypeInv, TypeInv', NEW r \in Runs, NEW k \in Keys, NEW w \in Workers, Budget(r, k),
           row'[r] = row[r], row[r][k].attempts < MaxAttempts,
           Holders(r, k)' = Holders(r, k), w \in Holders(r, k), w \notin Retrying(r, k),
           Retrying(r, k)' = Retrying(r, k) \cup {w}, Spare' = Spare
    PROVE  Budget(r, k)'
<1>1. /\ row[r][k].attempts \in Nat /\ Spare \in Int /\ MaxAttempts \in Nat
      /\ Cardinality(Holders(r, k)) \in Nat /\ Cardinality(Retrying(r, k)) \in Nat
      /\ IsFiniteSet(Retrying(r, k)) /\ Holders(r, k) \in SUBSET Workers /\ Retrying(r, k) \in SUBSET Holders(r, k)
  BY BudgetFacts
<1>2. PICK a \in Nat, h \in Nat, t \in Nat, s \in Int :
          a = row[r][k].attempts /\ h = Cardinality(Holders(r, k)) /\ t = Cardinality(Retrying(r, k)) /\ s = Spare
  BY <1>1
<1>3. Cardinality(Retrying(r, k)') = t + 1
  BY <1>1, <1>2, FS_AddElement
<1>4. t + 1 <= h
  <2>1. Retrying(r, k)' \in SUBSET Holders(r, k)
    BY <1>1
  <2> QED
    BY <1>1, <1>2, <1>3, <2>1, WorkerSets
<1>5. a + 1 <= MaxAttempts /\ h <= s + 1
  BY <1>1, <1>2 DEF Budget
<1>6. a + (t + 1) <= MaxAttempts + s
  BY <1>1, <1>4, <1>5
<1>7. h <= s => a + (t + 1) + 1 <= MaxAttempts + s
  BY <1>1, <1>4, <1>5
<1>8. Free(r, k)' => h <= s
  BY <1>2 DEF Free, Budget
<1> QED
  BY <1>2, <1>3, <1>5, <1>6, <1>7, <1>8 DEF Budget

LEMMA BudgetReturned ==
    ASSUME TypeInv, TypeInv', NEW r \in Runs, NEW k \in Keys, NEW w \in Workers, Budget(r, k),
           row'[r][k].attempts = row[r][k].attempts,
           w \in Retrying(r, k), Holders(r, k)' = Holders(r, k) \ {w}, Retrying(r, k)' = Retrying(r, k) \ {w},
           Spare' >= Spare
    PROVE  Budget(r, k)'
<1>1. /\ row[r][k].attempts \in Nat /\ Spare \in Int /\ MaxAttempts \in Nat
      /\ Cardinality(Holders(r, k)) \in Nat /\ Cardinality(Retrying(r, k)) \in Nat
      /\ IsFiniteSet(Holders(r, k)) /\ IsFiniteSet(Retrying(r, k)) /\ Retrying(r, k) \in SUBSET Holders(r, k)
  BY BudgetFacts
<1>2. Spare' \in Int
  BY SpareNext
<1>3. PICK a \in Nat, h \in Nat, t \in Nat, s \in Int, s2 \in Int :
          /\ a = row[r][k].attempts /\ h = Cardinality(Holders(r, k)) /\ t = Cardinality(Retrying(r, k))
          /\ s = Spare /\ s2 = Spare'
  BY <1>1, <1>2
<1>4. Cardinality(Holders(r, k)') = h - 1 /\ Cardinality(Retrying(r, k)') = t - 1
  BY <1>1, <1>3, FS_RemoveElement
<1>5. a + t <= MaxAttempts + s /\ h <= s + 1 /\ s2 >= s
  BY <1>3 DEF Budget
<1>6. a + (t - 1) + 1 <= MaxAttempts + s2 /\ a + (t - 1) <= MaxAttempts + s2 /\ h - 1 <= s2 /\ h - 1 <= s2 + 1
  BY <1>1, <1>5
<1> QED
  BY <1>3, <1>4, <1>6 DEF Budget

LEMMA ExecutingBudget ==
    ASSUME TypeInv, TypeInv', NEW w \in Workers, NEW r \in Runs, Executing(w, r), \A k \in Keys : Budget(r, k)
    PROVE  \A k \in Keys : Budget(r, k)'
<1> USE DEF Here, db, leadership, At, AtStep, Held, Beating
<1> PICK k : k = Key(w, r)
  OBVIOUS
<1> DEFINE pc == exec[w][r].pc
           x == row[r][k]
           y == row'[r][k]
<1>1. /\ exec[w][r] \in ExecType /\ Row(w, r) = x
      /\ pc \in AtStep => k \in Keys /\ x \in RowType
  BY ExecFacts DEF Row
<1>2. /\ \A v \in Workers \ {w} : exec'[v][r] = exec[v][r]
      /\ \A j \in Keys : j # k => row'[r][j] = row[r][j]
      /\ driver' = driver
      /\ faults' = faults \/ (Failing(w, r) /\ faults' = faults + 1)
  BY ExecutingFrame
<1>3. /\ exec \in [Workers -> [Runs -> ExecType]]
      /\ row \in [Runs -> [Keys -> RowType]]
  BY DEF TypeInv, TypeOK
<1>4. /\ Spare' >= Spare
      /\ faults' = faults => Spare' = Spare
      /\ Failing(w, r) => Spare' >= Spare + 1
  <2>1. Draining' = Draining
    BY <1>2 DEF Draining
  <2>2. Spare' = Spare + (faults' - faults) /\ Spare \in Int /\ faults \in Nat
    BY <2>1, SameDrivers, SpareIs
  <2>3. Failing(w, r) => faults' = faults + 1
    BY FailingFacts
  <2> QED
    BY <1>2, <2>2, <2>3
<1>5. ASSUME NEW p, GoTo(w, r, p)
      PROVE  exec'[w][r].pc = p /\ exec'[w][r].st = exec[w][r].st
  BY <1>1, <1>3, <1>5 DEF GoTo, ExecType
<1>6. ASSUME NEW z, SetRow(r, k, z), k \in Keys
      PROVE  y = z
  BY <1>3, <1>6 DEF SetRow
(* Whether this executor holds a row, before and after, is all that changes. *)
<1>7. \A j \in Keys : w \in Holders(r, j) <=> pc \in Held /\ j = k
  BY DEF Holders, Key
<1>8. \A j \in Keys : w \in Retrying(r, j) <=> pc = "retry" /\ j = k
  BY DEF Holders, Retrying, Key
<1>9. exec'[w][r].st = exec[w][r].st =>
        /\ \A j \in Keys : w \in Holders(r, j)' <=> exec'[w][r].pc \in Held /\ j = k
        /\ \A j \in Keys : w \in Retrying(r, j)' <=> exec'[w][r].pc = "retry" /\ j = k
  BY DEF Holders, Retrying, Key
<1>10. exec'[w][r].pc \notin Held => \A j \in Keys : w \notin Holders(r, j)' /\ w \notin Retrying(r, j)'
  BY DEF Holders, Retrying
<1>11. \A j \in Keys, v \in Workers \ {w} : /\ v \in Holders(r, j)' <=> v \in Holders(r, j)
                                            /\ v \in Retrying(r, j)' <=> v \in Retrying(r, j)
  BY <1>2 DEF Holders, Retrying
<1>12. \A j \in Keys : /\ Holders(r, j) \subseteq Workers /\ Holders(r, j)' \subseteq Workers
                       /\ Retrying(r, j) \subseteq Holders(r, j) /\ Retrying(r, j)' \subseteq Holders(r, j)'
  BY DEF Holders, Retrying
<1> DEFINE KeyStays == exec'[w][r].pc \notin Held \/ exec'[w][r].st = exec[w][r].st
(* Any other row. *)
<1>13. ASSUME KeyStays, NEW j \in Keys, j # k
       PROVE  Budget(r, j)'
  <2>1. w \notin Holders(r, j) /\ w \notin Holders(r, j)' /\ w \notin Retrying(r, j) /\ w \notin Retrying(r, j)'
    BY <1>7, <1>8, <1>9, <1>10, <1>13
  <2>2. Holders(r, j)' = Holders(r, j) /\ Retrying(r, j)' = Retrying(r, j)
    BY <1>11, <1>12, <2>1
  <2>3. row'[r][j] = row[r][j]
    BY <1>2, <1>13
  <2> QED
    BY <1>4, <2>2, <2>3, BudgetSame
(* A row not held, before or after. *)
<1>14. ASSUME pc \notin Held, exec'[w][r].pc \notin Held,
              k \in Keys => /\ y.attempts = x.attempts
                            /\ \/ y.st = x.st /\ y.beat = x.beat
                               \/ x.st \in {"none", "pending"}
       PROVE  \A j \in Keys : Budget(r, j)'
  <2> SUFFICES ASSUME k \in Keys PROVE Budget(r, k)'
    BY <1>13, <1>14
  <2>1. Holders(r, k)' = Holders(r, k) /\ Retrying(r, k)' = Retrying(r, k)
    BY <1>7, <1>8, <1>10, <1>11, <1>12, <1>14
  <2>2. Free(r, k)' => Free(r, k)
    BY <1>14, <2>1 DEF Free
  <2> QED
    BY <1>4, <1>14, <2>1, <2>2, BudgetStays
(* A row still held, and not to be tried again. *)
<1>15. ASSUME row' = row, pc \in Held, exec'[w][r].pc \in Held, exec'[w][r].pc # "retry",
              exec'[w][r].st = exec[w][r].st
       PROVE  \A j \in Keys : Budget(r, j)'
  <2>1. k \in Keys
    BY <1>1, <1>15
  <2>2. Holders(r, k)' = Holders(r, k) /\ Retrying(r, k)' \subseteq Retrying(r, k)
    BY <1>7, <1>9, <1>11, <1>12, <1>15, <2>1
  <2>3. Budget(r, k)'
    BY <1>4, <1>15, <2>1, <2>2, BudgetSame
  <2> QED
    BY <1>13, <1>15, <2>3
(* A row given up, or over. *)
<1>16. ASSUME pc \in Held, exec'[w][r].pc \notin Held, y.attempts = x.attempts,
              y.st \in {"completed", "failed"} \/ Spare' >= Spare + 1
       PROVE  \A j \in Keys : Budget(r, j)'
  <2>1. k \in Keys
    BY <1>1, <1>16
  <2>2. Holders(r, k)' \subseteq Holders(r, k) /\ Retrying(r, k)' \subseteq Retrying(r, k)
    BY <1>10, <1>11, <1>12, <1>16, <2>1
  <2>3. Free(r, k)' => Spare' >= Spare + 1
    BY <1>16 DEF Free
  <2>4. Budget(r, k)'
    BY <1>4, <1>16, <2>1, <2>2, <2>3, BudgetStays
  <2> QED
    BY <1>13, <1>16, <2>4
<1>17. CASE Upsert(w, r)
  <2>1. k \in Keys /\ y = Upserted(x) /\ x \in RowType
    BY <1>1, <1>6, <1>17 DEF Upsert
  <2>2. y.attempts = x.attempts /\ (y = x \/ x.st = "none")
    BY <2>1 DEF Upserted, RowType
  <2>3. exec'[w][r].pc \notin Held
    <3>1. CASE x.st = "completed"
      BY <1>1, <1>3, <1>17, <3>1 DEF Upsert, Passed
    <3>2. CASE x.st # "completed"
      BY <1>1, <1>5, <1>17, <3>2 DEF Upsert
    <3> QED
      BY <3>1, <3>2
  <2> QED
    BY <1>14, <1>17, <2>2, <2>3 DEF Upsert
<1>18. CASE Claim(w, r)
  <2>1. k \in Keys /\ y = Claimed(x) /\ x \in RowType /\ x.st = "pending" /\ pc = "claim"
    BY <1>1, <1>6, <1>18 DEF Claim, Claimable
  <2>2. y.attempts = x.attempts + 1 /\ y.st = "running" /\ y.beat
    BY <2>1 DEF Claimed, RowType
  <2>3. PICK p \in {"body", "skip"} : GoTo(w, r, p)
    BY <1>18 DEF Claim
  <2>4. exec'[w][r].pc = p /\ exec'[w][r].st = exec[w][r].st
    BY <1>5, <2>3
  <2>5. w \notin Holders(r, k) /\ w \in Holders(r, k)' /\ w \notin Retrying(r, k) /\ w \notin Retrying(r, k)'
    BY <1>7, <1>8, <1>9, <2>1, <2>4
  <2>6. Holders(r, k)' = Holders(r, k) \cup {w} /\ Retrying(r, k)' = Retrying(r, k)
    BY <1>11, <1>12, <2>1, <2>5
  <2>7. Budget(r, k)'
    BY <1>4, <2>1, <2>2, <2>5, <2>6, BudgetClaimed
  <2> QED
    BY <1>13, <2>4, <2>7
<1>19. ASSUME NEW p, GoTo(w, r, p), p \notin Held, pc \notin Held, row' = row
       PROVE  \A j \in Keys : Budget(r, j)'
  BY <1>5, <1>14, <1>19
<1>20. CASE ClaimLost(w, r) \/ Finish(w, r) \/ Breaks(w, r)
  BY <1>19, <1>20 DEF ClaimLost, Finish, WriteStatus, Breaks, Outcome
<1>21. CASE Save(w, r)
  <2>1. PICK p \in {"end", "upsert"} : GoTo(w, r, p)
    BY <1>21 DEF Save
  <2> QED
    BY <1>19, <1>21, <2>1 DEF Save
<1>22. CASE TaskEnds(w, r)
  <2>1. exec'[w][r] = Idle
    BY <1>3, <1>22 DEF TaskEnds
  <2> QED
    BY <1>14, <1>22, <2>1 DEF TaskEnds, Idle
<1>23. CASE BodyRaises(w, r)
  <2>1. PICK p \in {"abort", "final", "retry"} : GoTo(w, r, p) /\ (p = "retry" => ~(x.attempts >= MaxAttempts))
    BY <1>1, <1>23 DEF BodyRaises
  <2>2. x \in RowType /\ k \in Keys /\ pc = "body" /\ row' = row /\ faults' = faults
    BY <1>1, <1>23 DEF BodyRaises
  <2>3. exec'[w][r].pc = p /\ exec'[w][r].st = exec[w][r].st
    BY <1>5, <2>1
  <2>4. CASE p # "retry"
    BY <1>15, <2>2, <2>3, <2>4
  <2>5. CASE p = "retry"
    <3>1. x.attempts \in Nat
      BY <2>2 DEF RowType
    <3>2. x.attempts < MaxAttempts
      BY <2>1, <2>5, <3>1, AttemptsAssumption
    <3>3. w \in Holders(r, k) /\ w \in Holders(r, k)' /\ w \notin Retrying(r, k) /\ w \in Retrying(r, k)'
      BY <1>7, <1>8, <1>9, <2>2, <2>3, <2>5
    <3>4. Holders(r, k)' = Holders(r, k) /\ Retrying(r, k)' = Retrying(r, k) \cup {w}
      BY <1>11, <1>12, <2>2, <3>3
    <3>5. Budget(r, k)'
      BY <1>4, <2>2, <3>2, <3>3, <3>4, BudgetRetried
    <3> QED
      BY <1>13, <2>3, <3>5
  <2> QED
    BY <2>4, <2>5
<1>24. CASE (\E o \in Outputs : BodyReturns(w, r, o)) \/ ConsumeSignal(w, r)
  <2>1. pc = "body" /\ row' = row
    BY <1>24 DEF BodyReturns, ConsumeSignal
  <2>2. exec'[w][r].pc = "done" /\ exec'[w][r].st = exec[w][r].st
    BY <1>1, <1>3, <1>24 DEF BodyReturns, ConsumeSignal, ExecType
  <2> QED
    BY <1>15, <2>1, <2>2
<1>25. CASE Complete(w, r)
  <2>1. k \in Keys /\ x \in RowType /\ y = Completed(x, exec[w][r].out)
    BY <1>1, <1>6, <1>25 DEF Complete
  <2>2. y.st = "completed" /\ y.attempts = x.attempts
    BY <2>1 DEF Completed, RowType
  <2>3. exec'[w][r].pc \notin Held
    BY <1>1, <1>3, <1>25 DEF Complete, Passed
  <2> QED
    BY <1>16, <1>25, <2>2, <2>3 DEF Complete
<1>26. CASE RecordFailure(w, r)
  <2>1. PICK p \in {<<"retry", "requeue">>, <<"final", "fail">>, <<"abort", "cancel">>} :
            /\ At(w, r, p[1])
            /\ SetRow(r, Key(w, r), Failed(Row(w, r), p[1] # "retry"))
            /\ GoTo(w, r, p[2])
            /\ UNCHANGED <<run, output, Here>>
    BY <1>26 DEF RecordFailure
  <2>2. k \in Keys /\ x \in RowType /\ y = Failed(x, p[1] # "retry") /\ pc = p[1]
    BY <1>1, <1>6, <2>1
  <2>3. y.attempts = x.attempts /\ (p[1] # "retry" => y.st = "failed")
    BY <2>2 DEF Failed, RowType
  <2>4. exec'[w][r].pc \in {"requeue", "fail", "cancel"}
    BY <1>5, <2>1
  <2>5. CASE p[1] # "retry"
    BY <1>16, <2>1, <2>2, <2>3, <2>4, <2>5
  <2>6. CASE p[1] = "retry"
    <3>1. w \in Holders(r, k) /\ w \in Retrying(r, k) /\ w \notin Holders(r, k)' /\ w \notin Retrying(r, k)'
      BY <1>7, <1>8, <1>10, <2>2, <2>4, <2>6
    <3>2. Holders(r, k)' = Holders(r, k) \ {w} /\ Retrying(r, k)' = Retrying(r, k) \ {w}
      BY <1>11, <1>12, <2>2, <3>1
    <3>3. Budget(r, k)'
      BY <1>4, <2>2, <2>3, <3>1, <3>2, BudgetReturned
    <3> QED
      BY <1>13, <2>4, <3>3
  <2> QED
    BY <2>5, <2>6
<1>27. CASE Heartbeat(w, r)
  <2>1. exec' = exec /\ k \in Keys /\ x \in RowType /\ y = [x EXCEPT !.beat = TRUE] /\ pc \in Held
    BY <1>1, <1>6, <1>27 DEF Heartbeat
  <2>2. y.st = x.st /\ y.attempts = x.attempts /\ y.beat
    BY <2>1 DEF RowType
  <2>3. Holders(r, k)' = Holders(r, k) /\ Retrying(r, k)' = Retrying(r, k) /\ w \in Holders(r, k)
    BY <1>7, <2>1 DEF Holders, Retrying
  <2>4. Free(r, k)' => Free(r, k)
    BY <2>2, <2>3 DEF Free
  <2>5. Budget(r, k)'
    BY <1>4, <2>1, <2>2, <2>3, <2>4, BudgetStays
  <2> QED
    BY <1>13, <2>1, <2>5
<1>28. CASE Failing(w, r)
  <2>1. exec'[w][r].pc \notin Held /\ Spare' >= Spare + 1
    BY <1>4, <1>28, FailingFacts
  <2>2. CASE row' = row
    BY <1>14, <1>16, <2>1, <2>2
  <2>3. ASSUME NEW z, pc \in AtStep, SetRow(r, k, z), Rewritten(w, r, z)
        PROVE  \A j \in Keys : Budget(r, j)'
    <3>1. k \in Keys /\ y = z /\ x \in RowType /\ x.attempts \in Nat
      BY <1>1, <1>6, <2>3 DEF RowType
    <3>2. CASE pc = "upsert"
      <4>1. y.attempts = x.attempts /\ (y = x \/ x.st = "none")
        BY <1>1, <2>3, <3>1, <3>2 DEF Rewritten, Upserted, RowType
      <4> QED
        BY <1>14, <2>1, <3>2, <4>1
    <3>3. CASE pc = "claim"
      <4>1. x.st = "pending" /\ y.attempts = x.attempts + 1
        BY <1>1, <2>3, <3>1, <3>3 DEF Rewritten, Claimable, Claimed, RowType
      <4>2. Holders(r, k)' = Holders(r, k) /\ Retrying(r, k)' = Retrying(r, k)
        BY <1>7, <1>8, <1>10, <1>11, <1>12, <2>1, <3>1, <3>3
      <4>3. Budget(r, k)'
        BY <2>1, <3>1, <4>1, <4>2, BudgetClaimed
      <4> QED
        BY <1>13, <2>1, <4>3
    <3>4. CASE pc \in Held
      <4>1. y.attempts = x.attempts
        <5>1. (\E o : y = Completed(x, o)) \/ (\E final : y = Failed(x, final))
          BY <1>1, <2>3, <3>1, <3>4 DEF Rewritten
        <5> QED
          BY <3>1, <5>1 DEF Completed, Failed, RowType
      <4> QED
        BY <1>16, <2>1, <3>4, <4>1
    <3> QED
      BY <2>3, <3>2, <3>3, <3>4
  <2> QED
    BY <1>28, <2>2, <2>3, FailingFacts
<1> QED
  BY <1>17, <1>18, <1>20, <1>21, <1>22, <1>23, <1>24, <1>25, <1>26, <1>27, <1>28 DEF Executing, Execute

(* A step of anything else: a row becomes free at the cost of a fault, or    *)
(* was free before; only executors that end leave the rows they hold.        *)
LEMMA OtherBudget ==
    ASSUME TypeInv, TypeInv', [Next]_vars, \A w \in Workers, r \in Runs : ~Executing(w, r), BudgetInv
    PROVE  BudgetInv'
<1> USE DEF db, leadership
<1>1. /\ exec \in [Workers -> [Runs -> ExecType]]
      /\ row \in [Runs -> [Keys -> RowType]]
      /\ \A r \in Runs, k \in Keys : Budget(r, k)
      /\ Spare \in Int /\ faults \in Nat
  BY SpareIs DEF TypeInv, TypeOK, BudgetInv
<1> DEFINE NoMore(r, k) == Holders(r, k)' \subseteq Holders(r, k) /\ Retrying(r, k)' \subseteq Retrying(r, k)
           SameExec == \A v \in Workers, r \in Runs :
                           exec'[v][r] = exec[v][r] \/ exec'[v][r] = Idle \/ (exec[v][r] = Idle /\ exec'[v][r] = Dispatched)
(* Nobody starts to hold a row. *)
<1>2. ASSUME SameExec, NEW r \in Runs, NEW k \in Keys
      PROVE  NoMore(r, k)
  <2>1. Idle.pc \notin Held /\ Dispatched.pc \notin Held
    BY DEF Idle, Dispatched, Held, Beating
  <2> QED
    BY <1>2, <2>1 DEF Holders, Retrying, At
<1>3. ASSUME NEW r \in Runs, NEW k \in Keys, exec' = exec \/ \A v \in Workers : exec'[v][r] = exec[v][r] \/ (exec[v][r] = Idle /\ exec'[v][r] = Dispatched)
      PROVE  Holders(r, k)' = Holders(r, k) /\ Retrying(r, k)' = Retrying(r, k)
  <2>1. Idle.pc \notin Held /\ Dispatched.pc \notin Held
    BY DEF Idle, Dispatched, Held, Beating
  <2> QED
    BY <1>3, <2>1 DEF Holders, Retrying, At
<1>4. driver' = driver => Spare' = Spare + (faults' - faults)
  BY SameDrivers DEF Draining
(* Rows that stay, with the holders they had. *)
<1>5. ASSUME row' = row, Spare' >= Spare,
             \A r \in Runs, k \in Keys : Holders(r, k)' = Holders(r, k) /\ Retrying(r, k)' = Retrying(r, k)
      PROVE  BudgetInv'
  BY <1>1, <1>5, BudgetSame DEF BudgetInv
<1>6. ASSUME row' = row, exec' = exec, Spare' >= Spare
      PROVE  BudgetInv'
  BY <1>3, <1>5, <1>6
<1>7. ASSUME NEW w \in Workers, Cut(w), row' = row, Kill(w) \/ Drained(w)
      PROVE  BudgetInv'
  <2>1. SameExec
    BY <1>1, <1>7 DEF Cut
  <2>2. Spare' >= Spare + 1
    BY <1>7, CutSpares
  <2>3. Spare' \in Int /\ Spare' >= Spare
    BY <1>1, <2>2, SpareNext
  <2> QED
    BY <1>1, <1>2, <1>7, <2>1, <2>2, <2>3, BudgetStays DEF BudgetInv
<1>8. ASSUME NEW r \in Runs, Client(r)
      PROVE  BudgetInv'
  <2>1. row' = row /\ exec' = exec /\ driver' = driver /\ (faults' = faults \/ faults' = faults + 1)
    BY <1>8 DEF Client, Submit, Cancel, Send, Faulty
  <2> QED
    BY <1>1, <1>4, <1>6, <2>1
<1>9. ASSUME NEW w \in Workers, Drive(w)
      PROVE  BudgetInv'
  <2>1. CASE Start(w) \/ Compete(w)
    <3>1. driver \in [Workers -> {"off", "standby", "leader", "draining"}]
      BY DEF TypeInv, TypeOK
    <3>2. Draining' = Draining
      BY <2>1, <3>1 DEF Start, Compete, Draining
    <3>3. Spare' = Spare + (faults' - faults)
      BY <3>2, SameDrivers
    <3>4. faults' = faults /\ row' = row /\ exec' = exec
      BY <2>1 DEF Start, Compete
    <3>5. Spare' >= Spare
      BY <1>1, <3>3, <3>4
    <3> QED
      BY <1>6, <3>4, <3>5
  <2>2. CASE Reclaim(w)
    <3>1. Spare' >= Spare
      BY <1>1, <1>4, <2>2 DEF Reclaim
    <3>2. ASSUME NEW r \in Runs, NEW k \in Keys
          PROVE  Budget(r, k)'
      <4>1. row'[r][k] = IF Stale(row[r][k]) THEN Reclaimed(row[r][k]) ELSE row[r][k]
        BY <2>2 DEF Reclaim
      <4>2. row[r][k] \in RowType
        BY <1>1
      <4>3. Holders(r, k)' = Holders(r, k) /\ Retrying(r, k)' = Retrying(r, k)
        BY <1>3, <2>2 DEF Reclaim
      <4>4. CASE Stale(row[r][k])
        <5>1. row'[r][k].attempts = row[r][k].attempts /\ Free(r, k)
          BY <4>1, <4>2, <4>4 DEF Stale, Reclaimed, RowType, Free
        <5> QED
          BY <1>1, <3>1, <4>3, <5>1, BudgetStays
      <4>5. CASE ~Stale(row[r][k])
        BY <1>1, <3>1, <4>1, <4>3, <4>5, BudgetSame
      <4> QED
        BY <4>4, <4>5
    <3> QED
      BY <3>2 DEF BudgetInv
  <2>3. CASE Revive(w)
    BY <1>1, <1>4, <1>6, <2>3 DEF Revive
  <2>4. CASE ClaimRuns(w)
    <3>1. \A v \in Workers, r \in Runs : exec'[v][r] = exec[v][r] \/ (exec[v][r] = Idle /\ exec'[v][r] = Dispatched)
      BY <1>1, <2>4 DEF ClaimRuns, Dispatched
    <3>2. Spare' >= Spare /\ row' = row
      BY <1>1, <1>4, <2>4 DEF ClaimRuns
    <3> QED
      BY <1>3, <1>5, <3>1, <3>2
  <2>5. CASE Drained(w)
    BY <1>7, <2>5 DEF Drained
  <2> QED
    BY <1>9, <2>1, <2>2, <2>3, <2>4, <2>5 DEF Drive, Tick
<1>10. ASSUME NEW w \in Workers, Fault(w)
       PROVE  BudgetInv'
  <2>1. CASE DropLock(w) \/ TickFails(w)
    <3>1. row' = row /\ exec' = exec /\ driver' = driver /\ faults' = faults + 1
      BY <2>1 DEF DropLock, TickFails, Faulty
    <3> QED
      BY <1>1, <1>4, <1>6, <3>1
  <2>2. CASE Stop(w)
    <3>1. row' = row /\ exec' = exec /\ Spare' = Spare
      BY <2>2, StopSpares DEF Stop
    <3> QED
      BY <1>1, <1>6, <3>1
  <2>3. CASE Kill(w)
    BY <1>7, <2>3 DEF Kill
  <2> QED
    BY <1>10, <2>1, <2>2, <2>3 DEF Fault
<1>11. CASE Time
  <2>1. PICK q \in Runs, j \in Keys : Silence(q, j) \/ Lapse(q, j) \/ FallDue(q, j)
    BY <1>11 DEF Time
  <2>2. exec' = exec /\ driver' = driver /\ (faults' = faults \/ faults' = faults + 1)
    BY <2>1 DEF Silence, Lapse, FallDue, Here, Faulty
  <2>3. Spare' >= Spare /\ (Lapse(q, j) => Spare' >= Spare + 1)
    BY <1>1, <1>4, <2>2 DEF Lapse, Faulty
  <2>4. ASSUME NEW r \in Runs, NEW k \in Keys
        PROVE  Budget(r, k)'
    <3>1. Holders(r, k)' = Holders(r, k) /\ Retrying(r, k)' = Retrying(r, k)
      BY <1>3, <2>2
    <3>2. row'[r][k].st = row[r][k].st /\ row'[r][k].attempts = row[r][k].attempts
      BY <2>1, ClockRows
    <3>3. row'[r][k].beat = row[r][k].beat \/ Lapse(q, j) \/ (Silence(q, j) /\ r = q /\ k = j)
      <4>1. CASE r # q \/ k # j
        BY <1>1, <2>1, <4>1 DEF Silence, Lapse, FallDue, Silent, SetRow
      <4>2. CASE r = q /\ k = j /\ FallDue(q, j)
        <5>1. row'[r][k] = [row[r][k] EXCEPT !.due = TRUE] /\ row[r][k] \in RowType
          BY <1>1, <4>2 DEF FallDue, SetRow
        <5> QED
          BY <5>1 DEF RowType
      <4> QED
        BY <2>1, <4>1, <4>2
    <3>4. Free(r, k)' => Free(r, k) \/ Spare' >= Spare + 1
      <4>1. CASE row'[r][k].beat = row[r][k].beat
        BY <3>1, <3>2, <4>1 DEF Free
      <4>2. CASE Silence(q, j) /\ r = q /\ k = j
        BY <4>2 DEF Silence, Fresh, Free
      <4> QED
        BY <2>3, <3>3, <4>1, <4>2
    <3> QED
      BY <1>1, <2>3, <3>1, <3>2, <3>4, BudgetStays
  <2> QED
    BY <2>4 DEF BudgetInv
<1>12. CASE UNCHANGED vars
  BY <1>1, <1>4, <1>6, <1>12 DEF vars
<1> QED
  BY <1>8, <1>9, <1>10, <1>11, <1>12 DEF Next, Executing

LEMMA BudgetStep == TypeInv /\ TypeInv' /\ BudgetInv /\ [Next]_vars => BudgetInv'
<1> SUFFICES ASSUME TypeInv, TypeInv', BudgetInv, [Next]_vars PROVE BudgetInv'
  OBVIOUS
<1>1. ASSUME NEW w \in Workers, NEW r \in Runs, Executing(w, r)
      PROVE  BudgetInv'
  <2>1. /\ driver' = driver /\ (faults' = faults \/ faults' = faults + 1)
        /\ \A v \in Workers, q \in Runs : q # r => exec'[v][q] = exec[v][q]
        /\ \A q \in Runs \ {r} : row'[q] = row[q]
    BY <1>1, ExecutingFrame
  <2>2. Spare' >= Spare
    <3>1. Spare' = Spare + (faults' - faults) /\ Spare \in Int /\ faults \in Nat
      BY <2>1, SameDrivers, SpareIs DEF Draining
    <3> QED
      BY <2>1, <3>1
  <2>3. ASSUME NEW q \in Runs, q # r, NEW k \in Keys
        PROVE  Budget(q, k)'
    <3>1. Holders(q, k)' = Holders(q, k) /\ Retrying(q, k)' = Retrying(q, k)
      BY <2>1, <2>3 DEF Holders, Retrying
    <3>2. row'[q] = row[q] /\ Budget(q, k)
      BY <2>1, <2>3 DEF BudgetInv
    <3> QED
      BY <2>2, <3>1, <3>2, BudgetSame
  <2>4. \A k \in Keys : Budget(r, k)'
    BY <1>1, ExecutingBudget DEF BudgetInv
  <2> QED
    BY <2>3, <2>4 DEF BudgetInv
<1>2. CASE \A w \in Workers, r \in Runs : ~Executing(w, r)
  BY <1>2, OtherBudget
<1> QED
  BY <1>1, <1>2

(* A step is claimed as often as its node allows, and once more for each    *)
(* fault, for any number of attempts, workers and faults: also when slow    *)
(* executors lose steps they still hold.                                    *)
THEOREM BoundedAttempts == Spec => []AttemptsWithinLimit
<1>1. Init => BudgetInv
  <2> SUFFICES ASSUME Init, NEW r \in Runs, NEW k \in Keys PROVE Budget(r, k)
    BY DEF BudgetInv
  <2>1. row[r][k] = NoRow /\ faults = 0
    BY DEF Init
  <2>2. Holders(r, k) = {} /\ Retrying(r, k) = {} /\ Draining = {}
    BY DEF Init, Holders, Retrying, Draining, Idle, Held, Beating
  <2>3. Cardinality(Holders(r, k)) = 0 /\ Cardinality(Retrying(r, k)) = 0 /\ Cardinality(Draining) = 0
    BY <2>2, FS_EmptySet
  <2> QED
    BY <2>1, <2>3, AttemptsAssumption DEF Budget, Spare, NoRow
<1>2. TypeInv /\ BudgetInv /\ [Next]_vars /\ TypeInv' => BudgetInv'
  BY BudgetStep
<1>3. TypeInv /\ BudgetInv => AttemptsWithinLimit
  <2> SUFFICES ASSUME TypeInv, NEW r \in Runs, NEW k \in Keys, Budget(r, k)
      PROVE  row[r][k].attempts <= MaxAttempts + faults
    BY DEF BudgetInv, AttemptsWithinLimit
  <2>1. row[r][k].attempts \in Nat /\ Cardinality(Retrying(r, k)) \in Nat /\ MaxAttempts \in Nat
    BY BudgetFacts
  <2>2. Spare = faults - Cardinality(Draining) /\ faults \in Nat /\ Cardinality(Draining) \in Nat
    BY SpareIs DEF Spare
  <2>3. row[r][k].attempts + Cardinality(Retrying(r, k)) <= MaxAttempts + Spare
    BY DEF Budget
  <2> QED
    BY <2>1, <2>2, <2>3
<1> QED
  BY <1>1, <1>2, <1>3, TypeAlways, PTL DEF Spec

-----------------------------------------------------------------------------
(* A run that one worker at a time executed: its final status is written by *)
(* the last step of the only executor there is, or by the one before, when  *)
(* it did not learn that it completed the run and is to fail it.            *)

Alone(r) == \A v, w \in Workers : exec[v][r] # Idle /\ exec[w][r] # Idle => v = w
Settled(r) ==
    run[r] \in Terminal => \A w \in Workers :
        exec[w][r] = Idle \/ exec[w][r].pc = "leave" \/ (run[r] = "completed" /\ exec[w][r].pc = "fail")
Reported(r) == run[r] = "completed" => Len(output[r]) = Len(Plan) /\ Replayed(row[r], output[r])
FinalInv ==
    \A r \in Runs \ contested :
        /\ Alone(r)
        /\ r \notin cancelled => Settled(r)
        /\ r \notin cancelled \cup lapsed => Reported(r)

LEMMA ExecutingFinal ==
    ASSUME TypeInv, NEW w \in Workers, NEW r \in Runs, Executing(w, r), Alone(r)
    PROVE  /\ Alone(r)'
           /\ Settled(r) => Settled(r)'
           /\ Settled(r) /\ run[r] \in Terminal =>
                  run'[r] = run[r] \/ (run[r] = "completed" /\ At(w, r, "fail") /\ WriteStatus(w, r))
           /\ Settled(r) /\ Sound(r) /\ Reported(r) => Reported(r)'
<1> USE DEF Here, db, leadership, At
<1>1. /\ \A v \in Workers : v # w => exec'[v][r] = exec[v][r]
      /\ exec[w][r] \in ExecType
      /\ exec \in [Workers -> [Runs -> ExecType]] /\ run \in [Runs -> RunStatus]
      /\ output \in [Runs -> States]
  BY ExecutingFrame, ExecFacts DEF TypeInv, TypeOK
<1>2. exec[w][r].pc # "idle"
  <2>1. Failing(w, r) => exec[w][r].pc # "idle"
    BY FailingFacts
  <2> QED
    BY <2>1 DEF Executing, Execute, Upsert, Claim, ClaimLost, BodyReturns, BodyRaises, ConsumeSignal, Complete, Save,
           RecordFailure, Finish, WriteStatus, TaskEnds, Breaks, Heartbeat, Held, Beating, Outcome
<1>3. exec[w][r] # Idle
  BY <1>2 DEF Idle
<1>4. Alone(r)'
  BY <1>1, <1>3 DEF Alone
<1>5. \A v \in Workers : v # w => exec'[v][r] = Idle
  BY <1>1, <1>3 DEF Alone
<1>6. CASE exec[w][r].pc = "leave"
  <2>1. TaskEnds(w, r)
    <3>1. ~Failing(w, r)
      BY <1>6, FailingFacts
    <3> QED
      BY <1>6, <3>1 DEF Executing, Execute, Upsert, Claim, ClaimLost, BodyReturns, BodyRaises, ConsumeSignal, Complete,
             Save, RecordFailure, Finish, WriteStatus, Breaks, Heartbeat, Held, Beating, Outcome
  <2>2. exec'[w][r] = Idle
    BY <1>1, <2>1 DEF TaskEnds
  <2> QED
    BY <1>4, <1>5, <2>1, <2>2 DEF TaskEnds, Settled, Reported
<1>7. CASE exec[w][r].pc # "leave" /\ WriteStatus(w, r) /\ row' = row
  <2>1. exec[w][r].pc \in {"end", "fail", "cancel", "requeue"} /\ run'[r] = Outcome[exec[w][r].pc]
    BY <1>1, <1>7 DEF WriteStatus, SetRun, Outcome
  <2>2. run'[r] = "completed" => exec[w][r].pc = "end"
    BY <2>1 DEF Outcome
  <2>3. exec'[w][r].pc \in {"leave", "fail"} /\ (exec'[w][r].pc = "fail" => exec[w][r].pc = "end")
    <3>1. CASE Finish(w, r)
      BY <1>1, <3>1 DEF Finish, GoTo, ExecType
    <3>2. CASE RunFails(w, r)
      <4>1. PICK p \in {"fail", "leave"} : GoTo(w, r, p) /\ (p = "fail" => exec[w][r].pc = "end")
        BY <2>1, <3>2 DEF RunFails
      <4> QED
        BY <1>1, <4>1 DEF GoTo, ExecType
    <3>3. CASE Breaks(w, r)
      BY <1>1, <2>1, <3>3 DEF Breaks, GoTo, ExecType
    <3>4. Finish(w, r) \/ RunFails(w, r) \/ Breaks(w, r)
      BY <2>1 DEF Executing, Execute, Upsert, Claim, ClaimLost, BodyReturns, BodyRaises, ConsumeSignal, Complete, Save,
             RecordFailure, TaskEnds, Heartbeat, Held, Beating, Failing, RowFails, BodyFails, LoadFails
    <3> QED
      BY <3>1, <3>2, <3>3, <3>4
  <2>4. Settled(r)'
    <3>1. exec[w][r].pc = "end" => run'[r] = "completed"
      BY <2>1 DEF Outcome
    <3> QED
      BY <1>5, <2>3, <3>1 DEF Settled
  <2>5. Settled(r) /\ run[r] \in Terminal => run[r] = "completed" /\ At(w, r, "fail")
    BY <1>3, <1>7 DEF Settled
  <2>6. run'[r] = "completed" => output'[r] = exec[w][r].st /\ row' = row
    BY <1>1, <1>7, <2>2 DEF WriteStatus
  <2>7. Sound(r) => Reported(r)'
    BY <2>2, <2>6 DEF Sound, Reported
  <2> QED
    BY <1>4, <1>7, <2>4, <2>5, <2>7
<1>8. CASE exec[w][r].pc # "leave" /\ ~(WriteStatus(w, r) /\ row' = row)
  <2>1. run' = run
    <3>1. Failing(w, r) => run' = run
      BY <1>8, FailingFacts
    <3> QED
      BY <1>8, <3>1 DEF Executing, Execute, Upsert, Claim, ClaimLost, BodyReturns, BodyRaises, ConsumeSignal, Complete,
             Save, RecordFailure, Finish, TaskEnds, Breaks, Heartbeat
  <2>2. CASE run[r] \notin Terminal
    BY <1>4, <2>1, <2>2 DEF Settled, Reported, Terminal
  <2>3. CASE run[r] \in Terminal /\ exec[w][r].pc = "fail"
    <3>1. Failing(w, r)
      BY <1>8, <2>3 DEF Executing, Execute, Upsert, Claim, ClaimLost, BodyReturns, BodyRaises, ConsumeSignal, Complete,
             Save, RecordFailure, Finish, TaskEnds, Breaks, Heartbeat, Held, Beating
    <3>2. exec'[w][r].pc = "leave" /\ row' = row /\ output' = output
      BY <1>8, <2>3, <3>1, FailingFacts
    <3> QED
      BY <1>4, <1>5, <2>1, <3>2 DEF Settled, Reported
  <2>4. Settled(r) /\ run[r] \in Terminal => exec[w][r].pc = "fail"
    BY <1>3, <1>8 DEF Settled
  <2>5. CASE ~Settled(r)
    BY <1>4, <2>5
  <2> QED
    BY <2>2, <2>3, <2>4, <2>5
<1> QED
  BY <1>6, <1>7, <1>8

(* Nothing else writes a final status or an output, or starts an executor   *)
(* of a run that has one and is not contested by it.                        *)
LEMMA OtherFinal ==
    ASSUME TypeInv, [Next]_vars, \A w \in Workers, r \in Runs : ~Executing(w, r)
    PROVE  /\ contested \subseteq contested' /\ cancelled \subseteq cancelled' /\ output' = output
           /\ \A r \in Runs \ cancelled' : run[r] \in Terminal \/ run'[r] \in Terminal => run'[r] = run[r]
           /\ \A v \in Workers, r \in Runs :
                  \/ exec'[v][r] \in {exec[v][r], Idle}
                  \/ run[r] = "pending" /\ exec'[v][r] = Dispatched
           /\ \A r \in Runs \ contested' : Alone(r) => Alone(r)'
<1> USE DEF db, leadership
<1> DEFINE Goal == /\ contested \subseteq contested' /\ cancelled \subseteq cancelled' /\ output' = output
                   /\ \A r \in Runs \ cancelled' : run[r] \in Terminal \/ run'[r] \in Terminal => run'[r] = run[r]
                   /\ \A v \in Workers, r \in Runs :
                          \/ exec'[v][r] \in {exec[v][r], Idle}
                          \/ run[r] = "pending" /\ exec'[v][r] = Dispatched
                   /\ \A r \in Runs \ contested' : Alone(r) => Alone(r)'
<1>1. /\ exec \in [Workers -> [Runs -> ExecType]] /\ run \in [Runs -> RunStatus]
      /\ contested \subseteq Runs /\ cancelled \subseteq Runs
  BY DEF TypeInv, TypeOK
<1>2. ASSUME exec' = exec, contested' = contested, cancelled \subseteq cancelled', output' = output,
             \A r \in Runs \ cancelled' : run[r] \in Terminal \/ run'[r] \in Terminal => run'[r] = run[r]
      PROVE  Goal
  BY <1>2 DEF Alone
<1>3. ASSUME NEW r \in Runs, Client(r)
      PROVE  Goal
  BY <1>1, <1>2, <1>3 DEF Client, Submit, Cancel, Send, SetRun, Terminal
<1>4. ASSUME NEW w \in Workers, Cut(w), contested' = contested, cancelled' = cancelled, run' = run, output' = output
      PROVE  Goal
  <2>1. \A v \in Workers, r \in Runs : exec'[v][r] \in {exec[v][r], Idle}
    BY <1>1, <1>4 DEF Cut
  <2> QED
    BY <1>4, <2>1 DEF Alone
<1>5. ASSUME NEW w \in Workers, Drive(w)
      PROVE  Goal
  <2>1. CASE Start(w) \/ Compete(w) \/ Reclaim(w)
    BY <1>2, <2>1 DEF Start, Compete, Reclaim
  <2>2. CASE Revive(w)
    <3>1. \A r \in Runs : run'[r] = run[r] \/ (run[r] = "running" /\ run'[r] = "pending")
      BY <2>2 DEF Revive
    <3> QED
      BY <1>2, <2>2, <3>1 DEF Revive, Terminal
  <2>3. CASE ClaimRuns(w)
    <3>1. \A r \in Runs : run'[r] = run[r] \/ (run[r] = "pending" /\ run'[r] = "running")
      BY <2>3 DEF ClaimRuns
    <3>2. \A v \in Workers, r \in Runs :
             \/ exec'[v][r] = exec[v][r]
             \/ (v = w /\ run[r] = "pending" /\ exec[v][r] = Idle /\ exec'[v][r] = Dispatched)
      BY <1>1, <2>3 DEF ClaimRuns, Dispatched
    <3>3. \A r \in Runs \ contested', v \in Workers : v # w => ~(exec'[w][r] # Idle /\ exec[v][r] # Idle)
      BY <2>3 DEF ClaimRuns
    <3>4. \A r \in Runs \ contested' : Alone(r) => Alone(r)'
      BY <3>2, <3>3 DEF Alone
    <3>5. contested \subseteq contested' /\ cancelled' = cancelled /\ output' = output
      BY <2>3 DEF ClaimRuns
    <3>6. \A r \in Runs \ cancelled' : run[r] \in Terminal \/ run'[r] \in Terminal => run'[r] = run[r]
      BY <3>1 DEF Terminal
    <3> QED
      BY <3>2, <3>4, <3>5, <3>6
  <2>4. CASE Drained(w)
    BY <1>4, <2>4 DEF Drained
  <2> QED
    BY <1>5, <2>1, <2>2, <2>3, <2>4 DEF Drive, Tick
<1>6. ASSUME NEW w \in Workers, Fault(w)
      PROVE  Goal
  <2>1. CASE DropLock(w) \/ Stop(w)
    BY <1>2, <2>1 DEF DropLock, Stop
  <2>2. CASE Kill(w)
    BY <1>4, <2>2 DEF Kill
  <2>3. CASE TickFails(w)
    <3>1. \A r \in Runs : run'[r] = run[r] \/ (run[r] = "pending" /\ run'[r] = "running")
      BY <2>3 DEF TickFails
    <3> QED
      BY <1>2, <2>3, <3>1 DEF TickFails, Terminal
  <2> QED
    BY <1>6, <2>1, <2>2, <2>3 DEF Fault
<1>7. CASE Time
  BY <1>2, <1>7 DEF Time, Silence, Lapse, FallDue, Here
<1>8. CASE UNCHANGED vars
  BY <1>2, <1>8 DEF vars
<1> QED
  BY <1>3, <1>5, <1>6, <1>7, <1>8 DEF Next, Executing

Stands ==
    \A r \in Runs : run[r] \in Terminal /\ r \notin contested' \cup cancelled' =>
        \/ run'[r] = run[r]
        \/ run[r] = "completed" /\ \E w \in Workers : At(w, r, "fail") /\ WriteStatus(w, r)

LEMMA FinalStep == TypeInv /\ TypeInv' /\ SoundInv /\ FinalInv /\ [Next]_vars => FinalInv' /\ Stands
<1> SUFFICES ASSUME TypeInv, TypeInv', SoundInv, FinalInv, [Next]_vars PROVE FinalInv' /\ Stands
  OBVIOUS
<1>1. ASSUME NEW w \in Workers, NEW r \in Runs, Executing(w, r)
      PROVE  FinalInv' /\ Stands
  <2>1. /\ lapsed' = lapsed /\ cancelled' = cancelled /\ contested' = contested
        /\ \A v \in Workers, q \in Runs : q # r => exec'[v][q] = exec[v][q]
        /\ \A q \in Runs \ {r} : run'[q] = run[q] /\ row'[q] = row[q] /\ output'[q] = output[q]
    BY <1>1, ExecutingFrame
  <2>2. ASSUME NEW q \in Runs \ contested, q # r
        PROVE  (Alone(q) => Alone(q)') /\ (Settled(q) => Settled(q)') /\ (Reported(q) => Reported(q)')
    BY <2>1, <2>2 DEF Alone, Settled, Reported
  <2>3. ASSUME r \notin contested
        PROVE  /\ Alone(r)'
               /\ Settled(r) => Settled(r)'
               /\ Settled(r) /\ run[r] \in Terminal =>
                      run'[r] = run[r] \/ (run[r] = "completed" /\ At(w, r, "fail") /\ WriteStatus(w, r))
               /\ Settled(r) /\ Sound(r) /\ Reported(r) => Reported(r)'
    <3>1. Alone(r)
      BY <2>3 DEF FinalInv
    <3> QED
      BY <1>1, <3>1, ExecutingFinal
  <2>4. FinalInv'
    BY <2>1, <2>2, <2>3 DEF FinalInv, SoundInv
  <2>5. Stands
    BY <2>1, <2>3 DEF FinalInv, Stands
  <2> QED
    BY <2>4, <2>5
<1>2. CASE \A w \in Workers, r \in Runs : ~Executing(w, r)
  <2>1. /\ contested \subseteq contested' /\ cancelled \subseteq cancelled' /\ output' = output
        /\ \A r \in Runs \ cancelled' : run[r] \in Terminal \/ run'[r] \in Terminal => run'[r] = run[r]
        /\ \A v \in Workers, r \in Runs :
               \/ exec'[v][r] \in {exec[v][r], Idle}
               \/ run[r] = "pending" /\ exec'[v][r] = Dispatched
        /\ \A r \in Runs \ contested' : Alone(r) => Alone(r)'
    BY <1>2, OtherFinal
  <2>2. lapsed \subseteq lapsed' /\ \A r \in Runs \ lapsed' : Quiet(r)
    BY <1>2, OtherSteps
  <2>3. ASSUME NEW r \in Runs \ contested', r \notin cancelled'
        PROVE  Settled(r)'
    BY <2>1, <2>3 DEF FinalInv, Settled, Terminal
  <2>4. ASSUME NEW r \in Runs \ contested', r \notin cancelled' \cup lapsed'
        PROVE  Reported(r)'
    <3>1. Reported(r) /\ Quiet(r) /\ output' = output
      BY <2>1, <2>2, <2>4 DEF FinalInv
    <3>2. run'[r] = "completed" => run[r] = "completed"
      BY <2>1, <2>4 DEF Terminal
    <3>3. Kept(row[r], row'[r])
      BY <3>1 DEF Quiet, Kept
    <3>4. output[r] \in States
      BY DEF TypeInv, TypeOK
    <3> QED
      BY <3>1, <3>2, <3>3, <3>4, StillReplayed DEF Reported
  <2> QED
    BY <2>1, <2>3, <2>4 DEF FinalInv, Stands
<1> QED
  BY <1>1, <1>2

LEMMA FinalAlways == Spec => [](TypeInv /\ SoundInv /\ FinalInv)
<1>1. Init => FinalInv
  <2> SUFFICES ASSUME Init, NEW r \in Runs PROVE Alone(r) /\ Settled(r) /\ Reported(r)
    BY DEF FinalInv
  <2> QED
    BY DEF Init, Alone, Settled, Reported, Terminal
<1>2. TypeInv /\ SoundInv /\ FinalInv /\ [Next]_vars /\ TypeInv' => FinalInv'
  BY FinalStep
<1> QED
  BY <1>1, <1>2, SoundAlways, PTL DEF Spec

(* The final status of a run stands, whoever dies, leads or resumes, but    *)
(* for a completion whose executor did not learn of it and fails the run.   *)
THEOREM FinalIsFinal == Spec => FinalStands
<1>1. TypeInv /\ SoundInv /\ FinalInv /\ TypeInv' /\ [Next]_vars =>
        [\A r \in Runs : run[r] \in Terminal /\ r \notin contested' \cup cancelled' =>
             \/ run'[r] = run[r]
             \/ run[r] = "completed" /\ \E w \in Workers : At(w, r, "fail") /\ WriteStatus(w, r)]_vars
  BY FinalStep DEF Stands
<1> QED
  BY <1>1, FinalAlways, PTL DEF Spec, FinalStands

(* The output a completed run reports is the one its record replays to.     *)
THEOREM HonestReports == Spec => []ReportsWhatItDid
<1>1. FinalInv => ReportsWhatItDid
  BY DEF FinalInv, Reported, ReportsWhatItDid, Undisturbed
<1> QED
  BY <1>1, FinalAlways, PTL

-----------------------------------------------------------------------------
(* Every completed row of a run is on the one history that its executors    *)
(* are at prefixes of: the record is that history, and it only grows.       *)

IsHistory(rows, h) ==
    /\ Replayed(rows, h)
    /\ \A k \in Keys : rows[k].st = "completed" => \E n \in 0..Len(h) - 1 : k = KeyOf(SubSeq(h, 1, n))
HistoryInv == \A r \in Runs \ lapsed : \E h \in States : IsHistory(row[r], h)

LEMMA Beginning ==
    ASSUME NEW s \in States, NEW n \in 0..Len(s)
    PROVE  SubSeq(s, 1, n) \in States /\ Len(SubSeq(s, 1, n)) = n
<1>1. /\ Len(s) \in 0..Len(Plan) /\ Len(s) \in Nat /\ Len(Plan) \in Nat
      /\ \A i \in 1..Len(s) : s[i] \in Entries
  BY StateSeq
<1>2. \A i \in 1..n : s[i] \in Entries
  BY <1>1
<1>3. SubSeq(s, 1, n) \in Seq(Entries) /\ Len(SubSeq(s, 1, n)) = n
  BY <1>1, <1>2, SubSeqProperties
<1>4. Len(SubSeq(s, 1, n)) <= Len(Plan)
  BY <1>1, <1>3
<1> QED
  BY <1>3, <1>4, SeqState, Zenon

(* Whatever replays is a beginning of the history: a completed row names its *)
(* place, and the place tells which row of the history it is.                *)
LEMMA ReplayBegins ==
    ASSUME NEW rows, NEW h \in States, IsHistory(rows, h), NEW t \in States, Replayed(rows, t)
    PROVE  Agree(t, h) /\ Agree(h, t) /\ Len(t) <= Len(h)
<1>1. Len(t) \in 0..Len(Plan) /\ Len(t) \in Nat /\ Len(h) \in 0..Len(Plan) /\ Len(h) \in Nat /\ Len(Plan) \in Nat
  BY StateSeq
<1>2. ASSUME NEW i \in 1..Len(t)
      PROVE  i <= Len(h) /\ t[i] = h[i]
  <2> DEFINE u == SubSeq(t, 1, i - 1)
  <2>1. u \in States /\ Len(u) = i - 1 /\ Len(u) < Len(Plan)
    BY <1>1, Beginning
  <2>2. KeyOf(u) \in Keys /\ KeyOf(u)[1] = i
    <3>1. KeyOf(u) \in Keys
      BY <2>1, KeyType, Zenon
    <3>2. KeyOf(u)[1] = Len(u) + 1
      BY DEF KeyOf
    <3> QED
      BY <2>1, <3>1, <3>2
  <2>3. rows[KeyOf(u)].st = "completed" /\ rows[KeyOf(u)].out = t[i]
    BY DEF Replayed
  <2>4. PICK n \in 0..Len(h) - 1 : KeyOf(u) = KeyOf(SubSeq(h, 1, n))
    BY <2>2, <2>3 DEF IsHistory
  <2>5. Len(SubSeq(h, 1, n)) = n
    BY <1>1, Beginning
  <2>6. n = i - 1
    BY <1>1, <2>2, <2>4, <2>5 DEF KeyOf
  <2>7. i \in 1..Len(h)
    BY <1>1, <2>6
  <2>8. rows[KeyOf(SubSeq(h, 1, i - 1))].out = h[i]
    BY <2>7 DEF IsHistory, Replayed
  <2> QED
    BY <2>3, <2>4, <2>6, <2>7, <2>8
<1>3. Len(t) <= Len(h)
  BY <1>1, <1>2
<1>4. Agree(t, h) /\ Agree(h, t)
  BY <1>1, <1>2 DEF Agree
<1> QED
  BY <1>3, <1>4

LEMMA HistoryRecorded ==
    ASSUME NEW rows, NEW h \in States, IsHistory(rows, h)
    PROVE  LongestReplay(rows) = h
<1> DEFINE Longest(s) == Replayed(rows, s) /\ \A t \in States : Replayed(rows, t) => Len(t) <= Len(s)
<1>1. Longest(h)
  BY ReplayBegins DEF IsHistory
<1>2. ASSUME NEW s \in States, Longest(s)
      PROVE  s = h
  <2>1. Len(h) <= Len(s) /\ Len(s) <= Len(h) /\ Agree(s, h)
    BY <1>2, ReplayBegins DEF IsHistory
  <2>2. Len(s) = Len(h)
    BY <2>1, StateSeq
  <2> QED
    BY <2>1, <2>2, SameState
<1>3. LongestReplay(rows) \in States /\ Longest(LongestReplay(rows))
  BY <1>1 DEF LongestReplay
<1> QED
  BY <1>2, <1>3

(* A step that completes no row leaves the history as it is. *)
NoneCompleted(rows, rows2) == \A k \in Keys : rows2[k].st = "completed" => rows[k].st = "completed"

LEMMA SameHistory ==
    ASSUME NEW rows, NEW rows2, Kept(rows, rows2), NoneCompleted(rows, rows2),
           NEW h \in States, IsHistory(rows, h)
    PROVE  IsHistory(rows2, h) /\ LongestReplay(rows2) = LongestReplay(rows)
<1>1. Replayed(rows2, h)
  BY StillReplayed DEF IsHistory
<1>2. IsHistory(rows2, h)
  BY <1>1 DEF IsHistory, NoneCompleted
<1> QED
  BY <1>2, HistoryRecorded

LEMMA LongerHistory ==
    ASSUME NEW rows, NEW rows2, Kept(rows, rows2), NEW s \in States, NEW o \in Entries,
           Len(s) < Len(Plan), Replayed(rows, s), rows[KeyOf(s)].st # "completed",
           rows2[KeyOf(s)].st = "completed", rows2[KeyOf(s)].out = o,
           \A k \in Keys \ {KeyOf(s)} : rows2[k].st = "completed" => rows[k].st = "completed",
           NEW h \in States, IsHistory(rows, h)
    PROVE  h = s /\ IsHistory(rows2, Append(s, o))
<1> DEFINE t == Append(s, o)
<1>1. Len(s) \in Nat /\ Len(h) \in Nat
  BY StateSeq
<1>2. Agree(s, h) /\ Len(s) <= Len(h)
  BY ReplayBegins
<1>3. ~(Len(s) < Len(h))
  BY <1>2, PassedRow DEF IsHistory
<1>4. h = s
  BY <1>1, <1>2, <1>3, SameState
<1>5. Replayed(rows2, t)
  BY StillReplayed, ReplayOneMore
<1>6. t \in States /\ Len(t) = Len(s) + 1
  BY Longer, Zenon
<1>7. \A n \in 0..Len(s) : SubSeq(t, 1, n) = SubSeq(s, 1, n)
  <2> SUFFICES ASSUME NEW n \in 0..Len(s) PROVE SubSeq(t, 1, n) = SubSeq(s, 1, n)
    OBVIOUS
  <2>1. n + 1 \in 1..Len(s) + 1 /\ (n + 1) - 1 = n
    BY <1>1
  <2> QED
    BY <2>1, SamePrefix
<1>8. ASSUME NEW k \in Keys, rows2[k].st = "completed"
      PROVE  \E n \in 0..Len(t) - 1 : k = KeyOf(SubSeq(t, 1, n))
  <2>1. CASE k = KeyOf(s)
    <3>1. SubSeq(t, 1, Len(s)) = s /\ Len(s) \in 0..Len(t) - 1
      BY <1>1, <1>6, <1>7, Whole
    <3> QED
      BY <2>1, <3>1
  <2>2. CASE k # KeyOf(s)
    <3>1. PICK n \in 0..Len(s) - 1 : k = KeyOf(SubSeq(s, 1, n))
      BY <1>4, <1>8, <2>2 DEF IsHistory
    <3>2. n \in 0..Len(s) /\ n \in 0..Len(t) - 1
      BY <1>1, <1>6
    <3> QED
      BY <1>7, <3>1, <3>2
  <2> QED
    BY <2>1, <2>2
<1> QED
  BY <1>4, <1>5, <1>8 DEF IsHistory


(* An executor completes a row, its own and the next of the history, or     *)
(* completes none and takes back none.                                      *)
LEMMA ExecutingHistory ==
    ASSUME TypeInv, NEW w \in Workers, NEW r \in Runs, Executing(w, r), Sound(r),
           NEW h \in States, IsHistory(row[r], h)
    PROVE  \/ IsHistory(row'[r], h)
           \/ /\ Len(h) < Len(Plan)
              /\ \E o \in Entries : IsHistory(row'[r], Append(h, o))
<1> USE DEF Here, db, leadership, At, AtStep, Held, Beating
<1> DEFINE s == exec[w][r].st
           k == Key(w, r)
<1>1. /\ exec[w][r] \in ExecType /\ s \in States /\ exec[w][r].out \in Entries
      /\ exec[w][r].pc \in AtStep => Len(s) < Len(Plan) /\ k \in Keys /\ Row(w, r) \in RowType
  BY ExecFacts
<1>2. \A j \in Keys : j # k => row'[r][j] = row[r][j]
  BY ExecutingFrame
<1>3. /\ row \in [Runs -> [Keys -> RowType]]
      /\ exec[w][r].pc \in Held => row[r][k].st = "running"
      /\ Replayed(row[r], s)
  BY DEF TypeInv, TypeOK, Sound, Key
<1>4. ASSUME NEW x, SetRow(r, k, x), k \in Keys
      PROVE  row'[r][k] = x
  BY <1>3, <1>4 DEF SetRow
<1>5. ASSUME k \in Keys => \/ row'[r][k].st = row[r][k].st /\ row'[r][k].out = row[r][k].out
                           \/ row[r][k].st # "completed" /\ row'[r][k].st # "completed"
      PROVE  IsHistory(row'[r], h)
  <2>1. Kept(row[r], row'[r]) /\ NoneCompleted(row[r], row'[r])
    BY <1>2, <1>5 DEF Kept, NoneCompleted
  <2> QED
    BY <2>1, SameHistory
<1>6. ASSUME exec[w][r].pc \in {"done", "skip"}, SetRow(r, k, Completed(Row(w, r), exec[w][r].out))
      PROVE  \/ IsHistory(row'[r], h)
             \/ Len(h) < Len(Plan) /\ \E o \in Entries : IsHistory(row'[r], Append(h, o))
  <2> DEFINE o == exec[w][r].out
  <2>1. exec[w][r].pc \in Held /\ exec[w][r].pc \in AtStep
    BY <1>6
  <2>2. k \in Keys /\ row'[r][k] = Completed(row[r][k], o) /\ row[r][k] \in RowType /\ row[r][k].st = "running"
    BY <1>1, <1>3, <1>4, <1>6, <2>1 DEF Row
  <2>3. row'[r][k].st = "completed" /\ row'[r][k].out = o
    BY <2>2 DEF Completed, RowType
  <2>4. Kept(row[r], row'[r])
    BY <1>2, <2>2 DEF Kept
  <2>5. \A j \in Keys \ {k} : row'[r][j].st = "completed" => row[r][j].st = "completed"
    BY <1>2
  <2>6. k = KeyOf(s)
    BY DEF Key
  <2>7. h = s /\ IsHistory(row'[r], Append(s, o))
    BY <1>1, <1>3, <2>1, <2>2, <2>3, <2>4, <2>5, <2>6, LongerHistory
  <2> QED
    BY <1>1, <2>1, <2>7
<1>7. ASSUME k \in Keys, SetRow(r, k, Upserted(Row(w, r)))
      PROVE  IsHistory(row'[r], h)
  <2>1. row'[r][k] = Upserted(row[r][k]) /\ row[r][k] \in RowType
    BY <1>3, <1>4, <1>7 DEF Row
  <2>2. row'[r][k] = row[r][k] \/ (row[r][k].st = "none" /\ row'[r][k].st = "pending")
    BY <2>1 DEF Upserted, RowType
  <2> QED
    BY <1>5, <2>2
<1>8. ASSUME k \in Keys, Claimable(Row(w, r)), SetRow(r, k, Claimed(Row(w, r)))
      PROVE  IsHistory(row'[r], h)
  <2>1. row'[r][k] = Claimed(row[r][k]) /\ row[r][k] \in RowType /\ row[r][k].st = "pending"
    BY <1>3, <1>4, <1>8 DEF Row, Claimable
  <2>2. row'[r][k].st = "running"
    BY <2>1 DEF Claimed, RowType
  <2> QED
    BY <1>5, <2>1, <2>2
<1>9. ASSUME exec[w][r].pc \in {"retry", "final", "abort"}, NEW final, SetRow(r, k, Failed(Row(w, r), final))
      PROVE  IsHistory(row'[r], h)
  <2>2. exec[w][r].pc \in Held /\ k \in Keys /\ row[r][k] \in RowType /\ row[r][k].st = "running"
    BY <1>1, <1>3, <1>9 DEF Row
  <2>3. row'[r][k] = Failed(row[r][k], final)
    BY <1>4, <1>9, <2>2 DEF Row
  <2>4. row'[r][k].st \in {"failed", "pending"}
    BY <2>2, <2>3 DEF Failed, RowType
  <2> QED
    BY <1>5, <2>2, <2>4
<1>10. CASE Heartbeat(w, r)
  <2>1. k \in Keys /\ row[r][k] \in RowType /\ row'[r][k] = [row[r][k] EXCEPT !.beat = TRUE]
    BY <1>1, <1>4, <1>10 DEF Heartbeat, Row
  <2>2. row'[r][k].st = row[r][k].st /\ row'[r][k].out = row[r][k].out
    BY <2>1 DEF RowType
  <2> QED
    BY <1>5, <2>2
<1>11. CASE row' = row
  BY <1>5, <1>11
<1>12. CASE Complete(w, r)
  BY <1>6, <1>12 DEF Complete
<1>13. CASE Upsert(w, r) \/ Claim(w, r)
  BY <1>1, <1>7, <1>8, <1>13 DEF Upsert, Claim
<1>14. CASE RecordFailure(w, r)
  <2>1. PICK p \in {<<"retry", "requeue">>, <<"final", "fail">>, <<"abort", "cancel">>} :
            At(w, r, p[1]) /\ SetRow(r, Key(w, r), Failed(Row(w, r), p[1] # "retry"))
    BY <1>14 DEF RecordFailure
  <2> QED
    BY <1>9, <2>1
<1>15. CASE Failing(w, r)
  <2>1. row' = row \/ (exec[w][r].pc \in AtStep /\ \E x : SetRow(r, k, x) /\ Rewritten(w, r, x))
    BY <1>15, FailingFacts
  <2> QED
    BY <1>1, <1>6, <1>7, <1>8, <1>9, <1>11, <2>1 DEF Rewritten
<1> QED
  BY <1>10, <1>11, <1>12, <1>13, <1>14, <1>15
  DEF Executing, Execute, ClaimLost, BodyReturns, BodyRaises, ConsumeSignal, Save, Finish, TaskEnds, Breaks

(* Nothing else completes a row. *)
LEMMA OtherCompletes ==
    ASSUME TypeInv, [Next]_vars, \A w \in Workers, r \in Runs : ~Executing(w, r)
    PROVE  \A r \in Runs : NoneCompleted(row[r], row'[r])
<1> USE DEF db, leadership, NoneCompleted
<1>1. ASSUME row' = row
      PROVE  \A r \in Runs : NoneCompleted(row[r], row'[r])
  BY <1>1
<1>2. ASSUME NEW r \in Runs, Client(r)
      PROVE  row' = row
  BY <1>2 DEF Client, Submit, Cancel, Send
<1>3. ASSUME NEW w \in Workers, Reclaim(w)
      PROVE  \A r \in Runs : NoneCompleted(row[r], row'[r])
  <2>1. ASSUME NEW r \in Runs, NEW k \in Keys
        PROVE  row'[r][k] = row[r][k] \/ row'[r][k].st = "pending"
    <3>1. row'[r][k] = IF Stale(row[r][k]) THEN Reclaimed(row[r][k]) ELSE row[r][k]
      BY <1>3 DEF Reclaim
    <3>2. row[r][k] \in RowType
      BY DEF TypeInv, TypeOK
    <3> QED
      BY <3>1, <3>2 DEF Reclaimed, RowType
  <2> QED
    BY <2>1
<1>4. ASSUME NEW w \in Workers, Drive(w), ~Reclaim(w)
      PROVE  row' = row
  BY <1>4 DEF Drive, Tick, Start, Compete, Revive, ClaimRuns, Drained
<1>5. ASSUME NEW w \in Workers, Fault(w)
      PROVE  row' = row
  BY <1>5 DEF Fault, DropLock, Stop, Kill, TickFails
<1>6. CASE Time
  BY <1>6, ClockRows DEF Time
<1>7. CASE UNCHANGED vars
  BY <1>7 DEF vars
<1> QED
  BY <1>1, <1>2, <1>3, <1>4, <1>5, <1>6, <1>7 DEF Next, Executing

(* One output is added to the record of one run, or none to any.            *)
Extends(r) ==
    /\ r \notin lapsed /\ lapsed' = lapsed
    /\ Len(Recorded(r)) < Len(Plan)
    /\ \E o \in Entries : Recorded(r)' = Append(Recorded(r), o)
    /\ \A q \in Runs \ lapsed : q # r => Recorded(q)' = Recorded(q)
Keeps == lapsed \subseteq lapsed' /\ \A q \in Runs \ lapsed' : Recorded(q)' = Recorded(q)

LEMMA HistoryStep ==
    TypeInv /\ SoundInv /\ HistoryInv /\ [Next]_vars => HistoryInv' /\ (Keeps \/ \E r \in Runs : Extends(r))
<1> SUFFICES ASSUME TypeInv, SoundInv, HistoryInv, [Next]_vars
             PROVE  HistoryInv' /\ (Keeps \/ \E r \in Runs : Extends(r))
  OBVIOUS
<1>1. ASSUME NEW w \in Workers, NEW r \in Runs, Executing(w, r)
      PROVE  HistoryInv' /\ (Keeps \/ \E q \in Runs : Extends(q))
  <2>1. lapsed' = lapsed /\ \A q \in Runs \ {r} : row'[q] = row[q]
    BY <1>1, ExecutingFrame
  <2>2. \A q \in Runs \ lapsed : q # r => Recorded(q)' = Recorded(q) /\ \E h \in States : IsHistory(row'[q], h)
    BY <2>1 DEF Recorded, HistoryInv
  <2>3. CASE r \in lapsed
    BY <2>1, <2>2, <2>3 DEF Keeps, HistoryInv
  <2>4. CASE r \notin lapsed
    <3>1. PICK h \in States : IsHistory(row[r], h)
      BY <2>4 DEF HistoryInv
    <3>2. Recorded(r) = h
      BY <3>1, HistoryRecorded DEF Recorded
    <3>3. CASE IsHistory(row'[r], h)
      <4>1. Recorded(r)' = h
        BY <3>3, HistoryRecorded DEF Recorded
      <4>2. HistoryInv'
        BY <2>1, <2>2, <3>3 DEF HistoryInv
      <4>3. Keeps
        BY <2>1, <2>2, <3>2, <4>1 DEF Keeps
      <4> QED
        BY <4>2, <4>3
    <3>4. CASE Len(h) < Len(Plan) /\ \E o \in Entries : IsHistory(row'[r], Append(h, o))
      <4>1. PICK o \in Entries : IsHistory(row'[r], Append(h, o))
        BY <3>4
      <4>2. Append(h, o) \in States
        BY <3>4, Longer, Zenon
      <4>3. Recorded(r)' = Append(h, o)
        BY <4>1, <4>2, HistoryRecorded DEF Recorded
      <4>4. HistoryInv'
        BY <2>1, <2>2, <4>1, <4>2 DEF HistoryInv
      <4>5. Extends(r)
        BY <2>1, <2>2, <2>4, <3>2, <3>4, <4>3 DEF Extends
      <4> QED
        BY <4>4, <4>5
    <3> QED
      BY <1>1, <2>4, <3>1, <3>3, <3>4, ExecutingHistory DEF SoundInv
  <2> QED
    BY <2>3, <2>4
<1>2. CASE \A w \in Workers, r \in Runs : ~Executing(w, r)
  <2>1. lapsed \subseteq lapsed' /\ \A r \in Runs \ lapsed' : Quiet(r) /\ NoneCompleted(row[r], row'[r])
    BY <1>2, OtherSteps, OtherCompletes
  <2>2. ASSUME NEW r \in Runs \ lapsed'
        PROVE  Recorded(r)' = Recorded(r) /\ \E h \in States : IsHistory(row'[r], h)
    <3>1. Kept(row[r], row'[r]) /\ NoneCompleted(row[r], row'[r])
      BY <2>1 DEF Quiet, Kept
    <3>2. PICK h \in States : IsHistory(row[r], h)
      BY <2>1 DEF HistoryInv
    <3> QED
      BY <3>1, <3>2, SameHistory DEF Recorded
  <2> QED
    BY <2>1, <2>2 DEF HistoryInv, Keeps
<1> QED
  BY <1>1, <1>2

(* What the rows of a run replay to is a journal: an output is added to one *)
(* run at a time, and none is changed or taken back, until a live           *)
(* executor's timeout passes.                                               *)
THEOREM RowsAreAJournal == Spec => ImplementsJournal
<1> DEFINE j == [r \in Runs |-> IF r \in lapsed THEN <<>> ELSE Recorded(r)]
<1>1. Init => HistoryInv /\ Journal!Init
  <2> SUFFICES ASSUME Init PROVE HistoryInv /\ Journal!Init
    OBVIOUS
  <2>1. ASSUME NEW r \in Runs
        PROVE  IsHistory(row[r], <<>>) /\ <<>> \in States
    BY NothingDone, EmptyState DEF Init, IsHistory, NoRow
  <2>2. \A r \in Runs : Recorded(r) = <<>>
    BY <2>1, HistoryRecorded DEF Recorded
  <2>3. HistoryInv
    BY <2>1 DEF HistoryInv
  <2>4. lapsed = {}
    BY DEF Init
  <2> QED
    BY <2>2, <2>3, <2>4 DEF Journal!Init
<1>2. TypeInv /\ TypeInv' /\ SoundInv /\ HistoryInv /\ [Next]_vars => HistoryInv' /\ [Journal!Next]_<<j, lapsed>>
  <2> SUFFICES ASSUME TypeInv, TypeInv', SoundInv, HistoryInv, [Next]_vars
               PROVE  HistoryInv' /\ Journal!Next
    OBVIOUS
  <2>1. HistoryInv' /\ (Keeps \/ \E r \in Runs : Extends(r))
    BY HistoryStep
  <2>2. CASE Keeps
    <3>1. PICK lost \in SUBSET Runs : lost = lapsed'
      BY DEF TypeInv, TypeOK
    <3>2. \A r \in Runs \ lost : r \notin lapsed /\ Recorded(r)' = Recorded(r)
      BY <2>2, <3>1 DEF Keeps
    <3>3. j' = [r \in Runs |-> IF r \in lost THEN <<>> ELSE j[r]]
      BY <3>1, <3>2
    <3>4. lapsed' = lapsed \cup lost
      BY <2>2, <3>1 DEF Keeps
    <3>5. Journal!Break(lost)
      BY <3>3, <3>4 DEF Journal!Break
    <3> QED
      BY <2>1, <3>5 DEF Journal!Next
  <2>3. ASSUME NEW r \in Runs, Extends(r)
        PROVE  Journal!Record(r)
    <3>1. PICK o \in Entries : Recorded(r)' = Append(Recorded(r), o)
      BY <2>3 DEF Extends
    <3>2. r \notin lapsed /\ lapsed' = lapsed /\ j[r] = Recorded(r) /\ Len(j[r]) < Len(Plan)
      BY <2>3 DEF Extends
    <3>3. j' = [j EXCEPT ![r] = Append(@, o)]
      BY <2>3, <3>1, <3>2 DEF Extends
    <3> QED
      BY <3>1, <3>2, <3>3 DEF Journal!Record, Entries
  <2> QED
    BY <2>1, <2>2, <2>3 DEF Journal!Next
<1> QED
  BY <1>1, <1>2, SoundAlways, PTL DEF Spec, ImplementsJournal, Journal!Spec

-----------------------------------------------------------------------------
(* Signals are counted: one executor at most carries one, and the row that   *)
(* records it is completed once.                                             *)

Tallied(r) ==
    /\ IsFiniteSet(Waits(r))
    /\ sent[r] = Len(inbox[r]) + Cardinality(Waits(r)) + Cardinality(Carrying(r))
    /\ \A w \in Workers : exec[w][r].pc = "skip" => Kind(w, r) = "node"
SignalInv == \A r \in Runs \ (lapsed \cup spilled) : Tallied(r)

SameCompleted(r) == \A k \in Keys : row'[r][k].st = "completed" <=> row[r][k].st = "completed"

LEMMA ExecutingSignals ==
    ASSUME TypeInv, NEW w \in Workers, NEW r \in Runs, Executing(w, r), Sound(r), Tallied(r), r \notin spilled'
    PROVE  Tallied(r)'
<1> USE DEF Here, db, leadership, At, AtStep, Held, Beating
<1> DEFINE s == exec[w][r].st
           k == Key(w, r)
<1>1. /\ exec[w][r] \in ExecType /\ s \in States /\ exec[w][r].out \in Entries
      /\ exec[w][r].pc \in AtStep => k \in Keys /\ Row(w, r) \in RowType
  BY ExecFacts
<1>2. /\ \A v \in Workers \ {w} : exec'[v][r] = exec[v][r]
      /\ \A j \in Keys : j # k => row'[r][j] = row[r][j]
  BY ExecutingFrame
<1>3. /\ exec \in [Workers -> [Runs -> ExecType]] /\ row \in [Runs -> [Keys -> RowType]]
      /\ inbox \in [Runs -> Seq(Outputs)]
      /\ exec[w][r].pc \in Held => row[r][k].st = "running"
      /\ \A v \in Workers : exec[v][r].pc \in Held /\ exec[w][r].pc \in Held => v = w
  BY DEF TypeInv, TypeOK, Sound, Key
<1>4. ASSUME NEW x, SetRow(r, k, x), k \in Keys
      PROVE  row'[r][k] = x
  BY <1>3, <1>4 DEF SetRow
<1>5. ASSUME NEW p, GoTo(w, r, p)
      PROVE  exec'[w][r].pc = p /\ exec'[w][r].st = s
  BY <1>1, <1>3, <1>5 DEF GoTo, ExecType
<1>6. ASSUME SameCompleted(r)
      PROVE  Waits(r)' = Waits(r)
  BY <1>6 DEF Waits, SameCompleted
(* A step that neither takes a signal nor records one. *)
<1>7. ASSUME inbox' = inbox, sent' = sent, SameCompleted(r),
             w \in Carrying(r)' <=> w \in Carrying(r),
             exec'[w][r].pc = "skip" => Kind(w, r)' = "node"
      PROVE  Tallied(r)'
  <2>1. Carrying(r)' = Carrying(r)
    BY <1>2, <1>7 DEF Carrying, Kind
  <2>2. \A v \in Workers : exec'[v][r].pc = "skip" => Kind(v, r)' = "node"
    BY <1>2, <1>7 DEF Tallied, Kind
  <2> QED
    BY <1>6, <1>7, <2>1, <2>2 DEF Tallied
<1>8. ASSUME row' = row
      PROVE  SameCompleted(r)
  BY <1>8 DEF SameCompleted
<1>9. ASSUME exec[w][r].pc # "done"
      PROVE  w \notin Carrying(r)
  BY <1>9 DEF Carrying
<1>10. ASSUME exec'[w][r].pc # "done"
       PROVE  w \notin Carrying(r)'
  BY <1>10 DEF Carrying
<1>11. ASSUME k \in Keys, row'[r][k].st = "completed" <=> row[r][k].st = "completed"
       PROVE  SameCompleted(r)
  BY <1>2, <1>11 DEF SameCompleted
<1>12. CASE Upsert(w, r)
  <2>1. k \in Keys /\ row'[r][k] = Upserted(row[r][k]) /\ Row(w, r) = row[r][k] /\ row[r][k] \in RowType
    BY <1>1, <1>4, <1>12 DEF Upsert, Row
  <2>2. row'[r][k] = row[r][k] \/ (row[r][k].st = "none" /\ row'[r][k].st = "pending")
    BY <2>1 DEF Upserted, RowType
  <2>3. exec'[w][r].pc \in {"save", "end", "upsert", "claim"}
    <3>1. CASE Row(w, r).st = "completed"
      <4>1. Row(w, r).out \in Entries /\ Passed(w, r, Row(w, r).out) /\ exec[w][r].pc \in AtStep
        BY <1>12, <2>1, <3>1 DEF Upsert, RowType, Entries
      <4>2. PICK e \in ExecType : Moves(w, r, e) /\ e.pc \in {"save", "end", "upsert"}
        BY <4>1, PassedMoves
      <4>3. exec'[w][r] = e
        BY <1>3, <4>2 DEF Moves
      <4> QED
        BY <4>2, <4>3
    <3>2. CASE Row(w, r).st # "completed"
      BY <1>5, <1>12, <3>2 DEF Upsert
    <3> QED
      BY <3>1, <3>2
  <2>4. SameCompleted(r)
    BY <1>11, <2>1, <2>2
  <2>5. w \notin Carrying(r) /\ w \notin Carrying(r)'
    BY <1>9, <1>10, <1>12, <2>3 DEF Upsert
  <2> QED
    BY <1>7, <1>12, <2>3, <2>4, <2>5 DEF Upsert
<1>13. CASE Claim(w, r)
  <2>1. k \in Keys /\ row'[r][k] = Claimed(row[r][k]) /\ row[r][k] \in RowType /\ row[r][k].st = "pending"
    BY <1>1, <1>4, <1>13 DEF Claim, Row, Claimable
  <2>2. row'[r][k].st = "running"
    BY <2>1 DEF Claimed, RowType
  <2>3. PICK p \in IF Kind(w, r) = "node" THEN {"body", "skip"} ELSE {"body"} : GoTo(w, r, p)
    BY <1>13 DEF Claim
  <2>4. exec'[w][r].pc = p /\ exec'[w][r].st = s
    BY <1>5, <2>3
  <2>5. p \in {"body", "skip"} /\ (p = "skip" => Kind(w, r) = "node")
    BY <2>3
  <2>6. SameCompleted(r)
    BY <1>11, <2>1, <2>2
  <2>7. w \notin Carrying(r) /\ w \notin Carrying(r)'
    BY <1>9, <1>10, <1>13, <2>4, <2>5 DEF Claim
  <2>8. exec'[w][r].pc = "skip" => Kind(w, r)' = "node"
    BY <2>4, <2>5 DEF Kind
  <2> QED
    BY <1>7, <1>13, <2>6, <2>7, <2>8 DEF Claim
<1>14. ASSUME NEW p, GoTo(w, r, p), p \notin {"done", "skip"}, exec[w][r].pc # "done",
              inbox' = inbox, sent' = sent, row' = row
       PROVE  Tallied(r)'
  BY <1>5, <1>7, <1>8, <1>9, <1>10, <1>14
<1>15. CASE ClaimLost(w, r)
  BY <1>14, <1>15 DEF ClaimLost
<1>16. CASE BodyRaises(w, r)
  <2>1. PICK p \in {"abort", "final", "retry"} : GoTo(w, r, p)
    BY <1>16 DEF BodyRaises
  <2> QED
    BY <1>14, <1>16, <2>1 DEF BodyRaises
<1>17. CASE Save(w, r)
  <2>1. PICK p \in {"end", "upsert"} : GoTo(w, r, p)
    BY <1>17 DEF Save
  <2> QED
    BY <1>14, <1>17, <2>1 DEF Save
<1>18. CASE Finish(w, r)
  <2>1. exec[w][r].pc # "done"
    BY <1>18 DEF Finish, WriteStatus, Outcome
  <2> QED
    BY <1>14, <1>18, <2>1 DEF Finish
<1>19. CASE RecordFailure(w, r)
  <2>1. PICK p \in {<<"retry", "requeue">>, <<"final", "fail">>, <<"abort", "cancel">>} :
            /\ At(w, r, p[1])
            /\ SetRow(r, Key(w, r), Failed(Row(w, r), p[1] # "retry"))
            /\ GoTo(w, r, p[2])
            /\ UNCHANGED <<run, output, Here>>
    BY <1>19 DEF RecordFailure
  <2>2. exec[w][r].pc \in Held /\ exec[w][r].pc # "done" /\ p[2] \in {"requeue", "fail", "cancel"}
    BY <2>1
  <2>3. k \in Keys /\ row[r][k] \in RowType /\ row[r][k].st = "running" /\ row'[r][k] = Failed(row[r][k], p[1] # "retry")
    BY <1>1, <1>3, <1>4, <2>1, <2>2 DEF Row
  <2>4. row'[r][k].st \in {"failed", "pending"}
    BY <2>3 DEF Failed, RowType
  <2>5. SameCompleted(r)
    BY <1>11, <2>3, <2>4
  <2>6. exec'[w][r].pc \in {"requeue", "fail", "cancel"}
    BY <1>5, <2>1, <2>2
  <2> QED
    BY <1>7, <1>9, <1>10, <2>1, <2>2, <2>5, <2>6
<1>20. CASE TaskEnds(w, r)
  <2>1. exec'[w][r].pc = "idle" /\ exec[w][r].pc = "leave"
    BY <1>3, <1>20 DEF TaskEnds, Idle
  <2> QED
    BY <1>7, <1>8, <1>9, <1>10, <1>20, <2>1 DEF TaskEnds
<1>21. CASE Heartbeat(w, r)
  <2>1. k \in Keys /\ row[r][k] \in RowType /\ row'[r][k] = [row[r][k] EXCEPT !.beat = TRUE] /\ exec' = exec
    BY <1>1, <1>4, <1>21 DEF Heartbeat, Row
  <2>2. SameCompleted(r)
    BY <1>11, <2>1 DEF RowType
  <2> QED
    BY <1>7, <1>21, <2>1, <2>2 DEF Heartbeat, Carrying, Kind, Tallied
<1>22. ASSUME NEW o, exec' = [exec EXCEPT ![w][r].pc = "done", ![w][r].out = o]
       PROVE  exec'[w][r].pc = "done" /\ Kind(w, r)' = Kind(w, r)
  BY <1>1, <1>3, <1>22 DEF ExecType, Kind
<1>23. CASE \E o \in Outputs : BodyReturns(w, r, o)
  <2>1. Kind(w, r) = "node" /\ exec[w][r].pc = "body" /\ exec'[w][r].pc = "done" /\ Kind(w, r)' = "node"
    BY <1>22, <1>23 DEF BodyReturns
  <2>2. w \notin Carrying(r) /\ w \notin Carrying(r)'
    BY <2>1 DEF Carrying
  <2> QED
    BY <1>7, <1>8, <1>23, <2>1, <2>2 DEF BodyReturns
<1>24. CASE ConsumeSignal(w, r)
  <2>1. exec'[w][r].pc = "done" /\ Kind(w, r)' = "wait" /\ exec[w][r].pc = "body"
    BY <1>22, <1>24 DEF ConsumeSignal
  <2>2. Carrying(r) = {}
    BY <1>3, <2>1 DEF Carrying
  <2>3. Carrying(r)' = {w}
    BY <1>2, <2>1, <2>2 DEF Carrying, Kind
  <2>4. Waits(r)' = Waits(r)
    BY <1>6, <1>8, <1>24 DEF ConsumeSignal
  <2>5. Len(inbox[r]) \in Nat /\ Len(inbox'[r]) = Len(inbox[r]) - 1
    <3>1. inbox[r] \in Seq(Outputs) /\ inbox[r] # <<>> /\ inbox'[r] = Tail(inbox[r])
      BY <1>3, <1>24 DEF ConsumeSignal
    <3> QED
      BY <3>1, LenProperties, HeadTailProperties
  <2>6. Cardinality(Carrying(r)) = 0 /\ Cardinality(Carrying(r)') = 1 /\ Cardinality(Waits(r)) \in Nat
    BY <2>2, <2>3, FS_EmptySet, FS_Singleton, FS_CardinalityType DEF Tallied
  <2>7. sent' = sent
    BY <1>24 DEF ConsumeSignal
  <2>8. sent'[r] = Len(inbox'[r]) + Cardinality(Waits(r)') + Cardinality(Carrying(r)')
    BY <2>4, <2>5, <2>6, <2>7 DEF Tallied
  <2>9. \A v \in Workers : exec'[v][r].pc = "skip" => Kind(v, r)' = "node"
    BY <1>2, <2>1 DEF Tallied, Kind
  <2> QED
    BY <2>4, <2>8, <2>9 DEF Tallied
<1>25. ASSUME exec[w][r].pc \in {"done", "skip"}, SetRow(r, k, Completed(Row(w, r), exec[w][r].out)),
              exec'[w][r].pc \notin {"done", "skip"}, inbox' = inbox, sent' = sent
       PROVE  Tallied(r)'
  <2> DEFINE o == exec[w][r].out
  <2>1. exec[w][r].pc \in {"done", "skip"} /\ k \in Keys /\ inbox' = inbox /\ sent' = sent
    BY <1>1, <1>25
  <2>2. row[r][k].st = "running" /\ row'[r][k] = Completed(row[r][k], o) /\ row[r][k] \in RowType
    BY <1>1, <1>3, <1>4, <1>25, <2>1 DEF Row
  <2>3. row'[r][k].st = "completed"
    BY <2>2 DEF Completed, RowType
  <2>6. \A v \in Workers : exec'[v][r].pc = "skip" => Kind(v, r)' = "node"
    BY <1>2, <1>25 DEF Tallied, Kind
  <2>7. Plan[k[1]] = Kind(w, r)
    BY DEF Key, KeyOf, Kind
  <2>8. \A v \in Workers \ {w} : v \notin Carrying(r) /\ v \notin Carrying(r)'
    BY <1>2, <1>3, <2>1 DEF Carrying
  <2>9. Carrying(r)' = {}
    BY <1>10, <1>25, <2>8 DEF Carrying
  <2>10. CASE Kind(w, r) = "wait"
    <3>1. Carrying(r) = {w}
      BY <2>1, <2>8, <2>10 DEF Carrying, Tallied
    <3>2. k \notin Waits(r) /\ Waits(r)' = Waits(r) \cup {k}
      BY <1>2, <2>1, <2>2, <2>3, <2>7, <2>10 DEF Waits
    <3>3. IsFiniteSet(Waits(r)') /\ Cardinality(Waits(r)') = Cardinality(Waits(r)) + 1 /\ Cardinality(Waits(r)) \in Nat
      BY <3>2, FS_AddElement, FS_CardinalityType DEF Tallied
    <3>4. Cardinality(Carrying(r)) = 1 /\ Cardinality(Carrying(r)') = 0
      BY <2>9, <3>1, FS_EmptySet, FS_Singleton
    <3>5. Len(inbox[r]) \in Nat
      BY <1>3, LenProperties
    <3>6. sent'[r] = Len(inbox'[r]) + Cardinality(Waits(r)') + Cardinality(Carrying(r)')
      BY <2>1, <3>3, <3>4, <3>5 DEF Tallied
    <3> QED
      BY <2>6, <3>3, <3>6 DEF Tallied
  <2>11. CASE Kind(w, r) # "wait"
    <3>1. Carrying(r) = {}
      BY <2>8, <2>11 DEF Carrying
    <3>2. Waits(r)' = Waits(r)
      BY <1>2, <2>7, <2>11 DEF Waits
    <3> QED
      BY <2>1, <2>6, <2>9, <3>1, <3>2 DEF Tallied
  <2> QED
    BY <2>10, <2>11
<1>26. CASE Complete(w, r)
  <2>1. PICK e \in ExecType : Moves(w, r, e) /\ e.pc \in {"save", "end", "upsert"}
    BY <1>1, <1>26, PassedMoves DEF Complete
  <2>2. exec'[w][r].pc \in {"save", "end", "upsert"}
    BY <1>3, <2>1 DEF Moves
  <2> QED
    BY <1>25, <1>26, <2>2 DEF Complete
<1>27. CASE Breaks(w, r)
  BY <1>14, <1>27 DEF Breaks
<1>28. CASE RowFails(w, r)
  <2>1. /\ exec[w][r].pc \in AtStep /\ inbox' = inbox /\ sent' = sent
        /\ exec[w][r].pc \in {"upsert", "claim", "done", "skip", "retry", "final", "abort"}
    BY <1>28 DEF RowFails
  <2>2. k \in Keys /\ row[r][k] \in RowType /\ Row(w, r) = row[r][k]
    BY <1>1, <2>1 DEF Row
  <2>3. exec'[w][r].pc = "fail"
    BY <1>5, <1>28 DEF RowFails
  <2>4. PICK x \in {Row(w, r), Written(w, r)} :
            /\ SetRow(r, k, x)
            /\ spilled' = IF w \in Carrying(r) /\ x.st # "completed" THEN spilled \cup {r} ELSE spilled
    BY <1>28 DEF RowFails
  <2>5. row'[r][k] = x /\ ~(w \in Carrying(r) /\ x.st # "completed")
    BY <1>4, <2>2, <2>4
  <2>6. w \notin Carrying(r)'
    BY <1>10, <2>3
  <2>7. CASE x = Row(w, r)
    <3>1. SameCompleted(r)
      BY <1>11, <2>2, <2>5, <2>7
    <3>2. w \notin Carrying(r)
      BY <1>3, <2>2, <2>5, <2>7 DEF Carrying
    <3> QED
      BY <1>7, <2>1, <2>3, <2>6, <3>1, <3>2
  <2>8. CASE x = Written(w, r) /\ exec[w][r].pc \in {"done", "skip"}
    <3>1. x = Completed(Row(w, r), exec[w][r].out)
      BY <2>8 DEF Written
    <3> QED
      BY <1>25, <2>1, <2>3, <2>4, <2>8, <3>1
  <2>9. CASE x = Written(w, r) /\ exec[w][r].pc \notin {"done", "skip"}
    <3>1. x.st = "completed" <=> row[r][k].st = "completed"
      <4>1. CASE exec[w][r].pc = "upsert"
        BY <2>2, <2>9, <4>1 DEF Written, Upserted, RowType
      <4>2. CASE exec[w][r].pc = "claim"
        BY <2>2, <2>9, <4>2 DEF Written, Claimable, Claimed, RowType
      <4>3. CASE exec[w][r].pc \in {"retry", "final", "abort"}
        BY <1>3, <2>2, <2>9, <4>3 DEF Written, Failed, RowType
      <4> QED
        BY <2>1, <2>9, <4>1, <4>2, <4>3
    <3>2. SameCompleted(r) /\ w \notin Carrying(r)
      BY <1>9, <1>11, <2>2, <2>5, <2>9, <3>1
    <3> QED
      BY <1>7, <2>1, <2>3, <2>6, <3>2
  <2> QED
    BY <2>4, <2>7, <2>8, <2>9
<1>29. CASE BodyFails(w, r)
  <2>1. inbox' = inbox /\ sent' = sent /\ row' = row /\ exec[w][r].pc = "body" /\ GoTo(w, r, "fail")
    BY <1>29 DEF BodyFails
  <2> QED
    BY <1>14, <2>1
<1>30. CASE RunFails(w, r) \/ LoadFails(w, r)
  <2>1. PICK p \in {"fail", "leave"} : GoTo(w, r, p)
    BY <1>30 DEF RunFails, LoadFails
  <2>2. inbox' = inbox /\ sent' = sent /\ row' = row /\ exec[w][r].pc # "done"
    BY <1>30 DEF RunFails, LoadFails, Outcome
  <2> QED
    BY <1>14, <2>1, <2>2
<1> QED
  BY <1>12, <1>13, <1>15, <1>16, <1>17, <1>18, <1>19, <1>20, <1>21, <1>23, <1>24, <1>26, <1>27, <1>28, <1>29, <1>30
  DEF Executing, Execute, Failing

(* Nothing else touches the executors of a run but their end and their       *)
(* dispatch, or an inbox but what is sent.                                   *)
Sends(r) ==
    \/ sent'[r] = sent[r] /\ inbox'[r] = inbox[r]
    \/ sent'[r] = sent[r] + 1 /\ Len(inbox'[r]) = Len(inbox[r]) + 1

Hands(v, r) ==
    \/ exec'[v][r] = exec[v][r]
    \/ v \notin Carrying(r) /\ exec'[v][r] \in {Idle, Dispatched}

LEMMA OtherSignals ==
    ASSUME TypeInv, [Next]_vars, \A w \in Workers, r \in Runs : ~Executing(w, r)
    PROVE  /\ spilled \subseteq spilled'
           /\ \A r \in Runs : Sends(r)
           /\ \A r \in Runs \ spilled', v \in Workers : Hands(v, r)
<1> USE DEF db, leadership
<1> DEFINE Goal == /\ spilled \subseteq spilled'
                   /\ \A r \in Runs : Sends(r)
                   /\ \A r \in Runs \ spilled', v \in Workers : Hands(v, r)
<1>1. /\ exec \in [Workers -> [Runs -> ExecType]] /\ inbox \in [Runs -> Seq(Outputs)] /\ sent \in [Runs -> Nat]
  BY DEF TypeInv, TypeOK
<1>2. ASSUME sent' = sent, inbox' = inbox, exec' = exec, spilled' = spilled
      PROVE  Goal
  BY <1>2 DEF Sends, Hands
<1>3. ASSUME NEW r \in Runs, Client(r)
      PROVE  Goal
  <2>1. CASE Submit(r) \/ Cancel(r)
    BY <1>2, <2>1 DEF Submit, Cancel
  <2>2. ASSUME NEW o \in Outputs, Send(r, o)
        PROVE  Goal
    <3>1. exec' = exec /\ spilled' = spilled
      BY <2>2 DEF Send
    <3>2. \A q \in Runs \ {r} : sent'[q] = sent[q] /\ inbox'[q] = inbox[q]
      BY <1>1, <2>2 DEF Send
    <3>3. inbox'[r] = Append(inbox[r], o) /\ inbox[r] \in Seq(Outputs) /\ sent'[r] = sent[r] + 1
      BY <1>1, <2>2 DEF Send
    <3>4. Len(inbox'[r]) = Len(inbox[r]) + 1
      BY <3>3, AppendProperties
    <3> QED
      BY <3>1, <3>2, <3>3, <3>4 DEF Sends, Hands
  <2> QED
    BY <1>3, <2>1, <2>2 DEF Client
<1>4. ASSUME NEW w \in Workers, Cut(w), sent' = sent, inbox' = inbox
      PROVE  Goal
  <2>1. spilled \subseteq spilled' /\ \A r \in Runs \ spilled', v \in Workers : Hands(v, r)
    BY <1>1, <1>4 DEF Cut, Hands
  <2> QED
    BY <1>4, <2>1 DEF Sends
<1>5. ASSUME NEW w \in Workers, Drive(w)
      PROVE  Goal
  <2>1. CASE Start(w) \/ Compete(w) \/ Reclaim(w) \/ Revive(w)
    BY <1>2, <2>1 DEF Start, Compete, Reclaim, Revive
  <2>2. CASE ClaimRuns(w)
    <3>1. \A v \in Workers, r \in Runs : exec'[v][r] = exec[v][r] \/ (exec[v][r] = Idle /\ exec'[v][r] = Dispatched)
      BY <1>1, <2>2 DEF ClaimRuns, Dispatched
    <3>2. \A v \in Workers, r \in Runs : exec[v][r] = Idle => v \notin Carrying(r)
      BY DEF Carrying, At, Idle
    <3> QED
      BY <2>2, <3>1, <3>2 DEF ClaimRuns, Sends, Hands
  <2>3. CASE Drained(w)
    BY <1>4, <2>3 DEF Drained
  <2> QED
    BY <1>5, <2>1, <2>2, <2>3 DEF Drive, Tick
<1>6. ASSUME NEW w \in Workers, Fault(w)
      PROVE  Goal
  <2>1. CASE DropLock(w) \/ Stop(w) \/ TickFails(w)
    BY <1>2, <2>1 DEF DropLock, Stop, TickFails
  <2>2. CASE Kill(w)
    BY <1>4, <2>2 DEF Kill
  <2> QED
    BY <1>6, <2>1, <2>2 DEF Fault
<1>7. CASE Time
  BY <1>2, <1>7 DEF Time, Silence, Lapse, FallDue, Here
<1>8. CASE UNCHANGED vars
  BY <1>2, <1>8 DEF vars
<1> QED
  BY <1>3, <1>5, <1>6, <1>7, <1>8 DEF Next, Executing

LEMMA SignalStep == TypeInv /\ SoundInv /\ SignalInv /\ [Next]_vars => SignalInv'
<1> SUFFICES ASSUME TypeInv, SoundInv, SignalInv, [Next]_vars PROVE SignalInv'
  OBVIOUS
<1>1. ASSUME NEW w \in Workers, NEW r \in Runs, Executing(w, r)
      PROVE  SignalInv'
  <2>1. /\ lapsed' = lapsed /\ LeavesOthers(spilled, r)
        /\ \A v \in Workers, q \in Runs : q # r => exec'[v][q] = exec[v][q]
        /\ \A q \in Runs \ {r} : row'[q] = row[q] /\ inbox'[q] = inbox[q]
        /\ sent' = sent
    BY <1>1, ExecutingFrame
  <2>3. ASSUME NEW q \in Runs \ (lapsed \cup spilled), q # r
        PROVE  Tallied(q)'
    <3>1. Tallied(q) /\ sent'[q] = sent[q] /\ inbox'[q] = inbox[q]
      BY <2>1, <2>3 DEF SignalInv
    <3>2. Waits(q)' = Waits(q)
      BY <2>1, <2>3 DEF Waits
    <3>3. \A v \in Workers : exec'[v][q] = exec[v][q]
      BY <2>1, <2>3
    <3>4. Carrying(q)' = Carrying(q) /\ \A v \in Workers : exec'[v][q].pc = "skip" => Kind(v, q)' = "node"
      BY <3>1, <3>3 DEF Carrying, Kind, Tallied, At
    <3> QED
      BY <3>1, <3>2, <3>4 DEF Tallied
  <2>4. r \notin lapsed \cup spilled' => Tallied(r)'
    BY <1>1, <2>1, ExecutingSignals DEF SoundInv, SignalInv, LeavesOthers
  <2> QED
    BY <2>1, <2>3, <2>4 DEF SignalInv, LeavesOthers
<1>2. CASE \A w \in Workers, r \in Runs : ~Executing(w, r)
  <2>1. lapsed \subseteq lapsed' /\ \A r \in Runs \ lapsed' : Quiet(r) /\ NoneCompleted(row[r], row'[r])
    BY <1>2, OtherSteps, OtherCompletes
  <2>2. /\ spilled \subseteq spilled'
        /\ \A r \in Runs : Sends(r)
        /\ \A r \in Runs \ spilled', v \in Workers : Hands(v, r)
    BY <1>2, OtherSignals
  <2>3. ASSUME NEW r \in Runs \ (lapsed' \cup spilled')
        PROVE  Tallied(r)'
    <3>1. Tallied(r) /\ inbox[r] \in Seq(Outputs) /\ sent[r] \in Nat
      BY <2>1, <2>2 DEF SignalInv, TypeInv, TypeOK
    <3>2. Waits(r)' = Waits(r)
      BY <2>1 DEF Quiet, NoneCompleted, Waits
    <3>3. \A v \in Workers : \/ exec'[v][r] = exec[v][r]
                             \/ v \notin Carrying(r) /\ exec'[v][r].pc \in {"idle", "upsert"}
      BY <2>2 DEF Hands, Idle, Dispatched
    <3>4. Carrying(r)' = Carrying(r)
      BY <3>3 DEF Carrying, Kind, At
    <3>5. \A v \in Workers : exec'[v][r].pc = "skip" => Kind(v, r)' = "node"
      BY <3>1, <3>3 DEF Tallied, Kind
    <3>6. Cardinality(Waits(r)) \in Nat /\ Cardinality(Carrying(r)) \in Nat /\ Len(inbox[r]) \in Nat
      <4>1. \A v, w \in Carrying(r) : v = w
        BY <2>1 DEF Carrying, At, SoundInv, Sound, Held, Beating
      <4>2. Carrying(r) = {} \/ \E v : Carrying(r) = {v}
        BY <4>1
      <4> QED
        BY <3>1, <4>2, FS_EmptySet, FS_Singleton, FS_CardinalityType, LenProperties DEF Tallied
    <3>7. sent'[r] = Len(inbox'[r]) + Cardinality(Waits(r)) + Cardinality(Carrying(r))
      <4>1. sent[r] = Len(inbox[r]) + Cardinality(Waits(r)) + Cardinality(Carrying(r))
        BY <3>1 DEF Tallied
      <4>2. CASE sent'[r] = sent[r] /\ inbox'[r] = inbox[r]
        BY <4>1, <4>2
      <4>3. CASE sent'[r] = sent[r] + 1 /\ Len(inbox'[r]) = Len(inbox[r]) + 1
        BY <3>6, <4>1, <4>3
      <4> QED
        BY <2>2, <4>2, <4>3 DEF Sends
    <3> QED
      BY <3>1, <3>2, <3>4, <3>5, <3>7 DEF Tallied
  <2> QED
    BY <2>3 DEF SignalInv
<1> QED
  BY <1>1, <1>2

(* A signal sent is in the inbox, carried by one executor or recorded by    *)
(* one wait, unless its executor ended with it, the statement that took or  *)
(* recorded it failed, or a timeout passed.                                 *)
THEOREM SignalsAreKept == Spec => []SignalsKept
<1>1. Init => SignalInv
  <2> SUFFICES ASSUME Init, NEW r \in Runs PROVE Tallied(r)
    BY DEF SignalInv
  <2>1. Waits(r) = {} /\ Carrying(r) = {} /\ sent[r] = 0 /\ inbox[r] = <<>>
    BY DEF Init, Waits, Carrying, At, NoRow, Idle
  <2>2. \A w \in Workers : exec[w][r].pc # "skip"
    BY DEF Init, Idle
  <2> QED
    BY <2>1, <2>2, FS_EmptySet, EmptySeq DEF Tallied
<1>2. SignalInv => SignalsKept
  BY DEF SignalInv, Tallied, SignalsKept
<1> QED
  BY <1>1, <1>2, SignalStep, SoundAlways, PTL DEF Spec

-----------------------------------------------------------------------------
(* No run is stranded: an executor leaves a run that is not over only when   *)
(* a row is left that a tick will reclaim or revive, unless it ends between  *)
(* two rows or its failing cannot be written.                                *)

Active(r) == \E k \in Keys : row[r][k].st \in {"pending", "running"}
Lively(r) ==
    /\ run[r] = "none" => \A w \in Workers : exec[w][r] = Idle
    /\ (\E k \in Keys : row[r][k].st = "failed") =>
           run[r] \in Terminal \/ \E w \in Workers : exec[w][r].pc \in {"fail", "cancel"}
    /\ \A w \in Workers : exec[w][r].pc = "claim" => Row(w, r).st \notin {"none", "completed"}
    /\ \A w \in Workers : exec[w][r].pc \in Held => Row(w, r).st \in {"pending", "running"}
    /\ \A w \in Workers : exec[w][r].pc = "requeue" => Active(r)
    /\ \A w \in Workers : exec[w][r].pc = "leave" /\ run[r] \in {"pending", "running"} => Active(r)
    /\ run[r] = "running" /\ (\A w \in Workers : exec[w][r] = Idle) => Active(r)
LivelyInv == \A r \in Runs \ (adrift \cup contested \cup cancelled) : Lively(r)

LEMMA ExecutingLively ==
    ASSUME TypeInv, NEW w \in Workers, NEW r \in Runs, Executing(w, r), Alone(r), Settled(r), Lively(r),
           r \notin adrift'
    PROVE  Lively(r)'
<1> USE DEF Here, db, leadership, At, AtStep, Held, Beating
<1> DEFINE s == exec[w][r].st
           k == Key(w, r)
<1>1. /\ exec[w][r] \in ExecType /\ s \in States /\ exec[w][r].out \in Entries
      /\ exec[w][r].pc \in AtStep => k \in Keys /\ Row(w, r) \in RowType /\ Row(w, r) = row[r][k]
  BY ExecFacts DEF Row
<1>2. /\ \A v \in Workers \ {w} : exec'[v][r] = exec[v][r]
      /\ \A j \in Keys : j # k => row'[r][j] = row[r][j]
  BY ExecutingFrame
<1>3. /\ exec \in [Workers -> [Runs -> ExecType]] /\ row \in [Runs -> [Keys -> RowType]]
      /\ run \in [Runs -> RunStatus]
  BY DEF TypeInv, TypeOK
<1>4. exec[w][r].pc # "idle"
  <2>1. Failing(w, r) => exec[w][r].pc # "idle"
    BY FailingFacts
  <2> QED
    BY <2>1 DEF Executing, Execute, Upsert, Claim, ClaimLost, BodyReturns, BodyRaises, ConsumeSignal, Complete, Save,
           RecordFailure, Finish, WriteStatus, TaskEnds, Breaks, Heartbeat, Outcome
<1>5. exec[w][r] # Idle /\ \A v \in Workers \ {w} : exec[v][r] = Idle /\ exec'[v][r] = Idle
  BY <1>2, <1>4 DEF Idle, Alone
<1>6. run[r] # "none"
  BY <1>5 DEF Lively
<1>7. \A v \in Workers : v # w => exec'[v][r].pc = "idle" /\ exec[v][r].pc = "idle"
  BY <1>5 DEF Idle
<1>8. exec[w][r].pc \notin {"leave", "fail", "cancel"} =>
        run[r] \notin Terminal /\ \A j \in Keys : row[r][j].st # "failed"
  BY <1>5, <1>7 DEF Settled, Lively
<1>9. ASSUME NEW p, GoTo(w, r, p)
      PROVE  exec'[w][r].pc = p /\ exec'[w][r].st = s
  BY <1>1, <1>3, <1>9 DEF GoTo, ExecType
<1>10. ASSUME NEW x, SetRow(r, k, x), k \in Keys
       PROVE  row'[r][k] = x
  BY <1>3, <1>10 DEF SetRow
(* A step after which the executor is at work. *)
<1>11. ASSUME run' = run, exec[w][r].pc \notin {"leave", "fail", "cancel"},
              exec'[w][r].pc \notin {"idle", "claim", "requeue", "leave"},
              k \in Keys => row'[r][k].st # "failed",
              exec'[w][r].pc \in Held => exec'[w][r].st = s /\ row'[r][k].st \in {"pending", "running"}
       PROVE  Lively(r)'
  <2>1. \A j \in Keys : row'[r][j].st # "failed"
    BY <1>2, <1>8, <1>11
  <2>2. \A v \in Workers : exec'[v][r].pc \notin {"claim", "requeue", "leave"}
    BY <1>7, <1>11
  <2>3. exec'[w][r] # Idle
    BY <1>11 DEF Idle
  <2>4. exec'[w][r].pc \in Held => Row(w, r)'.st \in {"pending", "running"}
    BY <1>11 DEF Row, Key
  <2>5. \A v \in Workers : exec'[v][r].pc \in Held => v = w
    BY <1>7
  <2> QED
    BY <1>6, <1>11, <2>1, <2>2, <2>3, <2>4, <2>5 DEF Lively
<1>12. row' = row =>
         /\ exec[w][r].pc \notin {"leave", "fail", "cancel"} /\ k \in Keys => row'[r][k].st # "failed"
         /\ exec[w][r].pc \in Held => row'[r][k].st \in {"pending", "running"}
  BY <1>1, <1>8 DEF Lively
<1>13. ASSUME NEW o \in Entries, Passed(w, r, o), exec[w][r].pc \in AtStep
       PROVE  exec'[w][r].pc \in {"save", "end", "upsert"}
  <2>1. PICK e \in ExecType : Moves(w, r, e) /\ e.pc \in {"save", "end", "upsert"}
    BY <1>13, PassedMoves
  <2> QED
    BY <1>3, <2>1 DEF Moves
<1>14. CASE Upsert(w, r)
  <2>1. k \in Keys /\ row'[r][k] = Upserted(row[r][k]) /\ Row(w, r) = row[r][k] /\ row[r][k] \in RowType
    BY <1>1, <1>10, <1>14 DEF Upsert
  <2>2. row'[r][k].st = IF row[r][k].st = "none" THEN "pending" ELSE row[r][k].st
    BY <2>1 DEF Upserted, RowType
  <2>3. \A j \in Keys : row'[r][j].st # "failed"
    BY <1>2, <1>8, <1>14, <2>2 DEF Upsert
  <2>4. CASE Row(w, r).st = "completed"
    <3>1. Row(w, r).out \in Entries /\ Passed(w, r, Row(w, r).out)
      BY <1>14, <2>1, <2>4 DEF Upsert, RowType, Entries
    <3>2. exec'[w][r].pc \in {"save", "end", "upsert"}
      BY <1>13, <1>14, <3>1 DEF Upsert
    <3> QED
      BY <1>11, <1>14, <2>3, <3>2 DEF Upsert
  <2>5. CASE Row(w, r).st # "completed"
    <3>1. exec'[w][r].pc = "claim" /\ exec'[w][r].st = s /\ run' = run
      BY <1>9, <1>14, <2>5 DEF Upsert
    <3>2. Row(w, r)' = row'[r][k]
      BY <3>1 DEF Row, Key
    <3>3. Row(w, r)'.st \notin {"none", "completed"}
      BY <2>1, <2>2, <2>5, <3>2
    <3>4. \A v \in Workers : /\ exec'[v][r].pc \notin {"requeue", "leave"} \cup Held
                             /\ exec'[v][r].pc = "claim" => v = w
      BY <1>7, <3>1
    <3>5. exec'[w][r] # Idle
      BY <3>1 DEF Idle
    <3> QED
      BY <1>6, <2>3, <3>1, <3>3, <3>4, <3>5 DEF Lively
  <2> QED
    BY <2>4, <2>5
<1>15. CASE Claim(w, r)
  <2>1. k \in Keys /\ row'[r][k] = Claimed(row[r][k]) /\ row[r][k] \in RowType
    BY <1>1, <1>10, <1>15 DEF Claim
  <2>2. row'[r][k].st = "running"
    BY <2>1 DEF Claimed, RowType
  <2>3. exec'[w][r].pc \in {"body", "skip"} /\ exec'[w][r].st = s
    BY <1>9, <1>15 DEF Claim
  <2> QED
    BY <1>11, <1>15, <2>2, <2>3 DEF Claim
<1>16. CASE ClaimLost(w, r)
  <2>1. exec'[w][r].pc = "leave" /\ exec[w][r].pc = "claim" /\ row' = row /\ run' = run
    BY <1>9, <1>16 DEF ClaimLost
  <2>2. k \in Keys /\ Row(w, r) = row[r][k] /\ row[r][k] \in RowType
    BY <1>1, <2>1
  <2>3. row[r][k].st \notin {"none", "completed", "pending"}
    BY <1>16, <2>1, <2>2 DEF Lively, ClaimLost, Claimable
  <2>4. row[r][k].st = "running"
    BY <1>8, <2>1, <2>2, <2>3 DEF RowType
  <2>5. Active(r)'
    BY <2>1, <2>2, <2>4 DEF Active
  <2>6. \A j \in Keys : row'[r][j].st # "failed"
    BY <1>8, <2>1
  <2>7. \A v \in Workers : exec'[v][r].pc \notin {"claim"} \cup Held
    BY <1>7, <2>1
  <2> QED
    BY <1>6, <2>1, <2>5, <2>6, <2>7 DEF Lively
<1>17. CASE BodyRaises(w, r)
  <2>1. exec'[w][r].pc \in {"abort", "final", "retry"} /\ exec'[w][r].st = s
    BY <1>9, <1>17 DEF BodyRaises
  <2> QED
    BY <1>11, <1>12, <1>17, <2>1 DEF BodyRaises
<1>18. ASSUME NEW o, exec' = [exec EXCEPT ![w][r].pc = "done", ![w][r].out = o]
       PROVE  exec'[w][r].pc = "done" /\ exec'[w][r].st = s
  BY <1>1, <1>3, <1>18 DEF ExecType
<1>19. CASE (\E o \in Outputs : BodyReturns(w, r, o)) \/ ConsumeSignal(w, r)
  <2>1. /\ exec'[w][r].pc = "done" /\ exec'[w][r].st = s
        /\ exec[w][r].pc = "body" /\ row' = row /\ run' = run
    BY <1>18, <1>19 DEF BodyReturns, ConsumeSignal
  <2> QED
    BY <1>11, <1>12, <2>1
<1>20. CASE Complete(w, r)
  <2>1. k \in Keys /\ row'[r][k] = Completed(row[r][k], exec[w][r].out) /\ row[r][k] \in RowType
    BY <1>1, <1>10, <1>20 DEF Complete
  <2>2. row'[r][k].st = "completed"
    BY <2>1 DEF Completed, RowType
  <2>3. exec'[w][r].pc \in {"save", "end", "upsert"}
    BY <1>1, <1>13, <1>20 DEF Complete
  <2> QED
    BY <1>11, <1>20, <2>2, <2>3 DEF Complete
<1>21. CASE Save(w, r)
  <2>1. exec'[w][r].pc \in {"end", "upsert"}
    BY <1>9, <1>21 DEF Save
  <2> QED
    BY <1>11, <1>12, <1>21, <2>1 DEF Save
<1>22. CASE RecordFailure(w, r)
  <2>1. PICK p \in {<<"retry", "requeue">>, <<"final", "fail">>, <<"abort", "cancel">>} :
            /\ At(w, r, p[1])
            /\ SetRow(r, Key(w, r), Failed(Row(w, r), p[1] # "retry"))
            /\ GoTo(w, r, p[2])
            /\ UNCHANGED <<run, output, Here>>
    BY <1>22 DEF RecordFailure
  <2>2. exec[w][r].pc \in {"retry", "final", "abort"} /\ k \in Keys /\ row[r][k] \in RowType
        /\ row'[r][k] = Failed(row[r][k], p[1] # "retry") /\ run' = run
    BY <1>1, <1>10, <2>1
  <2>3. CASE p[1] = "retry"
    <3>1. row'[r][k].st = "pending"
      BY <2>2, <2>3 DEF Failed, RowType
    <3>2. exec'[w][r].pc = "requeue"
      BY <1>9, <2>1, <2>3
    <3>3. Active(r)'
      BY <2>2, <3>1 DEF Active
    <3>4. \A j \in Keys : row'[r][j].st # "failed"
      BY <1>2, <1>8, <2>2, <3>1
    <3>5. \A v \in Workers : exec'[v][r].pc \notin {"claim"} \cup Held
      BY <1>7, <3>2
    <3> QED
      BY <1>6, <2>2, <3>3, <3>4, <3>5 DEF Lively
  <2>4. CASE p[1] # "retry"
    <3>1. exec'[w][r].pc \in {"fail", "cancel"}
      BY <1>9, <2>1, <2>4
    <3>2. \A v \in Workers : exec'[v][r].pc \notin {"claim", "requeue", "leave"} \cup Held
      BY <1>7, <3>1
    <3>3. exec'[w][r] # Idle
      BY <3>1 DEF Idle
    <3> QED
      BY <1>6, <2>2, <3>1, <3>2, <3>3 DEF Lively
  <2> QED
    BY <2>3, <2>4
<1>23. CASE Finish(w, r)
  <2>1. exec[w][r].pc \in {"end", "fail", "cancel", "requeue"} /\ row' = row /\ exec'[w][r].pc = "leave"
    BY <1>9, <1>23 DEF Finish, WriteStatus, Outcome
  <2>2. run'[r] = Outcome[exec[w][r].pc]
    BY <1>3, <1>23 DEF Finish, WriteStatus, SetRun
  <2>3. \A v \in Workers : exec'[v][r].pc \notin {"claim", "requeue"} \cup Held
    BY <1>7, <2>1
  <2>4. exec'[w][r] # Idle
    BY <2>1 DEF Idle
  <2>5. CASE exec[w][r].pc = "requeue"
    <3>1. run'[r] = "pending"
      BY <2>2, <2>5 DEF Outcome
    <3>2. Active(r)'
      BY <2>1, <2>5 DEF Lively, Active
    <3>3. \A j \in Keys : row'[r][j].st # "failed"
      BY <1>8, <2>1, <2>5
    <3> QED
      BY <2>3, <2>4, <3>1, <3>2, <3>3 DEF Lively
  <2>6. CASE exec[w][r].pc \in {"end", "fail", "cancel"}
    <3>1. run'[r] \in {"completed", "failed", "cancelled"}
      BY <2>2, <2>6 DEF Outcome
    <3> QED
      BY <2>3, <3>1 DEF Lively, Terminal
  <2> QED
    BY <2>1, <2>5, <2>6
<1>24. CASE TaskEnds(w, r)
  <2>1. exec'[w][r] = Idle /\ exec[w][r].pc = "leave" /\ row' = row /\ run' = run
    BY <1>3, <1>24 DEF TaskEnds
  <2>2. \A v \in Workers : exec'[v][r].pc = "idle" /\ exec'[v][r].pc \notin Held /\ exec'[v][r] = Idle
    BY <1>5, <1>7, <2>1 DEF Idle
  <2>3. run[r] = "running" => Active(r)'
    BY <2>1 DEF Lively, Active
  <2>4. \A v \in Workers : exec[v][r].pc \notin {"fail", "cancel"}
    BY <1>7, <2>1
  <2>5. (\E j \in Keys : row'[r][j].st = "failed") => run'[r] \in Terminal
    BY <2>1, <2>4 DEF Lively
  <2> QED
    BY <1>6, <2>1, <2>2, <2>3, <2>5 DEF Lively
<1>25. CASE Heartbeat(w, r)
  <2>1. k \in Keys /\ row'[r][k] = [row[r][k] EXCEPT !.beat = TRUE] /\ row[r][k] \in RowType /\ exec[w][r].pc \in Beating
    BY <1>1, <1>10, <1>25 DEF Heartbeat
  <2>2. row'[r][k].st = row[r][k].st
    BY <2>1 DEF RowType
  <2>3. row[r][k].st \in {"pending", "running"}
    BY <1>1, <2>1 DEF Lively
  <2> QED
    BY <1>8, <1>11, <1>25, <2>1, <2>2, <2>3 DEF Heartbeat
(* The run is to be failed. *)
<1>26. ASSUME run'[r] # "none", exec'[w][r].pc = "fail"
       PROVE  Lively(r)'
  <2>1. \A v \in Workers : exec'[v][r].pc \notin {"claim", "requeue", "leave"} \cup Held
    BY <1>7, <1>26
  <2>2. exec'[w][r] # Idle
    BY <1>26 DEF Idle
  <2> QED
    BY <1>26, <2>1, <2>2 DEF Lively
<1>27. CASE Breaks(w, r)
  <2>1. run' = run /\ exec'[w][r].pc = "fail"
    BY <1>9, <1>27 DEF Breaks
  <2> QED
    BY <1>6, <1>26, <2>1
<1>28. CASE Failing(w, r)
  <2>1. WriteStatus(w, r) => exec[w][r].pc \in {"end", "fail", "cancel", "requeue"} /\ run'[r] = Outcome[exec[w][r].pc]
    BY <1>3 DEF WriteStatus, SetRun, Outcome
  <2>2. run' = run \/ WriteStatus(w, r)
    BY <1>28, FailingFacts
  <2>3. run'[r] # "none"
    BY <1>6, <2>1, <2>2 DEF Outcome
  <2>4. CASE exec'[w][r].pc = "fail"
    BY <1>26, <2>3, <2>4
  <2>5. CASE exec'[w][r].pc = "leave"
    <3>1. \A v \in Workers : exec'[v][r].pc \notin {"claim", "requeue"} \cup Held
      BY <1>7, <2>5
    <3>2. exec'[w][r] # Idle
      BY <2>5 DEF Idle
    <3>3. row' = row /\ (exec[w][r].pc = "requeue" \/ (exec[w][r].pc \in {"fail", "cancel"} /\ WriteStatus(w, r)))
      BY <1>28, <2>5, FailingFacts
    <3>4. CASE exec[w][r].pc = "requeue"
      <4>1. Active(r)' /\ \A j \in Keys : row'[r][j].st # "failed"
        BY <1>8, <3>3, <3>4 DEF Lively, Active
      <4> QED
        BY <2>3, <3>1, <3>2, <4>1 DEF Lively
    <3>5. CASE exec[w][r].pc \in {"fail", "cancel"} /\ WriteStatus(w, r)
      <4>1. run'[r] \in {"failed", "cancelled"}
        BY <2>1, <3>5 DEF Outcome
      <4> QED
        BY <3>1, <3>2, <4>1 DEF Lively, Terminal
    <3> QED
      BY <3>3, <3>4, <3>5
  <2> QED
    BY <1>28, <2>4, <2>5, FailingFacts
<1> QED
  BY <1>14, <1>15, <1>16, <1>17, <1>19, <1>20, <1>21, <1>22, <1>23, <1>24, <1>25, <1>27, <1>28 DEF Executing, Execute

(* What a step of anything else may do to the status of a run, to a row and  *)
(* to an executor.                                                           *)
Turns(r) ==
    \/ run'[r] = run[r]
    \/ run[r] = "none" /\ run'[r] = "pending"
    \/ run[r] = "running" /\ run'[r] = "pending"
    \/ run[r] = "pending" /\ run'[r] = "running" /\ \E w \in Workers : exec'[w][r] # Idle
    \/ r \in adrift'
SameUse(r) == \A k \in Keys : row'[r][k].st = row[r][k].st \/ {row'[r][k].st, row[r][k].st} \subseteq {"pending", "running"}

Works(v, r) ==
    \/ exec'[v][r] = exec[v][r]
    \/ exec[v][r].pc \notin Unrecorded /\ exec'[v][r] = Idle
    \/ exec[v][r] = Idle /\ exec'[v][r] = Dispatched /\ run[r] = "pending"

LEMMA OtherLively ==
    ASSUME TypeInv, [Next]_vars, \A w \in Workers, r \in Runs : ~Executing(w, r)
    PROVE  /\ adrift \subseteq adrift'
           /\ \A r \in Runs \ cancelled' : Turns(r)
           /\ \A r \in Runs : SameUse(r)
           /\ \A r \in Runs \ adrift', v \in Workers : Works(v, r)
<1> USE DEF db, leadership
<1> DEFINE Goal == /\ adrift \subseteq adrift'
                   /\ \A r \in Runs \ cancelled' : Turns(r)
                   /\ \A r \in Runs : SameUse(r)
                   /\ \A r \in Runs \ adrift', v \in Workers : Works(v, r)
           Calm == exec' = exec /\ adrift' = adrift
<1>1. /\ exec \in [Workers -> [Runs -> ExecType]] /\ run \in [Runs -> RunStatus]
      /\ row \in [Runs -> [Keys -> RowType]]
  BY DEF TypeInv, TypeOK
<1>2. row' = row => \A r \in Runs : SameUse(r)
  BY DEF SameUse
<1>3. run' = run => \A r \in Runs : Turns(r)
  BY DEF Turns
<1>4. Calm => adrift \subseteq adrift' /\ \A r \in Runs, v \in Workers : Works(v, r)
  BY DEF Works
<1>5. ASSUME NEW r \in Runs, Client(r)
      PROVE  Goal
  <2>1. row' = row /\ Calm
    BY <1>5 DEF Client, Submit, Cancel, Send
  <2>2. \A q \in Runs \ cancelled' : Turns(q)
    BY <1>1, <1>3, <1>5 DEF Client, Submit, Cancel, Send, SetRun, Turns
  <2> QED
    BY <1>2, <1>4, <2>1, <2>2
<1>6. ASSUME NEW w \in Workers, Cut(w), run' = run, row' = row
      PROVE  Goal
  <2>1. adrift \subseteq adrift'
    BY <1>6 DEF Cut
  <2>2. \A r \in Runs \ adrift', v \in Workers : Works(v, r)
    BY <1>1, <1>6 DEF Cut, Works
  <2> QED
    BY <1>2, <1>3, <1>6, <2>1, <2>2
<1>7. ASSUME NEW w \in Workers, Drive(w)
      PROVE  Goal
  <2>1. CASE Start(w) \/ Compete(w)
    BY <1>2, <1>3, <1>4, <2>1 DEF Start, Compete
  <2>2. CASE Reclaim(w)
    <3>1. ASSUME NEW r \in Runs, NEW k \in Keys
          PROVE  row'[r][k] = row[r][k] \/ (row[r][k].st = "running" /\ row'[r][k].st = "pending")
      <4>1. row'[r][k] = IF Stale(row[r][k]) THEN Reclaimed(row[r][k]) ELSE row[r][k]
        BY <2>2 DEF Reclaim
      <4>2. row[r][k] \in RowType
        BY <1>1
      <4> QED
        BY <4>1, <4>2 DEF Stale, Reclaimed, RowType
    <3>2. \A r \in Runs : SameUse(r)
      BY <3>1 DEF SameUse
    <3>3. run' = run /\ Calm
      BY <2>2 DEF Reclaim
    <3> QED
      BY <1>3, <1>4, <3>2, <3>3
  <2>3. CASE Revive(w)
    <3>1. \A r \in Runs : run'[r] = run[r] \/ (run[r] = "running" /\ run'[r] = "pending")
      BY <2>3 DEF Revive
    <3>2. row' = row /\ Calm /\ \A r \in Runs : Turns(r)
      BY <2>3, <3>1 DEF Revive, Turns
    <3> QED
      BY <1>2, <1>4, <3>2
  <2>4. CASE ClaimRuns(w)
    <3>1. ASSUME NEW r \in Runs
          PROVE  Turns(r)
      <4>1. run[r] # "pending" => run'[r] = run[r]
        BY <2>4 DEF ClaimRuns
      <4>2. run[r] = "pending" => run'[r] = "running" /\ exec'[w][r] # Idle
        BY <1>1, <2>4 DEF ClaimRuns, Idle
      <4> QED
        BY <4>1, <4>2 DEF Turns
    <3>2. \A v \in Workers, r \in Runs : Works(v, r)
      BY <1>1, <2>4 DEF ClaimRuns, Works, Dispatched
    <3>3. row' = row /\ adrift' = adrift
      BY <2>4 DEF ClaimRuns
    <3> QED
      BY <1>2, <3>1, <3>2, <3>3
  <2>5. CASE Drained(w)
    BY <1>6, <2>5 DEF Drained
  <2> QED
    BY <1>7, <2>1, <2>2, <2>3, <2>4, <2>5 DEF Drive, Tick
<1>8. ASSUME NEW w \in Workers, Fault(w)
      PROVE  Goal
  <2>1. CASE DropLock(w) \/ Stop(w)
    BY <1>2, <1>3, <1>4, <2>1 DEF DropLock, Stop
  <2>2. CASE Kill(w)
    BY <1>6, <2>2 DEF Kill
  <2>3. CASE TickFails(w)
    <3>1. \A r \in Runs : Turns(r)
      BY <2>3 DEF TickFails, Turns
    <3>2. row' = row /\ exec' = exec /\ adrift \subseteq adrift'
      BY <2>3 DEF TickFails
    <3>3. \A r \in Runs, v \in Workers : Works(v, r)
      BY <3>2 DEF Works
    <3> QED
      BY <1>2, <3>1, <3>2, <3>3
  <2> QED
    BY <1>8, <2>1, <2>2, <2>3 DEF Fault
<1>9. CASE Time
  <2>1. PICK r \in Runs, j \in Keys : Silence(r, j) \/ Lapse(r, j) \/ FallDue(r, j)
    BY <1>9 DEF Time
  <2>2. run' = run /\ Calm
    BY <2>1 DEF Silence, Lapse, FallDue, Here
  <2>3. \A q \in Runs, k \in Keys : row'[q][k].st = row[q][k].st
    BY <2>1, ClockRows
  <2>4. \A q \in Runs : SameUse(q)
    BY <2>3 DEF SameUse
  <2> QED
    BY <1>3, <1>4, <2>2, <2>4
<1>10. CASE UNCHANGED vars
  BY <1>2, <1>3, <1>4, <1>10 DEF vars
<1> QED
  BY <1>5, <1>7, <1>8, <1>9, <1>10 DEF Next, Executing

LEMMA LivelyStep == TypeInv /\ FinalInv /\ LivelyInv /\ [Next]_vars => LivelyInv'
<1> SUFFICES ASSUME TypeInv, FinalInv, LivelyInv, [Next]_vars PROVE LivelyInv'
  OBVIOUS
<1>1. ASSUME NEW w \in Workers, NEW r \in Runs, Executing(w, r)
      PROVE  LivelyInv'
  <2>1. /\ cancelled' = cancelled /\ contested' = contested /\ LeavesOthers(adrift, r)
        /\ \A v \in Workers, q \in Runs : q # r => exec'[v][q] = exec[v][q]
        /\ \A q \in Runs \ {r} : run'[q] = run[q] /\ row'[q] = row[q]
    BY <1>1, ExecutingFrame
  <2>2. ASSUME NEW q \in Runs \ (adrift \cup contested \cup cancelled), q # r
        PROVE  Lively(q)'
    <3>1. Lively(q) /\ run'[q] = run[q] /\ row'[q] = row[q] /\ \A v \in Workers : exec'[v][q] = exec[v][q]
      BY <2>1, <2>2 DEF LivelyInv
    <3>2. Active(q)' <=> Active(q)
      BY <3>1 DEF Active
    <3>3. \A v \in Workers : Row(v, q)' = Row(v, q)
      BY <3>1 DEF Row, Key
    <3> QED
      BY <3>1, <3>2, <3>3 DEF Lively
  <2>3. r \notin adrift' \cup contested \cup cancelled => Lively(r)'
    BY <1>1, <2>1, ExecutingLively DEF FinalInv, LivelyInv, LeavesOthers
  <2> QED
    BY <2>1, <2>2, <2>3 DEF LivelyInv, LeavesOthers
<1>2. CASE \A w \in Workers, r \in Runs : ~Executing(w, r)
  <2>1. /\ contested \subseteq contested' /\ cancelled \subseteq cancelled'
        /\ \A r \in Runs \ cancelled' : run[r] \in Terminal => run'[r] = run[r]
    BY <1>2, OtherFinal
  <2>2. /\ adrift \subseteq adrift'
        /\ \A r \in Runs \ cancelled' : Turns(r)
        /\ \A r \in Runs : SameUse(r)
        /\ \A r \in Runs \ adrift', v \in Workers : Works(v, r)
    BY <1>2, OtherLively
  <2>3. ASSUME NEW r \in Runs \ (adrift' \cup contested' \cup cancelled')
        PROVE  Lively(r)'
    <3>1. Lively(r) /\ Turns(r) /\ SameUse(r) /\ Alone(r) /\ Settled(r)
      BY <2>1, <2>2 DEF LivelyInv, FinalInv
    <3>2. ASSUME NEW v \in Workers
          PROVE  \/ exec'[v][r] = exec[v][r]
                 \/ exec[v][r].pc \notin Unrecorded /\ exec'[v][r] = Idle /\ exec'[v][r].pc = "idle"
                 \/ exec[v][r] = Idle /\ exec'[v][r] # Idle /\ exec'[v][r].pc = "upsert" /\ run[r] = "pending"
      <4>1. Idle.pc = "idle" /\ Dispatched.pc = "upsert" /\ Dispatched # Idle
        BY DEF Idle, Dispatched
      <4> QED
        BY <2>2, <4>1 DEF Works
    (* No row is failed while an executor is elsewhere. *)
    <3>10. ASSUME NEW v \in Workers, exec[v][r].pc \in {"claim"} \cup Held
           PROVE  Active(r)
      <4>1. Key(v, r) \in Keys /\ Row(v, r) = row[r][Key(v, r)] /\ Row(v, r) \in RowType
        BY <3>10, ExecFacts DEF AtStep, Held, Beating, Row
      <4>2. Row(v, r).st \in {"pending", "running"} \/ (exec[v][r].pc = "claim" /\ Row(v, r).st = "failed")
        BY <3>1, <3>10, <4>1 DEF Lively, RowType
      <4>3. CASE exec[v][r].pc = "claim" /\ Row(v, r).st = "failed"
        <5>1. exec[v][r] # Idle
          BY <4>3 DEF Idle
        <5>2. \A w \in Workers : w # v => exec[w][r].pc = "idle"
          BY <3>1, <5>1 DEF Alone, Idle
        <5>3. run[r] \in Terminal
          BY <3>1, <4>1, <4>3, <5>2 DEF Lively
        <5> QED
          BY <3>1, <4>3, <5>1, <5>3 DEF Settled
      <4> QED
        BY <4>1, <4>2, <4>3 DEF Active
    <3>3. Active(r) => Active(r)'
      BY <3>1 DEF Active, SameUse
    <3>4. run'[r] = "none" => \A w \in Workers : exec'[w][r] = Idle
      BY <3>1, <3>2 DEF Lively, Turns
    <3>5. ASSUME \E k \in Keys : row'[r][k].st = "failed"
          PROVE  run'[r] \in Terminal \/ \E w \in Workers : exec'[w][r].pc \in {"fail", "cancel"}
      <4>1. \E k \in Keys : row[r][k].st = "failed"
        BY <3>1, <3>5 DEF SameUse
      <4>2. run[r] \in Terminal \/ \E w \in Workers : exec[w][r].pc \in {"fail", "cancel"}
        BY <3>1, <4>1 DEF Lively
      <4> QED
        BY <2>1, <3>2, <4>2 DEF Unrecorded, Idle
    <3>6. ASSUME NEW w \in Workers, exec'[w][r].pc = "claim"
          PROVE  Row(w, r)'.st \notin {"none", "completed"}
      <4>1. exec'[w][r] = exec[w][r] /\ exec[w][r].pc = "claim"
        BY <3>2, <3>6
      <4>2. Key(w, r) \in Keys
        BY <4>1, ExecFacts DEF AtStep
      <4>3. Row(w, r)' = row'[r][Key(w, r)] /\ Row(w, r) = row[r][Key(w, r)]
        BY <4>1 DEF Row, Key
      <4>4. Row(w, r).st \notin {"none", "completed"}
        BY <3>1, <4>1 DEF Lively
      <4> QED
        BY <3>1, <4>2, <4>3, <4>4 DEF SameUse
    <3>7. ASSUME NEW w \in Workers, exec'[w][r].pc = "requeue"
          PROVE  Active(r)'
      BY <3>1, <3>2, <3>3, <3>7 DEF Lively
    <3>11. ASSUME NEW w \in Workers, exec'[w][r].pc \in Held
           PROVE  Row(w, r)'.st \in {"pending", "running"}
      <4>1. exec'[w][r] = exec[w][r] /\ exec[w][r].pc \in Held
        BY <3>2, <3>11 DEF Held, Beating
      <4>2. Key(w, r) \in Keys
        BY <4>1, ExecFacts DEF AtStep
      <4>3. Row(w, r)' = row'[r][Key(w, r)] /\ Row(w, r) = row[r][Key(w, r)]
        BY <4>1 DEF Row, Key
      <4>4. Row(w, r).st \in {"pending", "running"}
        BY <3>1, <4>1 DEF Lively
      <4> QED
        BY <3>1, <4>2, <4>3, <4>4 DEF SameUse
    <3>8. ASSUME NEW w \in Workers, exec'[w][r].pc = "leave", run'[r] \in {"pending", "running"}
          PROVE  Active(r)'
      <4>1. exec[w][r].pc = "leave"
        BY <3>2, <3>8
      <4>2. run[r] # "none"
        BY <3>1, <4>1 DEF Lively, Idle
      <4>3. run[r] \in {"pending", "running"}
        BY <3>1, <3>8, <4>2 DEF Turns
      <4> QED
        BY <3>1, <3>3, <4>1, <4>3 DEF Lively
    <3>9. ASSUME run'[r] = "running", \A w \in Workers : exec'[w][r] = Idle
          PROVE  Active(r)'
      <4>1. run[r] = "running"
        BY <3>1, <3>9 DEF Turns
      <4>2. CASE \A w \in Workers : exec[w][r] = Idle
        BY <3>1, <3>3, <4>1, <4>2 DEF Lively
      <4>3. ASSUME NEW w \in Workers, exec[w][r] # Idle
            PROVE  Active(r)'
        <5>1. exec[w][r].pc \notin Unrecorded
          BY <3>2, <3>9, <4>3
        <5>2. exec[w][r] \in ExecType /\ exec[w][r].pc # "idle"
          BY <4>3 DEF TypeInv, TypeOK, Placed
        <5>3. exec[w][r].pc \in {"idle", "claim", "requeue", "leave"} \cup Held
          BY <5>1, <5>2 DEF ExecType, PC, Unrecorded
        <5>5. exec[w][r].pc \in {"requeue", "leave"} => Active(r)
          BY <3>1, <4>1 DEF Lively
        <5> QED
          BY <3>3, <3>10, <5>2, <5>3, <5>5
      <4> QED
        BY <4>2, <4>3
    <3> QED
      BY <3>4, <3>5, <3>6, <3>7, <3>11, <3>8, <3>9 DEF Lively
  <2> QED
    BY <2>3 DEF LivelyInv
<1> QED
  BY <1>1, <1>2

(* A run is stranded only when its executor ended between two rows, when    *)
(* its failing could not be written, or by a second executor or a cancel: a *)
(* death, or a statement that fails, anywhere else is recovered from.       *)
THEOREM StrandedOnlyBetweenRows == Spec => []StrandedBetweenRows
<1>1. Init => LivelyInv
  <2> SUFFICES ASSUME Init, NEW r \in Runs PROVE Lively(r)
    BY DEF LivelyInv
  <2>1. run[r] = "none" /\ (\A w \in Workers : exec[w][r] = Idle) /\ (\A k \in Keys : row[r][k].st = "none")
    BY DEF Init, NoRow
  <2>2. \A w \in Workers : exec[w][r].pc = "idle"
    BY <2>1 DEF Idle
  <2> QED
    BY <2>1, <2>2 DEF Lively, Held, Beating
<1>2. LivelyInv => StrandedBetweenRows
  BY DEF LivelyInv, Lively, Active, Stranded, StrandedBetweenRows, Idle
<1> QED
  BY <1>1, <1>2, LivelyStep, FinalAlways, PTL DEF Spec
=============================================================================
