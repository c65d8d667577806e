-------------------------------- MODULE Flow --------------------------------
(***************************************************************************)
(* The durable workflow engine (src/backlog/core/flow: runtime/driver.py,  *)
(* runtime/replay.py, persist/steps.py, persist/runs.py,                   *)
(* persist/signals.py, flow.py).                                           *)
(*                                                                         *)
(* Runs and their step rows live in Postgres; each action below is one     *)
(* committed transaction or one event in a process.  Workers compete for   *)
(* an advisory lock, the leader's tick moves rows, and executors (one task *)
(* per run and worker) replay a run from its input, row by row.  A step    *)
(* row is found by its place and, for a node, by the state that reached    *)
(* it: two executors whose states differ write different rows.             *)
(***************************************************************************)
EXTENDS Naturals, Sequences, FiniteSets

CONSTANTS
    Workers,      \* processes that start the driver
    Runs,         \* workflow runs; fewer than the ten a tick claims
    Plan,         \* the steps of the workflow: "node" or "wait"
    Outputs,      \* what a node's body returns, and what a signal carries
    Skipped,      \* the output of a node that was skipped
    NoOne,        \* no worker
    MaxAttempts,  \* node_def.max_attempts
    MaxSignals,   \* bound: signals sent to a run
    MaxFaults     \* bound: processes that end, connections that drop, statements that fail,
                  \* timeouts missed, runs cancelled

ASSUME PlanAssumption == Plan \in Seq({"node", "wait"}) /\ Plan # <<>>
ASSUME AttemptsAssumption == MaxAttempts \in Nat \ {0}
ASSUME WorkersAssumption == IsFiniteSet(Workers)
ASSUME NamesAssumption == NoOne \notin Workers /\ Skipped \notin Outputs

VARIABLES
    run,        \* status of each run's row
    output,     \* its output column
    row,        \* the step rows of each run
    inbox,      \* signals of each run not consumed yet
    sent,       \* signals sent to each run
    lock,       \* the worker whose session holds the leader lock
    driver,     \* each worker's driver: "off", "standby", "leader", "draining"
    phase,      \* what the tick of a leader does next
    exec,       \* the executor of each worker and run
    lapsed,     \* runs a live executor of which was slower than a timeout
    contested,  \* runs that two workers executed at once
    adrift,     \* runs whose executor ended between two rows, its last write not made
    spilled,    \* runs whose executor ended with a signal it had not recorded
    cancelled,  \* runs an operator cancelled
    faults      \* how many of the bounded events happened

db == <<run, output, row, inbox, sent>>
leadership == <<lock, driver, phase>>
vars == <<db, leadership, exec, lapsed, contested, adrift, spilled, cancelled, faults>>

Places == 1..Len(Plan)
States == UNION {[1..n -> Outputs \cup {Skipped}] : n \in 0..Len(Plan)}
Keys == {x \in Places \X States : IF Plan[x[1]] = "wait" THEN x[2] = <<>> ELSE Len(x[2]) = x[1] - 1}
(* The row an executor meets after the outputs s: signal rows are keyed by place alone. *)
KeyOf(s) == LET k == Len(s) + 1 IN <<k, IF Plan[k] = "wait" THEN <<>> ELSE s>>

Terminal == {"completed", "failed", "cancelled"}
RunStatus == {"none", "pending", "running"} \cup Terminal
Beating == {"body", "done", "retry", "final", "abort"}   \* the heartbeat task of the step lives
Held == Beating \cup {"skip"}                   \* the step was claimed and its outcome is not written yet
PC == {"idle", "upsert", "claim", "save", "requeue", "fail", "cancel", "end", "leave"} \cup Held
Unrecorded == {"upsert", "save", "end", "fail", "cancel"}   \* no row tells that the run goes on

NoRow == [st |-> "none", attempts |-> 0, out |-> Skipped, beat |-> FALSE, due |-> TRUE]
Idle == [pc |-> "idle", st |-> <<>>, out |-> Skipped]

RowType == [st : {"none", "pending", "running", "completed", "failed"}, attempts : Nat,
            out : Outputs \cup {Skipped}, beat : BOOLEAN, due : BOOLEAN]
ExecType == [pc : PC, st : States, out : Outputs \cup {Skipped}]

TypeOK ==
    /\ run \in [Runs -> RunStatus]
    /\ output \in [Runs -> States]
    /\ row \in [Runs -> [Keys -> RowType]]
    /\ inbox \in [Runs -> Seq(Outputs)]
    /\ sent \in [Runs -> Nat]
    /\ lock \in Workers \cup {NoOne}
    /\ driver \in [Workers -> {"off", "standby", "leader", "draining"}]
    /\ phase \in [Workers -> {"reclaim", "revive", "claim"}]
    /\ exec \in [Workers -> [Runs -> ExecType]]
    /\ lapsed \subseteq Runs /\ contested \subseteq Runs /\ cancelled \subseteq Runs
    /\ adrift \subseteq Runs /\ spilled \subseteq Runs
    /\ faults \in Nat

Init ==
    /\ run = [r \in Runs |-> "none"]
    /\ output = [r \in Runs |-> <<>>]
    /\ row = [r \in Runs |-> [k \in Keys |-> NoRow]]
    /\ inbox = [r \in Runs |-> <<>>]
    /\ sent = [r \in Runs |-> 0]
    /\ lock = NoOne
    /\ driver = [w \in Workers |-> "standby"]
    /\ phase = [w \in Workers |-> "reclaim"]
    /\ exec = [w \in Workers |-> [r \in Runs |-> Idle]]
    /\ lapsed = {} /\ contested = {} /\ adrift = {} /\ spilled = {} /\ cancelled = {}
    /\ faults = 0

-----------------------------------------------------------------------------
(* The statements on step rows (persist/steps.py): none but the claim looks *)
(* at who holds the row.                                                    *)

Upserted(x) == IF x.st = "none" THEN [x EXCEPT !.st = "pending"] ELSE x
(* Mutant: no compare-and-swap on the claim. *)
BlindClaim(x) == x.st \in {"pending", "running"}
(* mark_step_running: a compare-and-swap on the status; a retry's deadline is not looked at. *)
Claimable(x) == x.st = "pending"
Claimed(x) == [x EXCEPT !.st = "running", !.attempts = @ + 1, !.beat = TRUE]
Completed(x, o) == [x EXCEPT !.st = "completed", !.out = o]
(* Mutant: a retry recorded as final. *)
FailedForGood(x, final) == [x EXCEPT !.st = "failed", !.due = final]
Failed(x, final) ==
    [x EXCEPT !.st = IF final THEN "failed" ELSE "pending", !.due = final]
Stale(x) == x.st = "running" /\ ~x.beat
Reclaimed(x) == [x EXCEPT !.st = "pending"]
Ready(x) == x.st = "pending" /\ x.due

SetRow(r, k, x) == row' = [row EXCEPT ![r][k] = x]
SetRun(r, s) == run' = [run EXCEPT ![r] = s]

(* A bounded event happens. *)
Faulty == faults < MaxFaults /\ faults' = faults + 1

-----------------------------------------------------------------------------
(* Clients. *)

Submit(r) ==
    /\ run[r] = "none"
    /\ SetRun(r, "pending")
    /\ UNCHANGED <<output, row, inbox, sent, leadership, exec, lapsed, contested, adrift, spilled, cancelled, faults>>

Send(r, o) ==
    /\ run[r] # "none" /\ sent[r] < MaxSignals
    /\ inbox' = [inbox EXCEPT ![r] = Append(@, o)]
    /\ sent' = [sent EXCEPT ![r] = @ + 1]
    /\ UNCHANGED <<run, output, row, leadership, exec, lapsed, contested, adrift, spilled, cancelled, faults>>

(* Flow.cancel writes the status whatever it was, and nothing else. *)
Cancel(r) ==
    /\ run[r] # "none" /\ Faulty
    /\ SetRun(r, "cancelled")
    /\ cancelled' = cancelled \cup {r}
    /\ UNCHANGED <<output, row, inbox, sent, leadership, exec, lapsed, contested, adrift, spilled>>

-----------------------------------------------------------------------------
(* The driver (runtime/driver.py). *)

Start(w) ==
    /\ driver[w] = "off"
    /\ driver' = [driver EXCEPT ![w] = "standby"]
    /\ UNCHANGED <<db, lock, phase, exec, lapsed, contested, adrift, spilled, cancelled, faults>>

Compete(w) ==
    /\ driver[w] = "standby" /\ lock = NoOne
    /\ lock' = w
    /\ driver' = [driver EXCEPT ![w] = "leader"]
    /\ phase' = [phase EXCEPT ![w] = "reclaim"]
    /\ UNCHANGED <<db, exec, lapsed, contested, adrift, spilled, cancelled, faults>>

Leads(w, p) == driver[w] = "leader" /\ phase[w] = p
Advance(w, p) == phase' = [phase EXCEPT ![w] = p]

(* The executors that hold row k of run r, by the claim they made. *)
Holders(r, k) == {w \in Workers : exec[w][r].pc \in Held /\ KeyOf(exec[w][r].st) = k}

Reclaim(w) ==
    /\ Leads(w, "reclaim")
    /\ row' = [r \in Runs |-> [k \in Keys |-> IF Stale(row[r][k]) THEN Reclaimed(row[r][k]) ELSE row[r][k]]]
    /\ lapsed' = lapsed \cup {r \in Runs : \E k \in Keys : Stale(row[r][k]) /\ Holders(r, k) # {}}
    /\ Advance(w, "revive")
    /\ UNCHANGED <<run, output, inbox, sent, lock, driver, exec, contested, adrift, spilled, cancelled, faults>>

(* Mutant: the sweep of running runs left out. *)
NoRevive(w) ==
    /\ Leads(w, "revive")
    /\ Advance(w, "claim")
    /\ UNCHANGED <<db, lock, driver, exec, lapsed, contested, adrift, spilled, cancelled, faults>>

Revive(w) ==
    /\ Leads(w, "revive")
    /\ run' = [r \in Runs |-> IF run[r] = "running" /\ \E k \in Keys : Ready(row[r][k]) THEN "pending" ELSE run[r]]
    /\ Advance(w, "claim")
    /\ UNCHANGED <<output, row, inbox, sent, lock, driver, exec, lapsed, contested, adrift, spilled, cancelled, faults>>

(* Mutant: failed runs are picked up again. *)
ClaimFailedRuns(w) ==
    /\ Leads(w, "claim")
    /\ run' = [r \in Runs |-> IF run[r] \in {"pending", "failed"} THEN "running" ELSE run[r]]
    /\ exec' = [exec EXCEPT ![w] = [r \in Runs |->
                  IF run'[r] # run[r] /\ @[r] = Idle THEN [Idle EXCEPT !.pc = "upsert"] ELSE @[r]]]
    /\ contested' = contested \cup {r \in Runs : \E v \in Workers \ {w} : exec'[w][r] # Idle /\ exec[v][r] # Idle}
    /\ Advance(w, "reclaim")
    /\ UNCHANGED <<output, row, inbox, sent, lock, driver, lapsed, adrift, spilled, cancelled, faults>>

(* A run still in flight in this process is claimed and not dispatched. *)
ClaimRuns(w) ==
    /\ Leads(w, "claim")
    /\ run' = [r \in Runs |-> IF run[r] = "pending" THEN "running" ELSE run[r]]
    /\ exec' = [exec EXCEPT ![w] = [r \in Runs |->
                  IF run[r] = "pending" /\ @[r] = Idle THEN [Idle EXCEPT !.pc = "upsert"] ELSE @[r]]]
    /\ contested' = contested \cup {r \in Runs : \E v \in Workers \ {w} : exec'[w][r] # Idle /\ exec[v][r] # Idle}
    /\ Advance(w, "reclaim")
    /\ UNCHANGED <<output, row, inbox, sent, lock, driver, lapsed, adrift, spilled, cancelled, faults>>

(* A statement of the tick fails, and is logged; the runs that the last one claimed may *)
(* have been claimed all the same, and are not dispatched.                             *)
TickFails(w) ==
    /\ driver[w] = "leader" /\ Faulty
    /\ \/ UNCHANGED <<run, adrift>>
       \/ /\ phase[w] = "claim"
          /\ run' = [r \in Runs |-> IF run[r] = "pending" THEN "running" ELSE run[r]]
          /\ adrift' = adrift \cup {r \in Runs : run[r] = "pending"}
    /\ Advance(w, IF phase[w] = "reclaim" THEN "revive" ELSE "reclaim")
    /\ UNCHANGED <<output, row, inbox, sent, lock, driver, exec, lapsed, contested, spilled, cancelled>>

(* The connection of the leader lock drops: the lock is free, the leader does not notice. *)
DropLock(w) ==
    /\ lock = w /\ Faulty
    /\ lock' = NoOne
    /\ UNCHANGED <<db, driver, phase, exec, lapsed, contested, adrift, spilled, cancelled>>

Leave(w, d) ==
    /\ driver' = [driver EXCEPT ![w] = d]
    /\ lock' = IF lock = w THEN NoOne ELSE lock

At(w, r, p) == exec[w][r].pc = p
Key(w, r) == KeyOf(exec[w][r].st)
Row(w, r) == row[r][Key(w, r)]
Kind(w, r) == Plan[Len(exec[w][r].st) + 1]
GoTo(w, r, p) == exec' = [exec EXCEPT ![w][r].pc = p]
Carrying(r) == {w \in Workers : At(w, r, "done") /\ Kind(w, r) = "wait"}

Cut(w) ==
    /\ exec' = [exec EXCEPT ![w] = [r \in Runs |-> Idle]]
    /\ adrift' = adrift \cup {r \in Runs : exec[w][r].pc \in Unrecorded}
    /\ spilled' = spilled \cup {r \in Runs : w \in Carrying(r)}

Kill(w) ==
    /\ driver[w] # "off" /\ Faulty
    /\ Leave(w, "off") /\ Cut(w)
    /\ UNCHANGED <<db, phase, lapsed, contested, cancelled>>

(* stop_driver: the lock is given back, then the tasks have thirty seconds. *)
Stop(w) ==
    /\ driver[w] \in {"standby", "leader"} /\ Faulty
    /\ Leave(w, "draining")
    /\ UNCHANGED <<db, phase, exec, lapsed, contested, adrift, spilled, cancelled>>

Drained(w) ==
    /\ driver[w] = "draining"
    /\ driver' = [driver EXCEPT ![w] = "off"]
    /\ Cut(w)
    /\ UNCHANGED <<db, lock, phase, lapsed, contested, cancelled, faults>>

-----------------------------------------------------------------------------
(* An executor (runtime/replay.py: execute_graph_run, _dispatch_node and    *)
(* dispatch_wait_signal).                                                   *)

Here == <<inbox, sent, leadership, lapsed, contested, adrift, spilled, cancelled, faults>>

(* What follows the output o: a node's state is saved, a signal's is not, and then END or the next place. *)
Passed(w, r, o) ==
    LET s == Append(exec[w][r].st, o)
        next == IF Len(s) = Len(Plan) THEN "end" ELSE "upsert"
    IN exec' = [exec EXCEPT ![w][r] =
                  [pc |-> IF Kind(w, r) = "wait" THEN next ELSE "save", st |-> s, out |-> Skipped]]

(* The row is found or made; a completed one is replayed. *)
Upsert(w, r) ==
    /\ At(w, r, "upsert")
    /\ SetRow(r, Key(w, r), Upserted(Row(w, r)))
    /\ IF Row(w, r).st = "completed" THEN Passed(w, r, Row(w, r).out) ELSE GoTo(w, r, "claim")
    /\ UNCHANGED <<run, output, Here>>

(* A node whose when_fn is false is claimed too, and its body passed over. *)
Claim(w, r) ==
    /\ At(w, r, "claim") /\ Claimable(Row(w, r))
    /\ SetRow(r, Key(w, r), Claimed(Row(w, r)))
    /\ \E p \in IF Kind(w, r) = "node" THEN {"body", "skip"} ELSE {"body"} : GoTo(w, r, p)
    /\ UNCHANGED <<run, output, Here>>

(* StepClaimLost: the executor ends and writes nothing. *)
ClaimLost(w, r) ==
    /\ At(w, r, "claim") /\ ~Claimable(Row(w, r))
    /\ GoTo(w, r, "leave")
    /\ UNCHANGED <<run, output, row, Here>>

BodyReturns(w, r, o) ==
    /\ At(w, r, "body") /\ Kind(w, r) = "node"
    /\ exec' = [exec EXCEPT ![w][r].pc = "done", ![w][r].out = o]
    /\ UNCHANGED <<run, output, row, Here>>

(* Mutant: off by one. *)
RaisesOnceMore(w, r) ==
    /\ At(w, r, "body") /\ Kind(w, r) = "node"
    /\ GoTo(w, r, IF Row(w, r).attempts > MaxAttempts THEN "final" ELSE "retry")
    /\ UNCHANGED <<run, output, row, Here>>

(* The attempts are read in one transaction and acted on in the next; a body that raises *)
(* WorkflowCancelled is not tried again.                                                *)
BodyRaises(w, r) ==
    /\ At(w, r, "body") /\ Kind(w, r) = "node"
    /\ \E p \in {"abort", IF Row(w, r).attempts >= MaxAttempts THEN "final" ELSE "retry"} : GoTo(w, r, p)
    /\ UNCHANGED <<run, output, row, Here>>

(* Mutant: consumed_at not written. *)
PeekSignal(w, r) ==
    /\ At(w, r, "body") /\ Kind(w, r) = "wait" /\ inbox[r] # <<>>
    /\ exec' = [exec EXCEPT ![w][r].pc = "done", ![w][r].out = Head(inbox[r])]
    /\ UNCHANGED <<run, output, row, Here>>

ConsumeSignal(w, r) ==
    /\ At(w, r, "body") /\ Kind(w, r) = "wait" /\ inbox[r] # <<>>
    /\ inbox' = [inbox EXCEPT ![r] = Tail(@)]
    /\ exec' = [exec EXCEPT ![w][r].pc = "done", ![w][r].out = Head(inbox[r])]
    /\ UNCHANGED <<run, output, row, sent, leadership, lapsed, contested, adrift, spilled, cancelled, faults>>

(* mark_step_completed, or mark_step_skipped after a when_fn that is false. *)
Complete(w, r) ==
    /\ exec[w][r].pc \in {"done", "skip"}
    /\ SetRow(r, Key(w, r), Completed(Row(w, r), exec[w][r].out))
    /\ Passed(w, r, exec[w][r].out)
    /\ UNCHANGED <<run, output, Here>>

Save(w, r) ==
    /\ At(w, r, "save")
    /\ output' = [output EXCEPT ![r] = exec[w][r].st]
    /\ GoTo(w, r, IF Len(exec[w][r].st) = Len(Plan) THEN "end" ELSE "upsert")
    /\ UNCHANGED <<run, row, Here>>

RecordFailure(w, r) ==
    \E p \in {<<"retry", "requeue">>, <<"final", "fail">>, <<"abort", "cancel">>} :
        /\ At(w, r, p[1])
        /\ SetRow(r, Key(w, r), Failed(Row(w, r), p[1] # "retry"))
        /\ GoTo(w, r, p[2])
        /\ UNCHANGED <<run, output, Here>>

(* The workflow is not registered in this process, its graph is stuck, or its router, *)
(* a predicate or a reducer raises.                                                   *)
Breaks(w, r) ==
    /\ \/ exec[w][r].pc \in {"upsert", "save", "end"}
       \/ At(w, r, "claim") /\ Kind(w, r) = "node"
    /\ GoTo(w, r, "fail")
    /\ UNCHANGED <<run, output, row, Here>>

Outcome == [end |-> "completed", fail |-> "failed", cancel |-> "cancelled", requeue |-> "pending"]

(* Mutant: the output left as the last node saved it. *)
FinishWithoutOutput(w, r) ==
    /\ exec[w][r].pc \in DOMAIN Outcome
    /\ SetRun(r, Outcome[exec[w][r].pc])
    /\ GoTo(w, r, "leave")
    /\ UNCHANGED <<output, row, Here>>

(* A status over whatever is there. *)
WriteStatus(w, r) ==
    /\ exec[w][r].pc \in DOMAIN Outcome
    /\ SetRun(r, Outcome[exec[w][r].pc])
    /\ output' = IF At(w, r, "end") THEN [output EXCEPT ![r] = exec[w][r].st] ELSE output

(* The last write of an executor. *)
Finish(w, r) ==
    /\ WriteStatus(w, r)
    /\ GoTo(w, r, "leave")
    /\ UNCHANGED <<row, Here>>

(* The events are written and the task ends: only now is the run no longer in flight. *)
TaskEnds(w, r) ==
    /\ At(w, r, "leave")
    /\ exec' = [exec EXCEPT ![w][r] = Idle]
    /\ UNCHANGED <<db, leadership, lapsed, contested, adrift, spilled, cancelled, faults>>

-----------------------------------------------------------------------------
(* A statement of a live executor fails: before it took effect, after the   *)
(* commit, its answer lost, or with the event that is written next.  The    *)
(* run is to be failed; it ends without a word when that is what failed.    *)

(* One on the step row. *)
Written(w, r) ==
    LET x == Row(w, r)
    IN  CASE At(w, r, "upsert") -> Upserted(x)
          [] At(w, r, "claim") -> IF Claimable(x) THEN Claimed(x) ELSE x
          [] exec[w][r].pc \in {"done", "skip"} -> Completed(x, exec[w][r].out)
          [] OTHER -> Failed(x, ~At(w, r, "retry"))
RowFails(w, r) ==
    /\ exec[w][r].pc \in {"upsert", "claim", "done", "skip", "retry", "final", "abort"} /\ Faulty
    /\ \E x \in {Row(w, r), Written(w, r)} :
           /\ SetRow(r, Key(w, r), x)
           /\ spilled' = IF w \in Carrying(r) /\ x.st # "completed" THEN spilled \cup {r} ELSE spilled
    /\ GoTo(w, r, "fail")
    /\ UNCHANGED <<run, output, inbox, sent, leadership, lapsed, contested, adrift, cancelled>>

(* The attempts read after a body raised, or the signal taken. *)
BodyFails(w, r) ==
    /\ At(w, r, "body") /\ Faulty
    /\ \/ UNCHANGED <<inbox, spilled>>
       \/ /\ Kind(w, r) = "wait" /\ inbox[r] # <<>>
          /\ inbox' = [inbox EXCEPT ![r] = Tail(@)]
          /\ spilled' = spilled \cup {r}
    /\ GoTo(w, r, "fail")
    /\ UNCHANGED <<run, output, row, sent, leadership, lapsed, contested, adrift, cancelled>>

(* One on the run: what fails while another failure is handled ends the task. *)
RunFails(w, r) ==
    /\ exec[w][r].pc \in {"save"} \cup DOMAIN Outcome /\ Faulty
    /\ \/ /\ UNCHANGED <<run, output>>
          /\ adrift' = IF exec[w][r].pc \in {"fail", "cancel"} THEN adrift \cup {r} ELSE adrift
       \/ /\ At(w, r, "save")
          /\ output' = [output EXCEPT ![r] = exec[w][r].st]
          /\ UNCHANGED <<run, adrift>>
       \/ /\ WriteStatus(w, r)
          /\ UNCHANGED adrift
    /\ GoTo(w, r, IF exec[w][r].pc \in {"save", "end"} THEN "fail" ELSE "leave")
    /\ UNCHANGED <<row, inbox, sent, leadership, lapsed, contested, spilled, cancelled>>

(* The run cannot be read: nothing handles that. *)
LoadFails(w, r) ==
    /\ At(w, r, "upsert") /\ exec[w][r].st = <<>> /\ Faulty
    /\ adrift' = adrift \cup {r}
    /\ GoTo(w, r, "leave")
    /\ UNCHANGED <<db, leadership, lapsed, contested, spilled, cancelled>>

-----------------------------------------------------------------------------
(* Time. *)

Heartbeat(w, r) ==
    /\ exec[w][r].pc \in Beating /\ ~Row(w, r).beat
    /\ SetRow(r, Key(w, r), [Row(w, r) EXCEPT !.beat = TRUE])
    /\ UNCHANGED <<run, output, exec, Here>>

(* stale_threshold passes without a heartbeat: nobody beats, or a live executor's beat is late. *)
Fresh(r, k) == row[r][k].st = "running" /\ row[r][k].beat
Silent(r, k) == SetRow(r, k, [row[r][k] EXCEPT !.beat = FALSE])
Silence(r, k) ==
    /\ Fresh(r, k) /\ Holders(r, k) = {}
    /\ Silent(r, k)
    /\ UNCHANGED <<run, output, exec, Here>>

Lapse(r, k) ==
    /\ Fresh(r, k) /\ Holders(r, k) # {} /\ Faulty
    /\ Silent(r, k)
    /\ UNCHANGED <<run, output, inbox, sent, leadership, exec, lapsed, contested, adrift, spilled, cancelled>>

(* next_attempt_at passes: in good time, or before the executor has written the run's status. *)
FallDue(r, k) ==
    /\ row[r][k].st = "pending" /\ ~row[r][k].due
    /\ SetRow(r, k, [row[r][k] EXCEPT !.due = TRUE])
    /\ LET late == \E w \in Workers : At(w, r, "requeue")
       IN /\ IF late THEN Faulty ELSE faults' = faults
          /\ lapsed' = IF late THEN lapsed \cup {r} ELSE lapsed
    /\ UNCHANGED <<run, output, inbox, sent, leadership, exec, contested, adrift, spilled, cancelled>>

Client(r) == Submit(r) \/ Cancel(r) \/ \E o \in Outputs : Send(r, o)
Tick(w) == Reclaim(w) \/ Revive(w) \/ ClaimRuns(w)
Drive(w) == Start(w) \/ Compete(w) \/ Tick(w) \/ Drained(w)
Fault(w) == DropLock(w) \/ Kill(w) \/ Stop(w) \/ TickFails(w)
Failing(w, r) == RowFails(w, r) \/ BodyFails(w, r) \/ RunFails(w, r) \/ LoadFails(w, r)
Execute(w, r) ==
    \/ Upsert(w, r) \/ Claim(w, r) \/ ClaimLost(w, r)
    \/ BodyRaises(w, r) \/ (\E o \in Outputs : BodyReturns(w, r, o)) \/ ConsumeSignal(w, r)
    \/ Complete(w, r) \/ Save(w, r) \/ RecordFailure(w, r) \/ Finish(w, r) \/ TaskEnds(w, r)
    \/ Breaks(w, r)
Time == \E r \in Runs, k \in Keys : Silence(r, k) \/ Lapse(r, k) \/ FallDue(r, k)

Next ==
    \/ \E r \in Runs : Client(r)
    \/ \E w \in Workers : Drive(w) \/ Fault(w)
    \/ \E w \in Workers, r \in Runs : Execute(w, r) \/ Heartbeat(w, r) \/ Failing(w, r)
    \/ Time

Spec == Init /\ [][Next]_vars

(* The loops of each process go on, the clock does, and a signal awaited is sent while there is one left. *)
Fairness ==
    /\ \A w \in Workers : WF_vars(Start(w)) /\ WF_vars(Compete(w)) /\ WF_vars(Tick(w)) /\ WF_vars(Drained(w))
    /\ \A w \in Workers, r \in Runs : WF_vars(Execute(w, r))
    /\ \A r \in Runs : WF_vars(\E o \in Outputs : Send(r, o)) /\ WF_vars(\E k \in Keys : Silence(r, k) \/ FallDue(r, k))

FairSpec == Spec /\ Fairness

-----------------------------------------------------------------------------
(* What the engine promises. *)

Undisturbed(r) == r \notin lapsed \cup cancelled

(* As long as no live executor's heartbeat came late, two executors never   *)
(* hold a step of one run at once: a body runs in one process at a time,    *)
(* whatever workers die, leaders change and runs are revived.               *)
OneBodyAtATime ==
    \A r \in Runs \ lapsed, v, w \in Workers :
        exec[v][r].pc \in Held /\ exec[w][r].pc \in Held => v = w

(* A run that completed did every step of its plan, one after the other:    *)
(* its rows replay from the first place to the last, however often its      *)
(* executors died and others resumed.                                       *)
Replayed(rows, s) ==
    \A k \in 1..Len(s) : LET x == rows[KeyOf(SubSeq(s, 1, k - 1))] IN x.st = "completed" /\ x.out = s[k]
CompletedIsWhole ==
    \A r \in Runs : Undisturbed(r) /\ run[r] = "completed" =>
        \E s \in [Places -> Outputs \cup {Skipped}] : Replayed(row[r], s)

(* The output that run reports is what its rows replay to, unless two       *)
(* workers executed it at once: the one behind saves its partial state.     *)
ReportsWhatItDid ==
    \A r \in Runs : Undisturbed(r) /\ r \notin contested /\ run[r] = "completed" =>
        Len(output[r]) = Len(Plan) /\ Replayed(row[r], output[r])

(* A step is claimed as often as its node allows, and once more for each    *)
(* death, failed statement or missed timeout: whatever executors die or     *)
(* lose the step, no retry is granted on a stale count.                     *)
AttemptsWithinLimit ==
    \A r \in Runs, k \in Keys : row[r][k].attempts <= MaxAttempts + faults

(* A signal sent is in the inbox, in the hands of the executor that took    *)
(* it, or recorded by one wait: the taking and the recording are two        *)
(* transactions, and it is lost only when the executor ends, or one of the  *)
(* two fails, between them.                                                 *)
Waits(r) == {k \in Keys : Plan[k[1]] = "wait" /\ row[r][k].st = "completed"}
SignalsKept ==
    \A r \in Runs \ (lapsed \cup spilled) :
        sent[r] = Len(inbox[r]) + Cardinality(Waits(r)) + Cardinality(Carrying(r))

(* No run is stranded - running, with no executor and no row that a tick    *)
(* would reclaim or revive - unless its executor ended between two rows or  *)
(* its failing could not be written: a death or a failed statement in any   *)
(* other place is recovered from.                                           *)
Stranded(r) ==
    /\ run[r] = "running"
    /\ \A w \in Workers : exec[w][r] = Idle
    /\ \A k \in Keys : row[r][k].st \notin {"pending", "running"}
StrandedBetweenRows == \A r \in Runs : Stranded(r) => r \in adrift \cup contested \cup cancelled

(* The outputs recorded for a run, as far as they replay, only ever grow,   *)
(* one by one (FlowJournal), until a live executor misses a timeout.        *)
LongestReplay(rows) ==
    CHOOSE s \in States : Replayed(rows, s) /\ \A t \in States : Replayed(rows, t) => Len(t) <= Len(s)
Recorded(r) == LongestReplay(row[r])
Journal == INSTANCE FlowJournal WITH
    Entries <- Outputs \cup {Skipped}, Limit <- Len(Plan), broken <- lapsed,
    journal <- [r \in Runs |-> IF r \in lapsed THEN <<>> ELSE Recorded(r)]
ImplementsJournal == Journal!Spec

(* The final status of a run stands: leaders that tick at once and          *)
(* executors that resume never reopen it.  One thing may change: a run      *)
(* recorded as completed is failed when that write's answer, or the event   *)
(* after it, was lost.                                                      *)
FinalStands ==
    [][\A r \in Runs : run[r] \in Terminal /\ r \notin contested' \cup cancelled' =>
           \/ run'[r] = run[r]
           \/ run[r] = "completed" /\ \E w \in Workers : At(w, r, "fail") /\ WriteStatus(w, r)]_vars

(* Every run submitted ends, if a signal it waits for may still come, or it *)
(* is stranded, which StrandedBetweenRows says of few.                      *)
Starved(r) == \E k \in Keys : Plan[k[1]] = "wait" /\ row[r][k].st = "running" /\ sent[r] = MaxSignals
Over(r) == run[r] \in Terminal
RunsEnd == \A r \in Runs : run[r] = "pending" ~> Over(r) \/ Starved(r) \/ Stranded(r)

(* docs/flow.md: runs "survive process restarts".                           *)
SurvivesRestarts == \A r \in Runs : run[r] = "pending" ~> Over(r) \/ Starved(r)

(* replay.py: "the driver re-picks the run after the step's backoff window" *)
BackoffHonoured ==
    [][\A r \in Runs, k \in Keys : row[r][k].attempts # row'[r][k].attempts => row[r][k].due]_vars
=============================================================================
