---------------------------- MODULE FlowJournal ----------------------------
(***************************************************************************)
(* What durable execution promises of a run: the outputs of its steps are  *)
(* recorded one after the other and none is ever changed or taken back,    *)
(* except in runs where a timeout was taken for a death.                   *)
(***************************************************************************)
EXTENDS Naturals, Sequences

CONSTANTS Runs, Entries, Limit

VARIABLES journal, broken

Init == journal = [r \in Runs |-> <<>>] /\ broken = {}

Record(r) ==
    /\ r \notin broken /\ Len(journal[r]) < Limit
    /\ \E e \in Entries : journal' = [journal EXCEPT ![r] = Append(@, e)]
    /\ UNCHANGED broken

(* Steps were given to a second executor: nothing more is promised of these runs. *)
Break(lost) ==
    /\ broken' = broken \cup lost
    /\ journal' = [r \in Runs |-> IF r \in lost THEN <<>> ELSE journal[r]]

Next == (\E lost \in SUBSET Runs : Break(lost)) \/ (\E r \in Runs : Record(r))

Spec == Init /\ [][Next]_<<journal, broken>>
=============================================================================
