------------------------------ MODULE Logging ------------------------------
(***************************************************************************)
(* Trace scopes, log fields and the queued log of forktex.log              *)
(* (src/forktex/log/_context.py, src/forktex/log/__init__.py).             *)
(*                                                                         *)
(* Every thread carries its own context variables.  A scope saves what it  *)
(* overwrites and puts it back when it ends; a function bound to a context *)
(* takes that context with it to the thread that runs it.  A record is     *)
(* stamped on the thread that logs it and, in queue mode, written later    *)
(* by the listener's thread, while setup_logging and shutdown_logging      *)
(* replace and stop that listener.                                         *)
(***************************************************************************)
EXTENDS Naturals, Sequences, SequencesExt, Functions

CONSTANTS
    Threads,     \* threads and tasks with a context of their own
    Fields,      \* names a log_context binds
    Reuse,       \* the program passes the same target handlers to every setup_logging
    NoId,        \* the context variables' default, None
    Off,         \* no handler
    Stop,        \* the sentinel QueueListener.stop puts in the queue
    MaxDepth,    \* bound: blocks open at once on one thread
    MaxIds,      \* bound: ids minted
    MaxRecords,  \* bound: records logged
    MaxSetups    \* bound: calls of setup_logging

ASSUME BoundsAssumption == {MaxDepth, MaxIds, MaxRecords, MaxSetups} \subseteq Nat

VARIABLES
    context,   \* _trace_id, _root_trace_id and _extra_fields of each thread
    frames,    \* the blocks each thread is in: what they saved, and the context inside them
    base,      \* what set_trace_id left outside every block that restores it
    bound,     \* the contexts captured by bind_current_context
    minted,    \* ids given out
    handler,   \* root.handlers: the call of setup_logging it is from, and whether it queues
    filtered,  \* the target handlers carry a ContextFilter of their own
    fetched,   \* the handler each thread found and has not called yet
    queue,     \* the queue of the last listener
    listener,  \* whether that listener's thread runs
    setup,     \* main: "idle", or what it does once the listener has stopped
    setups,    \* calls of setup_logging
    logged,    \* records logged by each thread
    accepted,  \* records queued for a listener that was not asked to stop
    written    \* what the target handlers wrote of each thread's records

scopes == <<context, frames, base, bound, minted>>
pipeline == <<handler, filtered, fetched, queue, listener, setup, setups, logged, accepted, written>>
vars == <<scopes, pipeline>>

Ids == 1..MaxIds \cup {NoId}
Contexts == [trace : Ids, root : Ids, fields : SUBSET Fields]
Blank == [trace |-> NoId, root |-> NoId, fields |-> {}]
Frames == [kind : {"scope", "fields", "job"}, saved : Contexts, inside : Contexts]
Handlers == [call : 1..MaxSetups, queues : BOOLEAN]
Records == [by : Threads, n : Nat \ {0}, stamp : Contexts, meant : Contexts]

ASSUME NamesAssumption ==
    NoId \notin Nat /\ Off \notin Handlers /\ Stop \notin Records /\ Reuse \in BOOLEAN

TypeOK ==
    /\ context \in [Threads -> Contexts]
    /\ frames \in [Threads -> Seq(Frames)]
    /\ base \in [Threads -> Ids]
    /\ bound \subseteq Contexts
    /\ minted \in 0..MaxIds
    /\ handler \in Handlers \cup {Off}
    /\ filtered \in BOOLEAN
    /\ fetched \in [Threads -> Handlers \cup {Off}]
    /\ queue \in Seq(Records \cup {Stop})
    /\ listener \in BOOLEAN
    /\ setup \in {"idle", "shut", "queue", "direct"}
    /\ setups \in 0..MaxSetups
    /\ logged \in [Threads -> Nat]
    /\ accepted \subseteq Threads \X (Nat \ {0})
    /\ written \in [Threads -> Seq(Records)]

Init ==
    /\ context = [t \in Threads |-> Blank]
    /\ frames = [t \in Threads |-> <<>>]
    /\ base = [t \in Threads |-> NoId]
    /\ bound = {}
    /\ minted = 0
    /\ handler = Off
    /\ filtered = FALSE
    /\ fetched = [t \in Threads |-> Off]
    /\ queue = <<>>
    /\ listener = FALSE
    /\ setup = "idle"
    /\ setups = 0
    /\ logged = [t \in Threads |-> 0]
    /\ accepted = {}
    /\ written = [t \in Threads |-> <<>>]

-----------------------------------------------------------------------------
(* Scopes (_context.py). *)

(* A thread inside a call of a logger does nothing else. *)
Idle(t) == fetched[t] = Off

(* What the blocks a thread is in say its context is: inside the innermost, or outside all. *)
Outside(t) == [Blank EXCEPT !.trace = base[t]]
Expected(t) == IF frames[t] = <<>> THEN Outside(t) ELSE Last(frames[t]).inside

(* The context inside a block, from the one around it. *)
InScope(c, id) == [c EXCEPT !.trace = id, !.root = IF @ = NoId THEN id ELSE @]
InFields(c, fs) == [c EXCEPT !.fields = @ \cup fs]

(* A block sets the context variables, and the tokens it keeps are what they were. *)
Enter(t, kind, set, inside) ==
    /\ Idle(t)
    /\ Len(frames[t]) < MaxDepth
    /\ context' = [context EXCEPT ![t] = set]
    /\ frames' = [frames EXCEPT ![t] =
                    Append(@, [kind |-> kind, saved |-> context[t], inside |-> inside])]
    /\ UNCHANGED <<base, bound, pipeline>>

(* trace_context and async_trace_context: an id of its own, and the root if there is none. *)
OpenScope(t) ==
    /\ minted < MaxIds
    /\ minted' = minted + 1
    /\ Enter(t, "scope", InScope(context[t], minted + 1), InScope(Expected(t), minted + 1))

(* log_context and async_log_context. *)
BindFields(t, f) ==
    /\ Enter(t, "fields", InFields(context[t], {f}), InFields(Expected(t), {f}))
    /\ UNCHANGED minted

(* bind_current_context captures; a thread that runs the function takes the context on. *)
BindCurrent(t) ==
    /\ Idle(t)
    /\ bound' = bound \cup {context[t]}
    /\ UNCHANGED <<context, frames, base, minted, pipeline>>
RunBound(t, c) ==
    /\ c \in bound
    /\ Enter(t, "job", c, c)
    /\ UNCHANGED minted

(* Mutant: the root put back whoever set it. *)
LeavesNoRoot(f, c) ==
    CASE f.kind = "scope" -> [c EXCEPT !.trace = f.saved.trace, !.root = NoId]
      [] f.kind = "fields" -> [c EXCEPT !.fields = f.saved.fields]
      [] f.kind = "job" -> f.saved
(* The tokens a block resets, whether it ends or raises. *)
Restored(f, c) ==
    CASE f.kind = "scope" -> [c EXCEPT !.trace = f.saved.trace, !.root = IF f.saved.root = NoId THEN NoId ELSE @]
      [] f.kind = "fields" -> [c EXCEPT !.fields = f.saved.fields]
      [] f.kind = "job" -> f.saved
Exit(t) ==
    /\ Idle(t) /\ frames[t] # <<>>
    /\ context' = [context EXCEPT ![t] = Restored(Last(frames[t]), @)]
    /\ frames' = [frames EXCEPT ![t] = Front(@)]
    /\ UNCHANGED <<base, bound, minted, pipeline>>

(* set_trace_id holds until the innermost block that restores the trace ends: inside that block *)
(* and the ones in it, and outside all blocks when none restores it.                            *)
RestoresNoTrace(t, i) == \A j \in i..Len(frames[t]) : frames[t][j].kind = "fields"
SetTraceId(t) ==
    /\ Idle(t) /\ minted < MaxIds
    /\ minted' = minted + 1
    /\ context' = [context EXCEPT ![t].trace = minted + 1]
    /\ frames' = [frames EXCEPT ![t] = [i \in DOMAIN frames[t] |->
                    IF RestoresNoTrace(t, i + 1)
                    THEN [frames[t][i] EXCEPT !.inside = [@ EXCEPT !.trace = minted + 1]]
                    ELSE frames[t][i]]]
    /\ base' = IF RestoresNoTrace(t, 1) THEN [base EXCEPT ![t] = minted + 1] ELSE base
    /\ UNCHANGED <<bound, pipeline>>

-----------------------------------------------------------------------------
(* Records (__init__.py). *)

(* A call of a logger finds the root's handler; between that and the call of the handler *)
(* another thread may replace it.  Without a handler the record goes nowhere.            *)
Room == FoldFunction(+, 0, logged) < MaxRecords
Log(t) ==
    /\ Idle(t)
    /\ Room
    /\ logged' = [logged EXCEPT ![t] = @ + 1]
    /\ fetched' = [fetched EXCEPT ![t] = handler]
    /\ UNCHANGED <<scopes, handler, filtered, queue, listener, setup, setups, accepted, written>>

(* Mutant: in queue mode the filter sits on the target handlers only. *)
StampAtTarget(t, h) == IF h.queues THEN Blank ELSE context[t]
(* ContextFilter, on the handler the logging thread calls. *)
Stamp(t, h) == context[t]

(* The handler is called: it writes the record or queues it.  The queue of a listener that *)
(* was replaced is not read any more.                                                      *)
Emit(t) ==
    LET h == fetched[t]
        r == [by |-> t, n |-> logged[t], stamp |-> Stamp(t, h), meant |-> Expected(t)]
    IN /\ h # Off
       /\ fetched' = [fetched EXCEPT ![t] = Off]
       /\ IF h.queues
          THEN /\ queue' = IF h.call = setups THEN Append(queue, r) ELSE queue
               /\ accepted' = IF h.call = setups /\ listener /\ ~Contains(queue, Stop)
                              THEN accepted \cup {<<t, r.n>>} ELSE accepted
               /\ UNCHANGED written
          ELSE /\ written' = [written EXCEPT ![t] = Append(@, r)]
               /\ UNCHANGED <<queue, accepted>>
       /\ UNCHANGED <<scopes, handler, filtered, listener, setup, setups, logged>>

(* The listener's thread hands a record to the target handlers; a filter of theirs runs there. *)
Rewritten(r) == IF filtered THEN [r EXCEPT !.stamp = Blank] ELSE r
Listen ==
    /\ listener /\ queue # <<>>
    /\ queue' = Tail(queue)
    /\ IF Head(queue) = Stop
       THEN listener' = FALSE /\ UNCHANGED written
       ELSE LET r == Rewritten(Head(queue))
            IN written' = [written EXCEPT ![r.by] = Append(@, r)] /\ UNCHANGED listener
    /\ UNCHANGED <<scopes, handler, filtered, fetched, setup, setups, logged, accepted>>

-----------------------------------------------------------------------------
(* setup_logging and shutdown_logging, called by the main thread. *)

(* Mutant: stop() forgets the sentinel. *)
NoSentinel == queue
(* QueueListener.stop: a sentinel behind what is queued, then the join. *)
Stopped == IF listener THEN Append(queue, Stop) ELSE queue

SetUp(mode) ==
    /\ setup = "idle" /\ setups < MaxSetups
    /\ handler' = Off
    /\ queue' = Stopped
    /\ setup' = mode
    /\ UNCHANGED <<scopes, filtered, fetched, listener, setups, logged, accepted, written>>

(* Mutant: the listener is told to stop and not waited for. *)
NotJoined == TRUE
(* The listener's thread has ended. *)
Joined == ~listener

(* New handlers.  A filter put on the target handlers stays on them for the next call. *)
Install ==
    /\ setup \in {"queue", "direct"} /\ Joined
    /\ setups' = setups + 1
    /\ handler' = [call |-> setups + 1, queues |-> setup = "queue"]
    /\ filtered' = (setup = "direct" \/ (Reuse /\ filtered))
    /\ IF setup = "queue" THEN queue' = <<>> /\ listener' = TRUE ELSE UNCHANGED <<queue, listener>>
    /\ setup' = "idle"
    /\ UNCHANGED <<scopes, fetched, logged, accepted, written>>

(* shutdown_logging leaves the root's handlers: what is logged after it stays in the queue. *)
ShutDown ==
    /\ setup = "idle" /\ listener
    /\ queue' = Stopped
    /\ setup' = "shut"
    /\ UNCHANGED <<scopes, handler, filtered, fetched, listener, setups, logged, accepted, written>>
ShutDownReturns ==
    /\ setup = "shut" /\ Joined
    /\ setup' = "idle"
    /\ UNCHANGED <<scopes, handler, filtered, fetched, queue, listener, setups, logged, accepted, written>>

-----------------------------------------------------------------------------
Next ==
    \/ \E t \in Threads :
          \/ OpenScope(t) \/ BindCurrent(t) \/ Exit(t) \/ SetTraceId(t) \/ Log(t) \/ Emit(t)
          \/ \E f \in Fields : BindFields(t, f)
          \/ \E c \in bound : RunBound(t, c)
    \/ Listen \/ Install \/ ShutDown \/ ShutDownReturns
    \/ \E mode \in {"queue", "direct"} : SetUp(mode)

Spec == Init /\ [][Next]_vars

(* The listener's thread is never stopped but by stop(), and a join returns when it has ended. *)
Fairness == WF_vars(Listen) /\ WF_vars(Install) /\ WF_vars(ShutDownReturns)
FairSpec == Spec /\ Fairness

-----------------------------------------------------------------------------
(* However scopes, fields, set_trace_id and bound functions nest on a thread, its context is *)
(* the one the blocks it is in give it: every block puts back exactly what it replaced       *)
(* (_context.py 73-122).                                                                     *)
ContextFollowsScopes == \A t \in Threads : context[t] = Expected(t)

(* What is written carries the trace, root and fields of the code that logged it, though another *)
(* thread writes it and the context has moved on since (ContextFilter on the emitting side).     *)
WrittenAsMeant == \A t \in Threads : \A i \in DOMAIN written[t] : written[t][i].stamp = written[t][i].meant

(* A record queued while the listener was wanted is written, or still ahead of the sentinel,   *)
(* and a thread's records are written once and in the order it logged them: setup_logging and  *)
(* shutdown_logging drain the old listener before new handlers are attached (__init__.py       *)
(* 137-147, 166-170).                                                                          *)
DrainedInOrder ==
    /\ \A t \in Threads : \A i, j \in DOMAIN written[t] : i < j => written[t][i].n < written[t][j].n
    /\ \A a \in accepted :
        \/ \E i \in DOMAIN written[a[1]] : written[a[1]][i].n = a[2]
        \/ /\ listener
           /\ \E i \in DOMAIN queue : /\ queue[i] # Stop /\ queue[i].by = a[1] /\ queue[i].n = a[2]
                                      /\ \A j \in 1..i : queue[j] # Stop

(* setup_logging and shutdown_logging return: the listener they join does end. *)
SetupReturns == (setup # "idle") ~> (setup = "idle")
=============================================================================
