------------------------------ MODULE Service ------------------------------
(***************************************************************************)
(* A service built with forktex.api: what a request meets on its way       *)
(* through the middlewares of create_app (src/forktex/api/factory.py,      *)
(* src/forktex/api/middleware.py, TraceIDMiddleware of forktex.log), the   *)
(* readiness route with its probes, and the default handle the probes use  *)
(* (init_engine and close_engine of src/forktex/database/connection.py;    *)
(* init and close of src/forktex/cache/connection.py have the same shape). *)
(*                                                                         *)
(* A response is the sequence of messages that reach the server.  Every    *)
(* middleware between the sender and the server sees a message pass; an    *)
(* exception goes the same way until one of them catches it.               *)
(***************************************************************************)
EXTENDS Integers, Sequences, FiniteSets, SequencesExt

CONSTANTS
    Requests,
    Probes,      \* names in AppConfig.readiness_probes
    Order,       \* the middlewares, outermost first, as the app adds them
    Callers,     \* tasks that call init_engine or close_engine
    NoHandle,    \* None
    MaxHandles   \* bound: handles made

ASSUME OrderAssumption ==
    /\ Order \in Seq({"security", "cors", "trace", "envelope"})
    /\ \A m \in {"security", "cors", "trace", "envelope"} : \E i \in DOMAIN Order : Order[i] = m
ASSUME HandlesAssumption == MaxHandles \in Nat /\ NoHandle \notin Nat

VARIABLES
    enabled,     \* AppConfig: the middlewares switched on
    unexpected,  \* AppConfig.handle_unexpected
    at,          \* where each request is
    raised,      \* the exception on its way out, "none" before
    sent,        \* the messages the server got
    started,     \* ExceptionEnvelopeMiddleware's flag
    early,       \* the exception left the app before a response had started
    probe,       \* readiness: how far each probe is
    seen,        \* readiness: the probes that found their dependency since the request came
    up,          \* the database answers
    default,     \* _default
    made,        \* handles made, numbered
    disposed,    \* handles whose dispose() returned
    call,        \* what each caller awaits
    raced,       \* handles installed while a close was under way
    failed       \* handles whose dispose() raised or was cancelled

request == <<at, raised, sent, started, early>>
config == <<enabled, unexpected>>
readiness == <<probe, seen>>
handles == <<default, made, disposed, call, raced, failed>>
vars == <<config, request, readiness, up, handles>>

Handles == 1..MaxHandles
Errors == {"known", "unknown", "other", "cancelled"}
AppErrors == {"known", "unknown"}   \* an AppError whose code is in AppErrorCode, or is not
Statuses == {"200", "503", "mapped", "500", "plain 500"}
Messages == [kind : {"start"}, status : Statuses, headers : SUBSET {"security", "trace"}]
       \cup [kind : {"body"}, traced : BOOLEAN]
NoCall == [op |-> "none", handle |-> NoHandle]

TypeOK ==
    /\ enabled \subseteq {"security", "cors", "trace", "envelope"}
    /\ unexpected \in BOOLEAN
    /\ at \in [Requests -> {"away", "app", "ready", "cors", "out", "envelope", "over"}]
    /\ raised \in [Requests -> Errors \cup {"none"}]
    /\ sent \in [Requests -> Seq(Messages)]
    /\ started \in [Requests -> BOOLEAN]
    /\ early \in [Requests -> BOOLEAN]
    /\ probe \in [Requests -> [Probes -> {"waiting", "asking", "passed", "failed"}]]
    /\ seen \in [Requests -> SUBSET Probes]
    /\ up \in BOOLEAN
    /\ default \in Handles \cup {NoHandle}
    /\ made \in 0..MaxHandles
    /\ disposed \subseteq 1..made
    /\ call \in [Callers -> {NoCall} \cup [op : {"init", "close"}, handle : Handles]]
    /\ raced \subseteq 1..made
    /\ failed \subseteq 1..made

Init ==
    /\ enabled \in SUBSET {"security", "cors", "trace", "envelope"}
    /\ unexpected \in BOOLEAN
    /\ at = [r \in Requests |-> "away"]
    /\ raised = [r \in Requests |-> "none"]
    /\ sent = [r \in Requests |-> <<>>]
    /\ started = [r \in Requests |-> FALSE]
    /\ early = [r \in Requests |-> FALSE]
    /\ probe = [r \in Requests |-> [p \in Probes |-> "waiting"]]
    /\ seen = [r \in Requests |-> {}]
    /\ up = TRUE
    /\ default = NoHandle
    /\ made = 0
    /\ disposed = {}
    /\ call = [c \in Callers |-> NoCall]
    /\ raced = {}
    /\ failed = {}

-----------------------------------------------------------------------------
(* The stack. *)

Position(m) == CHOOSE i \in DOMAIN Order : Order[i] = m
App == Len(Order) + 1

(* The middlewares that see what is sent from a place in the stack. *)
Passed(place) == {m \in enabled : Position(m) < place}
(* Mutant: the id is asked for outside its scope. *)
TracedInside(place) == "trace" \in enabled /\ Position("trace") > place
(* get_trace_id() there finds the request's id. *)
Traced(place) == "trace" \in Passed(place)

Start(status, place) ==
    [kind |-> "start", status |-> status, headers |-> Passed(place) \cap {"security", "trace"}]
Body(place) == [kind |-> "body", traced |-> Traced(place)]

(* send_tracking_start, send_with_header and send_with_headers on the way to the server. *)
Send(r, m, place) ==
    /\ sent' = [sent EXCEPT ![r] = Append(@, m)]
    /\ started' = [started EXCEPT ![r] = @ \/ (m.kind = "start" /\ "envelope" \in Passed(place))]

Arrive(r) ==
    /\ at[r] = "away"
    /\ \E place \in {"app", "ready", "cors"} :
          /\ place = "cors" => "cors" \in enabled
          /\ at' = [at EXCEPT ![r] = place]
    /\ UNCHANGED <<config, raised, sent, started, early, readiness, up, handles>>

(* A preflight is answered by the CORS middleware and goes no further. *)
Preflight(r) ==
    /\ at[r] = "cors"
    /\ IF sent[r] = <<>> THEN Send(r, Start("200", Position("cors")), Position("cors")) /\ UNCHANGED at
       ELSE Send(r, Body(Position("cors")), Position("cors")) /\ at' = [at EXCEPT ![r] = "over"]
    /\ UNCHANGED <<config, raised, early, readiness, up, handles>>

(* The application answers, or raises before, during or (a background task) after its answer. *)
Respond(r) ==
    /\ at[r] = "app"
    /\ \/ /\ sent[r] = <<>>
          /\ Send(r, Start("200", App), App)
       \/ /\ Len(sent[r]) = 1
          /\ Send(r, Body(App), App)
    /\ UNCHANGED <<config, at, raised, early, readiness, up, handles>>
Return(r) ==
    /\ at[r] = "app" /\ Len(sent[r]) = 2
    /\ at' = [at EXCEPT ![r] = "over"]
    /\ UNCHANGED <<config, raised, sent, started, early, readiness, up, handles>>
Raise(r, e) ==
    /\ \/ at[r] = "app"
       \/ at[r] \in {"ready", "envelope", "cors"} /\ e = "cancelled"
    /\ at' = [at EXCEPT ![r] = "out"]
    /\ raised' = [raised EXCEPT ![r] = e]
    /\ early' = [early EXCEPT ![r] = (at[r] \in {"app", "ready"} /\ sent[r] = <<>>)]
    /\ UNCHANGED <<config, sent, started, readiness, up, handles>>

(* Mutant: an error is always answered. *)
CatchesLate(r) == "envelope" \in enabled /\ (raised[r] \in AppErrors \/ (raised[r] = "other" /\ unexpected))
(* Mutant: the switch for unexpected errors governs every error. *)
CatchesIfUnexpected(r) == "envelope" \in enabled /\ ~started[r] /\ raised[r] # "cancelled" /\ unexpected
(* The except clauses of ExceptionEnvelopeMiddleware. *)
Catches(r) ==
    /\ "envelope" \in enabled
    /\ ~started[r]
    /\ raised[r] \in AppErrors \/ (raised[r] = "other" /\ unexpected)

(* _http_status_for: a code the table does not know is a 500. *)
Status(e) == IF e = "known" THEN "mapped" ELSE "500"

Envelope(r) ==
    /\ at[r] = "out" /\ Catches(r)
    /\ Send(r, Start(Status(raised[r]), Position("envelope")), Position("envelope"))
    /\ at' = [at EXCEPT ![r] = "envelope"]
    /\ UNCHANGED <<config, raised, early, readiness, up, handles>>
EnvelopeBody(r) ==
    /\ at[r] = "envelope"
    /\ Send(r, Body(Position("envelope")), Position("envelope"))
    /\ at' = [at EXCEPT ![r] = "over"]
    /\ UNCHANGED <<config, raised, early, readiness, up, handles>>

(* What nothing caught reaches Starlette's ServerErrorMiddleware and the server. *)
Escape(r) ==
    /\ at[r] = "out" /\ ~Catches(r)
    /\ at' = [at EXCEPT ![r] = "over"]
    /\ sent' = [sent EXCEPT ![r] = IF @ = <<>> /\ raised[r] # "cancelled"
                                   THEN <<Start("plain 500", 0), Body(0)>> ELSE @]
    /\ UNCHANGED <<config, raised, started, early, readiness, up, handles>>

-----------------------------------------------------------------------------
(* /health/ready: every probe at once, each under wait_for. *)

Decided(r) == \A p \in Probes : probe[r][p] \in {"passed", "failed"}

(* A probe such as database.verify takes the default handle, or raises without one. *)
ProbeStarts(r, p) ==
    /\ at[r] = "ready" /\ probe[r][p] = "waiting"
    /\ probe' = [probe EXCEPT ![r][p] = IF default = NoHandle THEN "failed" ELSE "asking"]
    /\ UNCHANGED <<config, request, seen, up, handles>>
ProbePasses(r, p) ==
    /\ at[r] = "ready" /\ probe[r][p] = "asking" /\ up
    /\ probe' = [probe EXCEPT ![r][p] = "passed"]
    /\ seen' = [seen EXCEPT ![r] = @ \cup {p}]
    /\ UNCHANGED <<config, request, up, handles>>

(* Mutant: no timeout, so a probe ends when the database answers it. *)
NoTimeout(r, p) == probe[r][p] = "asking" /\ up
(* The probe has begun; wait_for ends it if nothing else does. *)
Ends(r, p) == probe[r][p] = "asking"
(* Mutant: a probe that is late is taken for one that passed. *)
TakenForPassed == "passed"
(* TimeoutError, any other exception and False all count alike. *)
Unready == "failed"
ProbeFails(r, p) ==
    /\ at[r] = "ready" /\ Ends(r, p)
    /\ probe' = [probe EXCEPT ![r][p] = Unready]
    /\ UNCHANGED <<config, request, seen, up, handles>>

Answer(r) ==
    /\ at[r] = "ready" /\ Decided(r)
    /\ Send(r, Start(IF \A p \in Probes : probe[r][p] = "passed" THEN "200" ELSE "503", App), App)
    /\ at' = [at EXCEPT ![r] = "app"]
    /\ UNCHANGED <<config, raised, early, readiness, up, handles>>

(* The database goes away and comes back. *)
Flip == up' = ~up /\ UNCHANGED <<config, request, readiness, handles>>

-----------------------------------------------------------------------------
(* init_engine and close_engine. *)

Closing == \E c \in Callers : call[c].op = "close"

(* Mutant: the handle it replaces is dropped. *)
Dropped == NoHandle
(* The handle init_engine disposes of. *)
Previous == default
InitEngine(c) ==
    /\ call[c] = NoCall /\ made < MaxHandles
    /\ made' = made + 1
    /\ default' = made + 1
    /\ call' = [call EXCEPT ![c] = IF Previous = NoHandle THEN NoCall ELSE [op |-> "init", handle |-> Previous]]
    /\ raced' = IF Closing THEN raced \cup {made + 1} ELSE raced
    /\ UNCHANGED <<config, request, readiness, up, disposed, failed>>
CloseEngine(c) ==
    /\ call[c] = NoCall /\ default # NoHandle
    /\ call' = [call EXCEPT ![c] = [op |-> "close", handle |-> default]]
    /\ UNCHANGED <<config, request, readiness, up, default, made, disposed, raced, failed>>

(* dispose() returns; close_engine then clears whatever handle is installed by now. *)
Disposes(c) ==
    /\ call[c] # NoCall
    /\ disposed' = disposed \cup {call[c].handle}
    /\ default' = IF call[c].op = "close" THEN NoHandle ELSE default
    /\ call' = [call EXCEPT ![c] = NoCall]
    /\ UNCHANGED <<config, request, readiness, up, made, raced, failed>>
(* dispose() raises, or the caller is cancelled in it. *)
DisposeFails(c) ==
    /\ call[c] # NoCall
    /\ failed' = failed \cup {call[c].handle}
    /\ call' = [call EXCEPT ![c] = NoCall]
    /\ UNCHANGED <<config, request, readiness, up, default, made, disposed, raced>>

-----------------------------------------------------------------------------
Next ==
    \/ \E r \in Requests :
          \/ Arrive(r) \/ Preflight(r) \/ Respond(r) \/ Return(r) \/ Answer(r)
          \/ Envelope(r) \/ EnvelopeBody(r) \/ Escape(r)
          \/ \E e \in Errors : Raise(r, e)
          \/ \E p \in Probes : ProbeStarts(r, p) \/ ProbePasses(r, p) \/ ProbeFails(r, p)
    \/ Flip
    \/ \E c \in Callers : InitEngine(c) \/ CloseEngine(c) \/ Disposes(c) \/ DisposeFails(c)

Spec == Init /\ [][Next]_vars

(* The event loop runs what is ready, and wait_for's timer fires.  A handler of the service *)
(* itself is promised nothing, nor is a probe's success or a dispose.                       *)
Fairness ==
    \A r \in Requests :
        /\ WF_vars(Answer(r)) /\ WF_vars(Decided(r) /\ (Respond(r) \/ Return(r)))
        /\ WF_vars(Envelope(r) \/ EnvelopeBody(r) \/ Escape(r))
        /\ \A p \in Probes : WF_vars(ProbeStarts(r, p)) /\ WF_vars(ProbeFails(r, p))
FairSpec == Spec /\ Fairness

-----------------------------------------------------------------------------
(* A request gets one response at most: one start, then one body, whatever raises at whatever *)
(* moment, the envelope's own answer cut short included (middleware.py 70-95).                *)
OneResponse ==
    \A r \in Requests : /\ Len(sent[r]) <= 2
                        /\ \A i \in DOMAIN sent[r] : (sent[r][i].kind = "start") = (i = 1)

(* With the envelope switched on, an error of the application raised before its response started *)
(* is answered: an AppError with its status, another one with 500, unless unexpected errors are  *)
(* left to the server (middleware.py 80-95; docs/api.md 58-59 and 141-142).                       *)
ErrorsEnveloped ==
    \A r \in Requests :
        (/\ at[r] = "over" /\ early[r] /\ "envelope" \in enabled
         /\ raised[r] \in AppErrors \/ (raised[r] = "other" /\ unexpected))
        => /\ Len(sent[r]) = 2
           /\ sent[r][1].status = (IF raised[r] = "known" THEN "mapped" ELSE "500")
           /\ enabled \cap {"security", "trace"} = sent[r][1].headers

(* The trace id in an envelope is there whenever ids are switched on, so that what the client *)
(* quotes can be found in the log (middleware.py 85-95, log/__init__.py TraceIDMiddleware).   *)
EnvelopesTraced ==
    \A r \in Requests :
        early[r] /\ Len(sent[r]) = 2 /\ sent[r][1].status \in {"mapped", "500"} /\ "trace" \in enabled
        => sent[r][2].traced

(* A service that says it is ready reached every dependency since it was asked, whatever probes *)
(* were late, raised or found no handle (factory.py 119-150).                                   *)
ReadyIsTrue ==
    \A r \in Requests : Decided(r) /\ sent[r] # <<>> /\ sent[r][1].status = "200" => seen[r] = Probes

(* The default handle is never one that was disposed, whatever inits and closes overlap *)
(* (connection.py 116-142).                                                             *)
DefaultUsable == default \notin disposed

(* Every handle made is the default, disposed, or about to be; only one whose dispose failed, *)
(* or that was installed while a close was under way, is lost open.                           *)
HandlesAccountedFor ==
    \A h \in 1..made :
        \/ h = default \/ h \in disposed \/ \E c \in Callers : call[c].handle = h
        \/ h \in raced \cup failed

(* Readiness answers, whatever its probes do, and an error on its way out arrives. *)
RequestsEnd == \A r \in Requests : at[r] \in {"ready", "out", "envelope"} ~> at[r] = "over"
=============================================================================
