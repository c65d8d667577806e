--------------------------- MODULE ServiceProofs ---------------------------
(* Proofs about Service, for any requests, probes, callers and number of   *)
(* handles, and any order of the four middlewares.                         *)
EXTENDS Service, SequenceTheorems, TLAPS

(* Every middleware is somewhere in the stack, and the application inside. *)
LEMMA Places ==
    ASSUME NEW m \in {"security", "cors", "trace", "envelope"}
    PROVE  Position(m) \in Nat \ {0} /\ Position(m) < App /\ App \in Nat
<1>1. \E i \in DOMAIN Order : Order[i] = m
  BY OrderAssumption
<1>2. Position(m) \in DOMAIN Order
  BY <1>1 DEF Position
<1>3. Len(Order) \in Nat /\ DOMAIN Order = 1..Len(Order)
  BY OrderAssumption
<1> QED
  BY <1>2, <1>3 DEF App

LEMMA MessageTypes ==
    ASSUME NEW place \in Int, NEW status \in Statuses
    PROVE  Start(status, place) \in Messages /\ Start(status, place).kind = "start"
           /\ Body(place) \in Messages /\ Body(place).kind = "body"
<1>1. Passed(place) \cap {"security", "trace"} \in SUBSET {"security", "trace"}
  OBVIOUS
<1>2. Start(status, place) \in [kind : {"start"}, status : Statuses, headers : SUBSET {"security", "trace"}]
  BY <1>1 DEF Start
<1>3. Traced(place) \in BOOLEAN
  BY DEF Traced
<1>4. Body(place) \in [kind : {"body"}, traced : BOOLEAN]
  BY <1>3 DEF Body
<1> QED
  BY <1>2, <1>4 DEF Messages, Start, Body

(* What a message that is sent does to the state. *)
LEMMA Sends ==
    ASSUME TypeOK, NEW r \in Requests, NEW m \in Messages, NEW place, Send(r, m, place)
    PROVE  /\ sent' \in [Requests -> Seq(Messages)]
           /\ started' \in [Requests -> BOOLEAN]
           /\ sent'[r] = Append(sent[r], m)
           /\ \A q \in Requests \ {r} : sent'[q] = sent[q] /\ started'[q] = started[q]
           /\ started[r] => started'[r]
           /\ m.kind = "start" /\ "envelope" \in Passed(place) => started'[r]
<1>1. Append(sent[r], m) \in Seq(Messages)
  BY DEF TypeOK
<1>2. (started[r] \/ (m.kind = "start" /\ "envelope" \in Passed(place))) \in BOOLEAN
  OBVIOUS
<1> QED
  BY <1>1, <1>2 DEF TypeOK, Send

-----------------------------------------------------------------------------
(* Handles: every one made is accounted for. *)

(* What the callers of init_engine and close_engine await concerns handles *)
(* made; init awaits one that was replaced, and a handle that replaced the *)
(* one a close awaits was installed under that close.                      *)
Awaited(c) ==
    /\ call[c] # NoCall => call[c].handle \in 1..made
    /\ call[c].op = "init" => call[c].handle # default
    /\ call[c].op = "close" => default \in raced \cup {NoHandle, call[c].handle}
HandleInv ==
    /\ TypeOK
    /\ default \in (1..made) \cup {NoHandle}
    /\ \A c \in Callers : Awaited(c)
    /\ DefaultUsable
    /\ HandlesAccountedFor

LEMMA HandleFacts ==
    /\ MaxHandles \in Nat /\ NoHandle \notin Nat /\ Handles = 1..MaxHandles
    /\ NoCall.op = "none" /\ NoCall.handle = NoHandle
  BY HandlesAssumption DEF Handles, NoCall

LEMMA InitTypes == Init => TypeOK
  BY HandlesAssumption DEF Init, TypeOK, Handles, NoCall

LEMMA InitHandles == Init => HandleInv
<1>1. Init => TypeOK
  BY InitTypes
<1> QED
  BY <1>1, HandleFacts DEF Init, HandleInv, Awaited, DefaultUsable, HandlesAccountedFor

(* Everything but the handles keeps its type in the actions of requests.   *)
LEMMA RequestTypes ==
    ASSUME TypeOK, UNCHANGED handles,
           \/ \E r \in Requests :
                 \/ Arrive(r) \/ Preflight(r) \/ Respond(r) \/ Return(r) \/ Answer(r)
                 \/ Envelope(r) \/ EnvelopeBody(r) \/ Escape(r)
                 \/ \E e \in Errors : Raise(r, e)
                 \/ \E p \in Probes : ProbeStarts(r, p) \/ ProbePasses(r, p) \/ ProbeFails(r, p)
           \/ Flip
    PROVE  TypeOK'
<1> DEFINE Kept == UNCHANGED <<config, handles, up>>
<1> USE DEF TypeOK, handles, config
<1>1. ASSUME NEW r \in Requests, NEW m \in Messages, NEW place, Send(r, m, place), UNCHANGED <<config, raised, early, readiness, up>>,
             at' \in [Requests -> {"away", "app", "ready", "cors", "out", "envelope", "over"}]
      PROVE  TypeOK'
  BY <1>1, Sends DEF readiness
<1>2. ASSUME NEW r \in Requests, Arrive(r) PROVE TypeOK'
  BY <1>2 DEF Arrive, readiness
<1>3. ASSUME NEW r \in Requests, Preflight(r) PROVE TypeOK'
  <2>1. Position("cors") \in Int /\ "200" \in Statuses
    BY Places DEF Statuses
  <2>2. Start("200", Position("cors")) \in Messages /\ Body(Position("cors")) \in Messages
    BY <2>1, MessageTypes
  <2> QED
    BY <1>1, <1>3, <2>2 DEF Preflight
<1>4. ASSUME NEW r \in Requests, Respond(r) PROVE TypeOK'
  <2>1. App \in Int /\ "200" \in Statuses
    BY Places DEF Statuses
  <2>2. Start("200", App) \in Messages /\ Body(App) \in Messages
    BY <2>1, MessageTypes
  <2> QED
    BY <1>1, <1>4, <2>2 DEF Respond
<1>5. ASSUME NEW r \in Requests, Return(r) PROVE TypeOK'
  BY <1>5 DEF Return, readiness
<1>6. ASSUME NEW r \in Requests, Answer(r) PROVE TypeOK'
  <2>1. App \in Int /\ {"200", "503"} \subseteq Statuses
    BY Places DEF Statuses
  <2>2. Start("200", App) \in Messages /\ Start("503", App) \in Messages
    BY <2>1, MessageTypes
  <2> QED
    BY <1>1, <1>6, <2>2 DEF Answer
<1>7. ASSUME NEW r \in Requests, Envelope(r) PROVE TypeOK'
  <2>1. Position("envelope") \in Int /\ Status(raised[r]) \in Statuses
    BY Places DEF Statuses, Status
  <2>2. Start(Status(raised[r]), Position("envelope")) \in Messages
    BY <2>1, MessageTypes
  <2> QED
    BY <1>1, <1>7, <2>2 DEF Envelope
<1>8. ASSUME NEW r \in Requests, EnvelopeBody(r) PROVE TypeOK'
  <2>1. Position("envelope") \in Int /\ "200" \in Statuses
    BY Places DEF Statuses
  <2>2. Body(Position("envelope")) \in Messages
    BY <2>1, MessageTypes
  <2> QED
    BY <1>1, <1>8, <2>2 DEF EnvelopeBody
<1>9. ASSUME NEW r \in Requests, Escape(r) PROVE TypeOK'
  <2>1. 0 \in Int /\ "plain 500" \in Statuses
    BY DEF Statuses
  <2>2. <<Start("plain 500", 0), Body(0)>> \in Seq(Messages)
    <3>1. Start("plain 500", 0) \in Messages /\ Body(0) \in Messages
      BY <2>1, MessageTypes
    <3>2. ASSUME NEW a \in Messages, NEW b \in Messages PROVE <<a, b>> \in Seq(Messages)
      OBVIOUS
    <3> QED
      BY <3>1, <3>2, Zenon
  <2>3. \E x \in Seq(Messages) : sent' = [sent EXCEPT ![r] = x]
    <3>1. sent[r] \in Seq(Messages) /\ sent' = [sent EXCEPT ![r] = sent'[r]]
      BY <1>9 DEF Escape
    <3>2. sent'[r] \in Seq(Messages)
      BY <1>9, <2>2, <3>1 DEF Escape
    <3> QED
      BY <3>1, <3>2
  <2>4. sent' \in [Requests -> Seq(Messages)]
    BY <2>3
  <2> QED
    BY <1>9, <2>4 DEF Escape, readiness
<1>10. ASSUME NEW r \in Requests, NEW e \in Errors, Raise(r, e) PROVE TypeOK'
  <2>1. (at[r] \in {"app", "ready"} /\ sent[r] = <<>>) \in BOOLEAN
    OBVIOUS
  <2> QED
    BY <1>10, <2>1 DEF Raise, readiness
<1>11. ASSUME NEW r \in Requests, NEW p \in Probes, ProbeStarts(r, p) \/ ProbePasses(r, p) \/ ProbeFails(r, p)
       PROVE  TypeOK'
  <2>1. \E x \in {"failed", "asking", "passed"} : probe' = [probe EXCEPT ![r][p] = x]
    BY <1>11 DEF ProbeStarts, ProbePasses, ProbeFails, Unready
  <2>2. PICK x \in {"failed", "asking", "passed"} : probe' = [probe EXCEPT ![r] = [probe[r] EXCEPT ![p] = x]]
    BY <2>1
  <2>3. [probe[r] EXCEPT ![p] = x] \in [Probes -> {"waiting", "asking", "passed", "failed"}]
    OBVIOUS
  <2>4. probe' \in [Requests -> [Probes -> {"waiting", "asking", "passed", "failed"}]]
    BY <2>2, <2>3
  <2>5. seen' \in [Requests -> SUBSET Probes]
    <3>1. seen' = seen \/ seen' = [seen EXCEPT ![r] = @ \cup {p}]
      BY <1>11 DEF ProbeStarts, ProbePasses, ProbeFails
    <3>2. seen \in [Requests -> SUBSET Probes]
      BY DEF TypeOK
    <3>3. seen[r] \cup {p} \in SUBSET Probes
      BY <3>2
    <3>4. ASSUME NEW T, NEW f \in [Requests -> T], NEW x1 \in T PROVE [f EXCEPT ![r] = x1] \in [Requests -> T]
      OBVIOUS
    <3> HIDE DEF TypeOK
    <3> QED
      BY <3>1, <3>2, <3>3, <3>4
  <2>6. UNCHANGED <<enabled, unexpected, at, raised, sent, started, early, up>>
    BY <1>11 DEF ProbeStarts, ProbePasses, ProbeFails, request
  <2> QED
    BY <2>4, <2>5, <2>6
<1>12. ASSUME Flip PROVE TypeOK'
  BY <1>12 DEF Flip, request, readiness
<1> QED
  BY <1>2, <1>3, <1>4, <1>5, <1>6, <1>7, <1>8, <1>9, <1>10, <1>11, <1>12

(* Nothing but what the callers do moves a handle.                         *)
LEMMA HandleFrame ==
    ASSUME HandleInv, TypeOK', UNCHANGED handles
    PROVE  HandleInv'
  BY DEF HandleInv, handles, Awaited, DefaultUsable, HandlesAccountedFor

(* init_engine puts a fresh handle in the place of the default.            *)
LEMMA InitEngineKeeps ==
    ASSUME HandleInv, NEW c \in Callers, InitEngine(c)
    PROVE  HandleInv'
<1> USE HandleFacts
<1>1. made \in Nat /\ made + 1 \in Handles /\ made' = made + 1 /\ default' = made + 1
  BY DEF HandleInv, TypeOK, InitEngine
<1>2. call' \in [Callers -> {NoCall} \cup [op : {"init", "close"}, handle : Handles]]
  BY <1>1 DEF HandleInv, TypeOK, InitEngine, Previous
<1>3. TypeOK'
  BY <1>1, <1>2 DEF HandleInv, TypeOK, InitEngine, config, request, readiness
<1>4. ASSUME NEW d \in Callers PROVE Awaited(d)'
  <2>1. CASE d = c
    BY <1>1, <2>1 DEF HandleInv, TypeOK, InitEngine, Previous, Awaited
  <2>2. CASE d # c
    <3>1. call'[d] = call[d]
      BY <2>2 DEF HandleInv, TypeOK, InitEngine
    <3>2. call[d].op = "close" => made + 1 \in raced'
      BY DEF InitEngine, Closing
    <3> QED
      BY <1>1, <3>1, <3>2 DEF HandleInv, Awaited
  <2> QED
    BY <2>1, <2>2
<1>5. DefaultUsable'
  BY <1>1 DEF HandleInv, TypeOK, InitEngine, DefaultUsable
<1>6. ASSUME NEW h \in 1..made'
      PROVE  \/ h = default' \/ h \in disposed' \/ \E d \in Callers : call'[d].handle = h
             \/ h \in raced' \cup failed'
  <2>1. CASE h = made + 1
    BY <1>1, <2>1
  <2>2. CASE h = default
    <3>1. call'[c].handle = h
      BY <1>1, <2>2 DEF HandleInv, TypeOK, InitEngine, Previous
    <3> QED
      BY <3>1
  <2>3. CASE h # made + 1 /\ h # default
    <3>1. h \in 1..made
      BY <1>1, <2>3
    <3>2. ASSUME NEW d \in Callers, call[d].handle = h PROVE call'[d].handle = h
      <4>1. d # c
        BY <3>1, <3>2 DEF InitEngine
      <4> QED
        BY <3>2, <4>1 DEF HandleInv, TypeOK, InitEngine
    <3> QED
      BY <2>3, <3>1, <3>2 DEF HandleInv, HandlesAccountedFor, InitEngine
  <2> QED
    BY <2>1, <2>2, <2>3
<1> QED
  BY <1>1, <1>3, <1>4, <1>5, <1>6 DEF HandleInv, HandlesAccountedFor

LEMMA CloseEngineKeeps ==
    ASSUME HandleInv, NEW c \in Callers, CloseEngine(c)
    PROVE  HandleInv'
<1> USE HandleFacts
<1>1. default \in Handles /\ call' = [call EXCEPT ![c] = [op |-> "close", handle |-> default]]
  BY DEF HandleInv, TypeOK, CloseEngine
<1>2. TypeOK'
  BY <1>1 DEF HandleInv, TypeOK, CloseEngine, config, request, readiness
<1>3. ASSUME NEW d \in Callers PROVE Awaited(d)'
  BY <1>1 DEF HandleInv, TypeOK, CloseEngine, Awaited
<1>4. ASSUME NEW h \in 1..made, NEW d \in Callers, call[d].handle = h PROVE call'[d].handle = h
  BY <1>1, <1>4 DEF HandleInv, TypeOK, CloseEngine
<1> QED
  BY <1>1, <1>2, <1>3, <1>4 DEF HandleInv, CloseEngine, DefaultUsable, HandlesAccountedFor

LEMMA DisposesKeeps ==
    ASSUME HandleInv, NEW c \in Callers, Disposes(c) \/ DisposeFails(c)
    PROVE  HandleInv'
<1> USE HandleFacts
<1>1. /\ call[c] \in [op : {"init", "close"}, handle : Handles] /\ call[c].handle \in 1..made
      /\ call' = [call EXCEPT ![c] = NoCall] /\ made' = made /\ raced' = raced
  BY DEF HandleInv, TypeOK, Disposes, DisposeFails, Awaited
<1>2. TypeOK'
  BY <1>1 DEF HandleInv, TypeOK, Disposes, DisposeFails, config, request, readiness
<1>3. default' \in {default, NoHandle} /\ default' \in (1..made) \cup {NoHandle}
  BY DEF HandleInv, Disposes, DisposeFails
<1>4. ASSUME NEW d \in Callers PROVE Awaited(d)'
  <2>1. CASE d = c
    BY <1>1, <2>1 DEF HandleInv, TypeOK, Awaited
  <2>2. CASE d # c
    <3>1. call'[d] = call[d]
      BY <1>1, <2>2 DEF HandleInv, TypeOK
    <3>2. call[d].op = "init" => call[d].handle # NoHandle
      BY DEF HandleInv, TypeOK, Awaited
    <3> QED
      BY <1>1, <1>3, <3>1, <3>2 DEF HandleInv, Awaited
  <2> QED
    BY <2>1, <2>2
<1>5. DefaultUsable'
  <2>1. CASE call[c].op = "close"
    <3>1. disposed' \subseteq 1..made /\ made \in Nat
      <4>1. disposed' \subseteq 1..made'
        BY <1>2 DEF TypeOK
      <4>2. made \in Nat
        BY DEF HandleInv, TypeOK
      <4> QED
        BY <1>1, <4>1, <4>2
    <3>2. NoHandle \notin disposed'
      <4>1. 1..made \subseteq Nat
        BY <3>1
      <4> QED
        BY <3>1, <4>1, HandleFacts
    <3>3. default' = NoHandle \/ (default' = default /\ disposed' = disposed)
      BY <2>1 DEF Disposes, DisposeFails
    <3> QED
      BY <3>2, <3>3 DEF HandleInv, DefaultUsable
  <2>2. CASE call[c].op = "init"
    BY <1>1, <2>2 DEF HandleInv, Awaited, DefaultUsable, Disposes, DisposeFails
  <2> QED
    BY <1>1, <2>1, <2>2
<1>6. ASSUME NEW h \in 1..made
      PROVE  \/ h = default' \/ h \in disposed' \/ \E d \in Callers : call'[d].handle = h
             \/ h \in raced' \cup failed'
  <2>1. CASE h = call[c].handle
    BY <2>1 DEF Disposes, DisposeFails
  <2>2. CASE h # call[c].handle
    <3>1. ASSUME NEW d \in Callers, call[d].handle = h PROVE call'[d].handle = h
      BY <1>1, <2>2, <3>1 DEF HandleInv, TypeOK
    <3>2. disposed \subseteq disposed' /\ failed \subseteq failed'
      BY DEF Disposes, DisposeFails
    <3>3. h = default => h = default' \/ h \in raced
      BY <2>2, <1>1 DEF HandleInv, Awaited, Disposes, DisposeFails
    <3> QED
      BY <1>1, <3>1, <3>2, <3>3 DEF HandleInv, HandlesAccountedFor
  <2> QED
    BY <2>1, <2>2
<1> QED
  BY <1>1, <1>2, <1>3, <1>4, <1>5, <1>6 DEF HandleInv, HandlesAccountedFor

(* connection.py 116-142: the handles' inductive invariant.                *)
LEMMA HandlesInvariance == Spec => []HandleInv
<1>1. HandleInv /\ [Next]_vars => HandleInv'
  <2>1. ASSUME HandleInv, UNCHANGED vars PROVE HandleInv'
    <3>1. TypeOK'
      BY <2>1 DEF HandleInv, TypeOK, vars, config, request, readiness, handles
    <3> QED
      BY <2>1, <3>1, HandleFrame DEF vars
  <2>2. ASSUME HandleInv, NEW r \in Requests, NEW p \in Probes, ProbeStarts(r, p) \/ ProbePasses(r, p) \/ ProbeFails(r, p)
        PROVE  HandleInv'
    BY <2>2, RequestTypes, HandleFrame DEF HandleInv, ProbeStarts, ProbePasses, ProbeFails
  <2>3. ASSUME HandleInv, NEW r \in Requests, NEW e \in Errors, Raise(r, e) PROVE HandleInv'
    BY <2>3, RequestTypes, HandleFrame DEF HandleInv, Raise
  <2>4. ASSUME HandleInv, NEW r \in Requests,
               Arrive(r) \/ Preflight(r) \/ Respond(r) \/ Return(r) \/ Answer(r)
        PROVE  HandleInv'
    <3>1. UNCHANGED handles
      BY <2>4 DEF Arrive, Preflight, Respond, Return, Answer
    <3>2. TypeOK'
      BY <2>4, <3>1, RequestTypes DEF HandleInv
    <3> QED
      BY <2>4, <3>1, <3>2, HandleFrame
  <2>5. ASSUME HandleInv, NEW r \in Requests, Envelope(r) \/ EnvelopeBody(r) \/ Escape(r) PROVE HandleInv'
    <3>1. UNCHANGED handles
      BY <2>5 DEF Envelope, EnvelopeBody, Escape
    <3>2. TypeOK'
      BY <2>5, <3>1, RequestTypes DEF HandleInv
    <3> QED
      BY <2>5, <3>1, <3>2, HandleFrame
  <2>6. ASSUME HandleInv, Flip PROVE HandleInv'
    BY <2>6, RequestTypes, HandleFrame DEF HandleInv, Flip
  <2> QED
    BY <2>1, <2>2, <2>3, <2>4, <2>5, <2>6, InitEngineKeeps, CloseEngineKeeps, DisposesKeeps DEF Next
<1> QED
  BY <1>1, InitHandles, PTL DEF Spec

(* Every state is well typed. *)
THEOREM TypeCorrectness == Spec => []TypeOK
  BY HandlesInvariance, PTL DEF HandleInv

(* connection.py init_engine, close_engine: the default handle is never    *)
(* one already disposed.                                                   *)
THEOREM UsableDefault == Spec => []DefaultUsable
  BY HandlesInvariance, PTL DEF HandleInv

(* connection.py init_engine, close_engine: no handle is lost open, except *)
(* one whose dispose failed or that was installed under a close.           *)
THEOREM NoHandleLost == Spec => []HandlesAccountedFor
  BY HandlesInvariance, PTL DEF HandleInv

-----------------------------------------------------------------------------
(* Responses: what a request has got by the place it is at. *)

Answered(r) == "envelope" \in enabled /\ (raised[r] \in AppErrors \/ (raised[r] = "other" /\ unexpected))
EnvelopeStart(r) == Start(Status(raised[r]), Position("envelope"))
Nothing(r) == sent[r] = <<>> /\ ~started[r]
OneStart(r) == Len(sent[r]) = 1 /\ sent[r][1].kind = "start"
Whole(r) == Len(sent[r]) = 2 /\ sent[r][1].kind = "start" /\ sent[r][2].kind = "body"
Got(r, start, body) == Whole(r) /\ sent[r][1] = start /\ sent[r][2] = body
Some(r) == OneStart(r) \/ Whole(r)
Calm(r) == raised[r] = "none" /\ ~early[r]
Unprobed(r) == \A p \in Probes : probe[r][p] = "waiting"
Told200(r) == sent[r] # <<>> /\ sent[r][1].status = "200"

Away(r) == at[r] = "away" => Nothing(r) /\ Calm(r) /\ Unprobed(r)
InReady(r) == at[r] = "ready" => Nothing(r) /\ Calm(r)
InCors(r) == at[r] = "cors" => (Nothing(r) \/ OneStart(r)) /\ Calm(r) /\ Unprobed(r)
InApp(r) == at[r] = "app" => /\ Calm(r)
                            /\ \/ Nothing(r) /\ Unprobed(r)
                               \/ Some(r) /\ ("envelope" \in enabled => started[r])
Out(r) == at[r] = "out" => /\ Nothing(r) \/ Some(r)
                          /\ (early[r] => Nothing(r))
                          /\ (Answered(r) /\ ~started[r] => Nothing(r))
InEnvelope(r) == at[r] = "envelope" => Answered(r) /\ OneStart(r) /\ sent[r][1] = EnvelopeStart(r)
Over(r) == at[r] = "over" =>
    /\ sent[r] = <<>> \/ Some(r)
    /\ early[r] => \/ raised[r] = "cancelled" /\ sent[r] = <<>>
                   \/ Answered(r) /\ Got(r, EnvelopeStart(r), Body(Position("envelope")))
                   \/ ~Answered(r) /\ Got(r, Start("plain 500", 0), Body(0))
Honest(r) ==
    /\ \A p \in Probes : probe[r][p] = "passed" => p \in seen[r]
    /\ Told200(r) => Unprobed(r) \/ \A p \in Probes : probe[r][p] = "passed"
Local(r) ==
    /\ Away(r) /\ InReady(r) /\ InCors(r) /\ InApp(r) /\ Out(r) /\ InEnvelope(r) /\ Over(r)
    /\ Honest(r)

ResponseInv == TypeOK /\ \A r \in Requests : Local(r)

(* The state of one request. *)
Same(q) == /\ at'[q] = at[q] /\ raised'[q] = raised[q] /\ sent'[q] = sent[q] /\ started'[q] = started[q]
           /\ early'[q] = early[q] /\ probe'[q] = probe[q] /\ seen'[q] = seen[q]

LEMMA LocalFrame ==
    ASSUME UNCHANGED config, NEW q \in Requests, Same(q), Local(q)
    PROVE  Local(q)'
<1>1. /\ EnvelopeStart(q)' = EnvelopeStart(q)
      /\ Start("plain 500", 0)' = Start("plain 500", 0)
      /\ Body(0)' = Body(0) /\ Body(Position("envelope"))' = Body(Position("envelope"))
  BY DEF Same, config, EnvelopeStart, Start, Body, Traced, Passed, Status
<1>2. /\ Nothing(q)' = Nothing(q) /\ OneStart(q)' = OneStart(q) /\ Whole(q)' = Whole(q) /\ Calm(q)' = Calm(q)
      /\ Answered(q)' = Answered(q) /\ Unprobed(q)' = Unprobed(q) /\ Told200(q)' = Told200(q)
  BY DEF Same, config, Nothing, OneStart, Whole, Calm, Answered, Unprobed, Told200
<1>3. Away(q)' /\ InReady(q)' /\ InCors(q)' /\ InApp(q)' /\ Out(q)'
  BY <1>1, <1>2 DEF Same, config, Local, Away, InReady, InCors, InApp, Out, Some
<1>4. InEnvelope(q)' /\ Over(q)'
  BY <1>1, <1>2 DEF Same, config, Local, InEnvelope, Over, Some, Got
<1>5. Honest(q)'
  BY <1>2 DEF Same, Local, Honest
<1> QED
  BY <1>3, <1>4, <1>5 DEF Local

LEMMA InitLocal == Init => \A r \in Requests : Local(r)
<1> SUFFICES ASSUME Init, NEW r \in Requests PROVE Local(r)
  OBVIOUS
<1>1. at[r] = "away" /\ Nothing(r) /\ Calm(r) /\ Unprobed(r) /\ ~Told200(r)
  BY DEF Init, Nothing, Calm, Unprobed, Told200
<1> QED
  BY <1>1 DEF Local, Away, InReady, InCors, InApp, Out, InEnvelope, Over, Honest, Unprobed

(* An action on one request leaves the others alone. *)
LEMMA Others ==
    ASSUME ResponseInv, NEW r \in Requests, NEW q \in Requests, q # r,
           \/ Arrive(r) \/ Preflight(r) \/ Respond(r) \/ Return(r) \/ Answer(r)
           \/ Envelope(r) \/ EnvelopeBody(r) \/ Escape(r)
           \/ \E e \in Errors : Raise(r, e)
           \/ \E p \in Probes : ProbeStarts(r, p) \/ ProbePasses(r, p) \/ ProbeFails(r, p)
    PROVE  Same(q) /\ UNCHANGED config
<1> USE DEF ResponseInv, TypeOK, Same
<1>1. ASSUME Arrive(r) \/ Return(r) \/ Escape(r) PROVE Same(q) /\ UNCHANGED config
  BY <1>1 DEF Arrive, Return, Escape, readiness
<1>2. ASSUME Preflight(r) \/ Respond(r) \/ Answer(r) PROVE Same(q) /\ UNCHANGED config
  BY <1>2 DEF Preflight, Respond, Answer, Send, readiness
<1>3. ASSUME Envelope(r) \/ EnvelopeBody(r) PROVE Same(q) /\ UNCHANGED config
  BY <1>3 DEF Envelope, EnvelopeBody, Send, readiness
<1>4. ASSUME NEW e \in Errors, Raise(r, e) PROVE Same(q) /\ UNCHANGED config
  BY <1>4 DEF Raise, readiness
<1>5. ASSUME NEW p \in Probes, ProbeStarts(r, p) \/ ProbePasses(r, p) \/ ProbeFails(r, p)
      PROVE  Same(q) /\ UNCHANGED config
  BY <1>5 DEF ProbeStarts, ProbePasses, ProbeFails, request
<1> QED
  BY <1>1, <1>2, <1>3, <1>4, <1>5

(* What the first and the second message sent make of a request. *)
LEMMA FirstSent ==
    ASSUME TypeOK, NEW r \in Requests, sent[r] = <<>>, NEW status \in Statuses, NEW place \in Int,
           Send(r, Start(status, place), place)
    PROVE  sent'[r] = <<Start(status, place)>> /\ OneStart(r)' /\ sent'[r][1].status = status
           /\ ("envelope" \in Passed(place) => started'[r])
<1>1. Start(status, place) \in Messages /\ Start(status, place).kind = "start" /\ Start(status, place).status = status
  BY MessageTypes DEF Start
<1>2. sent'[r] = Append(<<>>, Start(status, place))
  BY <1>1, Sends
<1>3. sent'[r] = <<Start(status, place)>>
  BY <1>2
<1>4. "envelope" \in Passed(place) => started'[r]
  BY <1>1, Sends
<1> QED
  BY <1>1, <1>3, <1>4 DEF OneStart

LEMMA SecondSent ==
    ASSUME TypeOK, NEW r \in Requests, OneStart(r), NEW place \in Int, Send(r, Body(place), place)
    PROVE  Whole(r)' /\ sent'[r][1] = sent[r][1] /\ sent'[r][2] = Body(place) /\ (started[r] => started'[r])
<1>1. Body(place) \in Messages /\ Body(place).kind = "body"
  BY MessageTypes DEF Statuses
<1>2. sent'[r] = Append(sent[r], Body(place)) /\ (started[r] => started'[r])
  BY <1>1, Sends
<1>3. sent[r] \in Seq(Messages) /\ Len(sent[r]) = 1
  BY DEF TypeOK, OneStart
<1>4. Len(sent'[r]) = 2 /\ sent'[r][1] = sent[r][1] /\ sent'[r][2] = Body(place)
  BY <1>1, <1>2, <1>3
<1> QED
  BY <1>1, <1>2, <1>4 DEF OneStart, Whole

LEMMA Pair == ASSUME NEW s, NEW a, NEW b, s = <<a, b>> PROVE Len(s) = 2 /\ s[1] = a /\ s[2] = b
  OBVIOUS

LEMMA ArriveLocal == ASSUME ResponseInv, NEW r \in Requests, Arrive(r) PROVE Local(r)'
<1>1. /\ Nothing(r)' /\ Calm(r)' /\ Unprobed(r)' /\ ~Told200(r)'
      /\ at'[r] \in {"app", "ready", "cors"}
  <2>1. Nothing(r) /\ Calm(r) /\ Unprobed(r) /\ at \in [Requests -> {"away", "app", "ready", "cors", "out", "envelope", "over"}]
    BY DEF ResponseInv, Local, Away, Arrive, TypeOK
  <2>2. PICK place \in {"app", "ready", "cors"} : at' = [at EXCEPT ![r] = place]
    BY DEF Arrive
  <2>3. at'[r] \in {"app", "ready", "cors"}
    BY <2>1, <2>2
  <2> QED
    BY <2>1, <2>3 DEF Arrive, Nothing, Calm, Unprobed, Told200, readiness
<1> QED
  BY <1>1 DEF Local, Away, InReady, InCors, InApp, Out, InEnvelope, Over, Honest, Unprobed

LEMMA PreflightLocal == ASSUME ResponseInv, NEW r \in Requests, Preflight(r) PROVE Local(r)'
<1>1. Position("cors") \in Int /\ "200" \in Statuses
  BY Places DEF Statuses
<1>2. Calm(r)' /\ Unprobed(r)' /\ at[r] = "cors" /\ at \in [Requests -> {"away", "app", "ready", "cors", "out", "envelope", "over"}]
  BY DEF ResponseInv, Local, InCors, Preflight, Calm, Unprobed, TypeOK, readiness
<1>3. CASE sent[r] = <<>>
  <2>1. OneStart(r)'
    BY <1>1, <1>3, FirstSent DEF ResponseInv, Preflight
  <2>2. at'[r] = "cors"
    BY <1>2, <1>3 DEF Preflight
  <2> QED
    BY <1>2, <2>1, <2>2 DEF Local, Away, InReady, InCors, InApp, Out, InEnvelope, Over, Honest, Unprobed
<1>4. CASE sent[r] # <<>>
  <2>1. OneStart(r)
    BY <1>2, <1>4 DEF ResponseInv, Local, InCors, Nothing
  <2>2. Whole(r)'
    BY <1>1, <1>4, <2>1, SecondSent DEF ResponseInv, Preflight
  <2>3. at'[r] = "over"
    BY <1>2, <1>4 DEF Preflight
  <2>4. ~early'[r]
    BY <1>2 DEF Calm
  <2> QED
    BY <1>2, <2>2, <2>3, <2>4 DEF Local, Away, InReady, InCors, InApp, Out, InEnvelope, Over, Honest, Unprobed, Some
<1> QED
  BY <1>3, <1>4

LEMMA RespondLocal == ASSUME ResponseInv, NEW r \in Requests, Respond(r) PROVE Local(r)'
<1>1. App \in Int /\ "200" \in Statuses /\ ("envelope" \in enabled => "envelope" \in Passed(App))
  BY Places DEF Statuses, Passed
<1>2. Calm(r)' /\ at'[r] = "app" /\ at[r] = "app" /\ Local(r) /\ TypeOK /\ probe' = probe /\ seen' = seen /\ enabled' = enabled
  BY DEF ResponseInv, Local, InApp, Respond, Calm, readiness, config
<1>3. /\ Some(r)' /\ ("envelope" \in enabled => started'[r]) /\ Honest(r)'
  <2>1. CASE sent[r] = <<>>
    <3>1. Unprobed(r)
      BY <1>2, <2>1 DEF Local, InApp, Some, OneStart, Whole
    <3>2. Send(r, Start("200", App), App)
      BY <2>1 DEF Respond
    <3>3. OneStart(r)' /\ ("envelope" \in Passed(App) => started'[r])
      BY <1>1, <1>2, <2>1, <3>2, FirstSent
    <3> QED
      BY <1>1, <1>2, <3>1, <3>3 DEF Some, Honest, Unprobed
  <2>2. CASE sent[r] # <<>>
    <3>1. Len(sent[r]) = 1 /\ Send(r, Body(App), App)
      BY <2>2 DEF Respond
    <3>2. OneStart(r) /\ ("envelope" \in enabled => started[r])
      BY <1>2, <2>2, <3>1 DEF Local, InApp, Nothing, Some, Whole
    <3>3. Whole(r)' /\ (started[r] => started'[r]) /\ sent'[r][1] = sent[r][1]
      BY <1>1, <1>2, <3>1, <3>2, SecondSent
    <3>4. Told200(r)' <=> Told200(r)
      BY <3>1, <3>3 DEF Told200, Whole
    <3> QED
      BY <1>2, <3>2, <3>3, <3>4 DEF Some, Local, Honest, Unprobed
  <2> QED
    BY <2>1, <2>2
<1> QED
  BY <1>2, <1>3 DEF Local, Away, InReady, InCors, InApp, Out, InEnvelope, Over

LEMMA ReturnLocal == ASSUME ResponseInv, NEW r \in Requests, Return(r) PROVE Local(r)'
<1>1. TypeOK /\ Local(r) /\ at[r] = "app" /\ Len(sent[r]) = 2 /\ UNCHANGED <<config, raised, sent, started, early, probe, seen>>
  BY DEF ResponseInv, Return, readiness
<1>2. at'[r] = "over"
  BY <1>1 DEF Return, TypeOK
<1>3. Calm(r)' /\ Some(r)'
  BY <1>1 DEF Local, InApp, Nothing, Calm, Some, OneStart, Whole
<1>4. Honest(r)'
  BY <1>1 DEF Local, Honest, Told200, Unprobed
<1> QED
  BY <1>2, <1>3, <1>4 DEF Local, Away, InReady, InCors, InApp, Out, InEnvelope, Over, Calm

LEMMA AnswerLocal == ASSUME ResponseInv, NEW r \in Requests, Answer(r) PROVE Local(r)'
<1> DEFINE status == IF \A p \in Probes : probe[r][p] = "passed" THEN "200" ELSE "503"
<1>1. App \in Int /\ status \in Statuses /\ ("envelope" \in enabled => "envelope" \in Passed(App))
  BY Places DEF Statuses, Passed
<1>2. TypeOK /\ Local(r) /\ at[r] = "ready" /\ UNCHANGED <<config, raised, early, probe, seen>>
  BY DEF ResponseInv, Answer, readiness
<1>3. Nothing(r) /\ Calm(r) /\ Calm(r)' /\ at'[r] = "app"
  BY <1>2 DEF Local, InReady, Calm, Answer, TypeOK
<1>4. Send(r, Start(status, App), App)
  BY DEF Answer
<1>5. OneStart(r)' /\ sent'[r][1].status = status /\ ("envelope" \in Passed(App) => started'[r])
  <2> HIDE DEF status
  <2> QED
    BY <1>1, <1>2, <1>3, <1>4, FirstSent DEF Nothing
<1>6. Honest(r)'
  BY <1>2, <1>5 DEF Local, Honest, Told200
<1>7. Some(r)' /\ ("envelope" \in enabled' => started'[r])
  BY <1>1, <1>2, <1>5 DEF Some, config
<1> QED
  BY <1>3, <1>6, <1>7 DEF Local, Away, InReady, InCors, InApp, Out, InEnvelope, Over

LEMMA RaiseLocal == ASSUME ResponseInv, NEW r \in Requests, NEW e \in Errors, Raise(r, e) PROVE Local(r)'
<1>1. TypeOK /\ Local(r) /\ UNCHANGED <<enabled, unexpected, sent, started, probe, seen>>
  BY DEF ResponseInv, Raise, readiness, config
<1>2. /\ at'[r] = "out" /\ raised'[r] = e
      /\ early'[r] = (at[r] \in {"app", "ready"} /\ sent[r] = <<>>)
      /\ at[r] \in {"app", "ready", "cors", "envelope"} /\ (at[r] # "app" => e = "cancelled")
  BY <1>1 DEF Raise, TypeOK
<1>3. Nothing(r) \/ Some(r)
  BY <1>1, <1>2 DEF Local, InApp, InReady, InCors, InEnvelope, Some
<1>4. early'[r] => Nothing(r)
  <2>1. sent[r] = <<>> => ~Some(r)
    BY DEF Some, OneStart, Whole
  <2> QED
    BY <1>2, <1>3, <2>1
<1>5. Answered(r)' /\ ~started[r] => Nothing(r)
  BY <1>1, <1>2 DEF Local, InApp, Answered, AppErrors
<1>6. Honest(r)'
  BY <1>1 DEF Local, Honest, Told200, Unprobed
<1>7. Out(r)'
  BY <1>1, <1>3, <1>4, <1>5 DEF Out, Nothing, Some, OneStart, Whole
<1> QED
  BY <1>2, <1>6, <1>7 DEF Local, Away, InReady, InCors, InApp, InEnvelope, Over

LEMMA CatchesIsAnswered == ASSUME NEW r \in Requests PROVE Catches(r) <=> (Answered(r) /\ ~started[r])
  BY DEF Catches, Answered

LEMMA StatusTypes == ASSUME NEW e PROVE Status(e) \in {"mapped", "500"} /\ Status(e) \in Statuses /\ Status(e) # "200"
  BY DEF Status, Statuses

LEMMA EnvelopeLocal == ASSUME ResponseInv, NEW r \in Requests, Envelope(r) PROVE Local(r)'
<1>1. /\ TypeOK /\ Local(r) /\ at[r] = "out" /\ Catches(r) /\ UNCHANGED <<enabled, unexpected, raised, early, probe, seen>>
      /\ Send(r, EnvelopeStart(r), Position("envelope"))
  BY DEF ResponseInv, Envelope, readiness, config, EnvelopeStart
<1>2. Answered(r) /\ sent[r] = <<>>
  BY <1>1, CatchesIsAnswered DEF Local, Out, Nothing
<1>3. Position("envelope") \in Int
  BY Places
<1>4. sent'[r] = <<EnvelopeStart(r)>> /\ OneStart(r)' /\ sent'[r][1].status = Status(raised[r])
  BY <1>1, <1>2, <1>3, StatusTypes, FirstSent DEF EnvelopeStart
<1>5. EnvelopeStart(r)' = EnvelopeStart(r) /\ (Answered(r)' <=> Answered(r))
  BY <1>1 DEF EnvelopeStart, Start, Passed, Status, Answered
<1>6. at'[r] = "envelope"
  BY <1>1 DEF Envelope, TypeOK
<1>7. sent'[r][1] = EnvelopeStart(r)
  BY <1>4
<1>8. Honest(r)'
  BY <1>1, <1>4, StatusTypes DEF Local, Honest, Told200
<1> QED
  BY <1>2, <1>4, <1>5, <1>6, <1>7, <1>8 DEF Local, Away, InReady, InCors, InApp, Out, InEnvelope, Over

LEMMA EnvelopeBodyLocal == ASSUME ResponseInv, NEW r \in Requests, EnvelopeBody(r) PROVE Local(r)'
<1>1. /\ TypeOK /\ Local(r) /\ at[r] = "envelope" /\ UNCHANGED <<enabled, unexpected, raised, early, probe, seen>>
      /\ Send(r, Body(Position("envelope")), Position("envelope"))
  BY DEF ResponseInv, EnvelopeBody, readiness, config
<1>2. Answered(r) /\ OneStart(r) /\ sent[r][1] = EnvelopeStart(r) /\ Position("envelope") \in Int
  BY <1>1, Places DEF Local, InEnvelope
<1>3. Whole(r)' /\ sent'[r][1] = EnvelopeStart(r) /\ sent'[r][2] = Body(Position("envelope"))
  BY <1>1, <1>2, SecondSent
<1>4. /\ EnvelopeStart(r)' = EnvelopeStart(r) /\ (Answered(r)' <=> Answered(r))
      /\ Body(Position("envelope"))' = Body(Position("envelope"))
  BY <1>1 DEF EnvelopeStart, Start, Body, Traced, Passed, Status, Answered
<1>5. at'[r] = "over"
  BY <1>1 DEF EnvelopeBody, TypeOK
<1>6. ~Told200(r)'
  BY <1>3, StatusTypes DEF Told200, EnvelopeStart, Start
<1>7. Over(r)'
  BY <1>2, <1>3, <1>4 DEF Over, Some, Got
<1> QED
  BY <1>1, <1>5, <1>6, <1>7 DEF Local, Away, InReady, InCors, InApp, Out, InEnvelope, Honest

LEMMA EscapeLocal == ASSUME ResponseInv, NEW r \in Requests, Escape(r) PROVE Local(r)'
<1>1. TypeOK /\ Local(r) /\ at[r] = "out" /\ ~Catches(r) /\ UNCHANGED <<enabled, unexpected, raised, started, early, probe, seen>>
  BY DEF ResponseInv, Escape, readiness, config
<1>2. at'[r] = "over" /\ (Answered(r)' <=> Answered(r))
  BY <1>1 DEF Escape, TypeOK, Answered
<1>3. /\ (Nothing(r) \/ Some(r)) /\ (early[r] => Nothing(r) /\ ~Answered(r))
  BY <1>1, CatchesIsAnswered DEF Local, Out, Nothing
<1>4. CASE sent[r] = <<>> /\ raised[r] # "cancelled"
  <2>1. sent'[r] = <<Start("plain 500", 0), Body(0)>>
    BY <1>1, <1>4 DEF Escape, TypeOK
  <2>2. /\ Start("plain 500", 0)' = Start("plain 500", 0) /\ Body(0)' = Body(0)
        /\ Start("plain 500", 0).kind = "start" /\ Body(0).kind = "body" /\ Start("plain 500", 0).status = "plain 500"
    BY <1>1 DEF Start, Body, Traced, Passed
  <2>3. /\ Len(sent'[r]) = 2 /\ sent'[r][1] = Start("plain 500", 0) /\ sent'[r][2] = Body(0)
    <3>1. Len(sent'[r]) = 2 /\ sent'[r][1] = Start("plain 500", 0)
      BY <2>1, Pair, Zenon
    <3>2. sent'[r][2] = Body(0)
      <4>1. PICK a : a = Start("plain 500", 0)
        OBVIOUS
      <4>2. PICK b : b = Body(0)
        OBVIOUS
      <4>3. sent'[r] = <<a, b>>
        BY <2>1, <4>1, <4>2
      <4>4. sent'[r][2] = b
        BY <4>3
      <4> QED
        BY <4>2, <4>4
    <3> QED
      BY <3>1, <3>2
  <2>4. Whole(r)' /\ Got(r, Start("plain 500", 0), Body(0))' /\ ~Told200(r)'
    BY <2>2, <2>3 DEF Whole, Got, Told200
  <2>5. Over(r)'
    BY <1>1, <1>2, <1>3, <2>4 DEF Over, Some
  <2> QED
    BY <1>1, <1>2, <2>4, <2>5 DEF Local, Away, InReady, InCors, InApp, Out, InEnvelope, Honest
<1>5. CASE ~(sent[r] = <<>> /\ raised[r] # "cancelled")
  <2>1. sent'[r] = sent[r]
    BY <1>1, <1>5 DEF Escape, TypeOK
  <2>2. Over(r)'
    BY <1>1, <1>3, <1>5, <2>1 DEF Over, Some, OneStart, Whole, Nothing
  <2> QED
    BY <1>1, <1>2, <2>1, <2>2 DEF Local, Away, InReady, InCors, InApp, Out, InEnvelope, Honest, Told200, Unprobed
<1> QED
  BY <1>4, <1>5

LEMMA ProbeLocal ==
    ASSUME ResponseInv, NEW r \in Requests, NEW p \in Probes, ProbeStarts(r, p) \/ ProbePasses(r, p) \/ ProbeFails(r, p)
    PROVE  Local(r)'
<1>1. TypeOK /\ Local(r) /\ at[r] = "ready" /\ UNCHANGED <<enabled, unexpected, at, raised, sent, started, early>>
  BY DEF ResponseInv, ProbeStarts, ProbePasses, ProbeFails, request, config
<1>2. Nothing(r)' /\ Calm(r)' /\ ~Told200(r)'
  BY <1>1 DEF Local, InReady, Nothing, Calm, Told200
<1>3. ASSUME NEW q \in Probes, probe'[r][q] = "passed" PROVE q \in seen'[r]
  <2>1. probe[r] \in [Probes -> {"waiting", "asking", "passed", "failed"}] /\ seen[r] \subseteq seen'[r]
    BY <1>1 DEF TypeOK, ProbeStarts, ProbePasses, ProbeFails
  <2>2. CASE ProbePasses(r, p) /\ q = p
    BY <1>1, <2>2 DEF TypeOK, ProbePasses
  <2>3. CASE ~(ProbePasses(r, p) /\ q = p)
    <3>1. probe[r][q] = "passed"
      BY <1>1, <1>3, <2>1, <2>3 DEF TypeOK, ProbeStarts, ProbePasses, ProbeFails, Unready
    <3> QED
      BY <1>1, <2>1, <3>1 DEF Local, Honest
  <2> QED
    BY <2>2, <2>3
<1> QED
  BY <1>1, <1>2, <1>3 DEF Local, Away, InReady, InCors, InApp, Out, InEnvelope, Over, Honest

(* Responses and probes together: the inductive invariant. *)
LEMMA ResponseInvariance == Spec => []ResponseInv
<1>1. Init => ResponseInv
  BY InitTypes, InitLocal DEF ResponseInv
<1>2. ResponseInv /\ TypeOK' /\ [Next]_vars => ResponseInv'
  <2>1. ASSUME ResponseInv, TypeOK', UNCHANGED vars PROVE ResponseInv'
    <3>1. \A q \in Requests : Same(q) /\ UNCHANGED config
      BY <2>1 DEF vars, request, readiness, Same
    <3> QED
      BY <2>1, <3>1, LocalFrame DEF ResponseInv
  <2>2. ASSUME ResponseInv, TypeOK', NEW r \in Requests,
               \/ Arrive(r) \/ Preflight(r) \/ Respond(r) \/ Return(r) \/ Answer(r)
               \/ Envelope(r) \/ EnvelopeBody(r) \/ Escape(r)
               \/ \E e \in Errors : Raise(r, e)
               \/ \E p \in Probes : ProbeStarts(r, p) \/ ProbePasses(r, p) \/ ProbeFails(r, p)
        PROVE  ResponseInv'
    <3>1. Local(r)'
      BY <2>2, ArriveLocal, PreflightLocal, RespondLocal, ReturnLocal, AnswerLocal, EnvelopeLocal,
         EnvelopeBodyLocal, EscapeLocal, RaiseLocal, ProbeLocal
    <3>2. ASSUME NEW q \in Requests, q # r PROVE Local(q)'
      <4>1. Same(q) /\ UNCHANGED config
        BY <2>2, <3>2, Others
      <4> QED
        BY <2>2, <4>1, LocalFrame DEF ResponseInv
    <3> QED
      BY <2>2, <3>1, <3>2 DEF ResponseInv
  <2>3. ASSUME ResponseInv, TypeOK',
               \/ Flip
               \/ \E c \in Callers : InitEngine(c) \/ CloseEngine(c) \/ Disposes(c) \/ DisposeFails(c)
        PROVE  ResponseInv'
    <3>1. \A q \in Requests : Same(q) /\ UNCHANGED config
      BY <2>3 DEF Flip, InitEngine, CloseEngine, Disposes, DisposeFails, request, readiness, Same
    <3> QED
      BY <2>3, <3>1, LocalFrame DEF ResponseInv
  <2> QED
    BY <2>1, <2>2, <2>3 DEF Next
<1> QED
  BY <1>1, <1>2, TypeCorrectness, PTL DEF Spec

(* middleware.py 70-90: a request gets one response at most, whatever     *)
(* raises and whenever.                                                    *)
THEOREM Responses == Spec => []OneResponse
<1>1. ResponseInv => OneResponse
  <2> SUFFICES ASSUME ResponseInv, NEW r \in Requests
               PROVE  /\ Len(sent[r]) <= 2
                      /\ \A i \in DOMAIN sent[r] : (sent[r][i].kind = "start") = (i = 1)
    BY DEF OneResponse
  <2>1. sent[r] = <<>> \/ Some(r)
    BY DEF ResponseInv, TypeOK, Local, Away, InReady, InCors, InApp, Out, InEnvelope, Over, Nothing, Some
  <2>2. sent[r] \in Seq(Messages)
    BY DEF ResponseInv, TypeOK
  <2>3. CASE sent[r] = <<>>
    BY <2>3
  <2>4. CASE OneStart(r)
    <3>1. DOMAIN sent[r] = 1..1
      BY <2>2, <2>4 DEF OneStart
    <3> QED
      BY <2>4, <3>1 DEF OneStart
  <2>5. CASE Whole(r)
    <3>1. DOMAIN sent[r] = 1..2
      BY <2>2, <2>5 DEF Whole
    <3>2. \A i \in 1..2 : i = 1 \/ i = 2
      OBVIOUS
    <3>3. (sent[r][1].kind = "start") = TRUE /\ (sent[r][2].kind = "start") = FALSE
      BY <2>5 DEF Whole
    <3> QED
      BY <2>5, <3>1, <3>2, <3>3 DEF Whole
  <2> QED
    BY <2>1, <2>3, <2>4, <2>5 DEF Some
<1> QED
  BY <1>1, ResponseInvariance, PTL

(* factory.py 128-153: a service that says it is ready reached every       *)
(* dependency since it was asked.                                          *)
THEOREM HonestReadiness == Spec => []ReadyIsTrue
<1>1. ResponseInv => ReadyIsTrue
  <2> SUFFICES ASSUME ResponseInv, NEW r \in Requests, Decided(r), Told200(r)
               PROVE  seen[r] = Probes
    BY DEF ReadyIsTrue, Told200
  <2>1. \A p \in Probes : probe[r][p] = "passed"
    BY DEF ResponseInv, Local, Honest, Decided, Unprobed
  <2>2. \A p \in Probes : p \in seen[r]
    BY <2>1 DEF ResponseInv, Local, Honest
  <2>3. seen[r] \subseteq Probes
    BY DEF ResponseInv, TypeOK
  <2> QED
    BY <2>2, <2>3
<1> QED
  BY <1>1, ResponseInvariance, PTL

(* create_app's order: every other middleware is outside the envelope.     *)
EnvelopeInnermost == \A m \in {"security", "cors", "trace"} : Position(m) < Position("envelope")

(* middleware.py 80-90, for create_app's order: an early error is answered *)
(* in an envelope with its status and every header.                        *)
THEOREM Enveloped == ASSUME EnvelopeInnermost PROVE Spec => []ErrorsEnveloped
<1>1. ResponseInv => ErrorsEnveloped
  <2> SUFFICES ASSUME ResponseInv, NEW r \in Requests, at[r] = "over", early[r], Answered(r)
               PROVE  /\ Len(sent[r]) = 2
                      /\ sent[r][1].status = (IF raised[r] = "known" THEN "mapped" ELSE "500")
                      /\ enabled \cap {"security", "trace"} = sent[r][1].headers
    BY DEF ErrorsEnveloped, Answered
  <2>1. Got(r, EnvelopeStart(r), Body(Position("envelope")))
    BY DEF ResponseInv, Local, Over, Answered, AppErrors
  <2>2. enabled \cap {"security", "trace"} = Passed(Position("envelope")) \cap {"security", "trace"}
    BY DEF EnvelopeInnermost, Passed
  <2> QED
    BY <2>1, <2>2 DEF Got, Whole, EnvelopeStart, Start, Status
<1> QED
  BY <1>1, ResponseInvariance, PTL

(* middleware.py 83-90, for create_app's order: an envelope carries the    *)
(* trace id of its response.                                               *)
THEOREM TracedEnvelopes == ASSUME EnvelopeInnermost PROVE Spec => []EnvelopesTraced
<1>1. ResponseInv => EnvelopesTraced
  <2> SUFFICES ASSUME ResponseInv, NEW r \in Requests, early[r], Len(sent[r]) = 2,
                      sent[r][1].status \in {"mapped", "500"}, "trace" \in enabled
               PROVE  sent[r][2].traced
    BY DEF EnvelopesTraced
  <2>1. sent[r] # <<>> /\ ~Nothing(r) /\ ~OneStart(r)
    BY DEF Nothing, OneStart
  <2>2. at[r] = "over"
    <3>1. at[r] \in {"away", "app", "ready", "cors", "out", "envelope", "over"} /\ Local(r)
      BY DEF ResponseInv, TypeOK
    <3> QED
      BY <2>1, <3>1 DEF Local, Away, InReady, InCors, InApp, Out, InEnvelope, Calm
  <2>3. sent[r][2] = Body(Position("envelope"))
    <3>1. Start("plain 500", 0).status = "plain 500"
      BY DEF Start
    <3>2. ~Got(r, Start("plain 500", 0), Body(0))
      BY <3>1 DEF Got
    <3> QED
      BY <2>1, <2>2, <3>2 DEF ResponseInv, Local, Over, Got
  <2>4. Traced(Position("envelope"))
    BY DEF EnvelopeInnermost, Traced, Passed
  <2> QED
    BY <2>3, <2>4 DEF Body
<1> QED
  BY <1>1, ResponseInvariance, PTL
=============================================================================
