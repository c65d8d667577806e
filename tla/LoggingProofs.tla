---------------------------- MODULE LoggingProofs ----------------------------
(***************************************************************************)
(* Proofs about Logging, for any threads, fields, depth of blocks, records *)
(* and set-ups.                                                            *)
(*                                                                         *)
(* No action changes both scopes and the queued log, so each half has an   *)
(* invariant of its own (IInv).  Of the scopes, what a block saved         *)
(* is what the block around it says, in every part of the context it will  *)
(* put back (NestInv).  Of the log, a record's number puts what is written *)
(* before what is queued before what is logged next (OrderInv, QueueInv)   *)
(* while a listener runs, for the handler a call finds then queues         *)
(* (ModeInv).                                                              *)
(***************************************************************************)
EXTENDS Logging, SequenceTheorems, TLAPS

ScopeTypes ==
    /\ context \in [Threads -> Contexts]
    /\ frames \in [Threads -> Seq(Frames)]
    /\ base \in [Threads -> Ids]
    /\ bound \subseteq Contexts
    /\ minted \in 0..MaxIds

PipeTypes ==
    /\ handler \in Handlers \cup {Off}
    /\ filtered \in BOOLEAN
    /\ fetched \in [Threads -> Handlers \cup {Off}]
    /\ queue \in Seq(Records \cup {Stop})
    /\ listener \in BOOLEAN
    /\ setup \in {"idle", "shut", "queue", "direct"}
    /\ setups \in 0..MaxSetups
    /\ logged \in [Threads -> Nat]
    /\ accepted \subseteq Threads \X (Nat \ {0})
    /\ written \in [Threads -> Seq(Records)]

-----------------------------------------------------------------------------
(* The context around a block, and what the block keeps of it.  A block of *)
(* fields does not touch the trace, and is not to put it back.             *)
Around(t, i) == IF i = 1 THEN Outside(t) ELSE frames[t][i - 1].inside

Nested(f, c) ==
    /\ f.saved.root = c.root /\ f.saved.fields = c.fields
    /\ f.kind # "fields" => f.saved.trace = c.trace
    /\ f.kind = "fields" => f.inside.trace = c.trace /\ f.inside.root = c.root
    /\ f.kind = "scope" => f.inside.fields = c.fields /\ (c.root # NoId => f.inside.root = c.root)

NestInv == \A t \in Threads : \A i \in DOMAIN frames[t] : Nested(frames[t][i], Around(t, i))

ScopeInv == ScopeTypes /\ NestInv /\ ContextFollowsScopes

-----------------------------------------------------------------------------
(* While a listener runs, the handlers that can be found queue, and the    *)
(* target handlers have no filter of their own.                            *)
ModeInv ==
    /\ setup \in {"queue", "direct"} => setups < MaxSetups
    /\ listener /\ handler # Off => handler.queues
    /\ listener /\ ~Reuse => ~filtered

StampInv ==
    /\ WrittenAsMeant
    /\ \A j \in DOMAIN queue : queue[j] # Stop => queue[j].stamp = queue[j].meant

(* Number n of thread t was logged before the call it is in.               *)
Past(t, n) == n <= logged[t] /\ (fetched[t] # Off => n < logged[t])

OrderInv ==
    \A t \in Threads :
        /\ fetched[t] # Off => logged[t] > 0
        /\ \A i \in DOMAIN written[t] : Past(t, written[t][i].n)
        /\ \A i, j \in DOMAIN written[t] : i < j => written[t][i].n < written[t][j].n

QueueInv ==
    listener =>
        /\ \A j \in DOMAIN queue : queue[j] # Stop =>
               /\ Past(queue[j].by, queue[j].n)
               /\ \A i \in DOMAIN written[queue[j].by] : written[queue[j].by][i].n < queue[j].n
               /\ fetched[queue[j].by] # Off => fetched[queue[j].by].queues
        /\ \A i, j \in DOMAIN queue :
               i < j /\ queue[i] # Stop /\ queue[j] # Stop /\ queue[i].by = queue[j].by =>
                   queue[i].n < queue[j].n

InWritten(a) == \E i \in DOMAIN written[a[1]] : written[a[1]][i].n = a[2]
InQueue(a) ==
    \E i \in DOMAIN queue : /\ queue[i] # Stop /\ queue[i].by = a[1] /\ queue[i].n = a[2]
                            /\ \A j \in 1..i : queue[j] # Stop
DrainInv == \A a \in accepted : InWritten(a) \/ (listener /\ InQueue(a))

PipeInv == PipeTypes /\ ModeInv /\ OrderInv /\ QueueInv /\ DrainInv

-----------------------------------------------------------------------------
(* TypeOK in its two halves. *)
LEMMA TypesSplit == TypeOK <=> ScopeTypes /\ PipeTypes
BY Zenon DEF TypeOK, ScopeTypes, PipeTypes

(* What the sequence operators of the module return. *)
LEMMA Prefix ==
    ASSUME NEW S, NEW s \in Seq(S), NEW n \in 0..Len(s)
    PROVE  /\ SubSeq(s, 1, n) \in Seq(S)
           /\ Len(SubSeq(s, 1, n)) = n
           /\ \A i \in 1..n : SubSeq(s, 1, n)[i] = s[i]
<1>1. Len(s) \in Nat /\ n \in Int /\ 1 \in Int
    BY LenProperties
<1>2. \A i \in 1..n : s[i] \in S
    BY <1>1, ElementOfSeq
<1>3. /\ SubSeq(s, 1, n) \in Seq(S)
      /\ Len(SubSeq(s, 1, n)) = IF 1 <= n THEN n - 1 + 1 ELSE 0
      /\ \A i \in 1..(n - 1 + 1) : SubSeq(s, 1, n)[i] = s[1 + i - 1]
    BY <1>1, <1>2, SubSeqProperties
<1>4. Len(SubSeq(s, 1, n)) = n
    BY <1>1, <1>3
<1>5. ASSUME NEW i \in 1..n PROVE SubSeq(s, 1, n)[i] = s[i]
    <2>1. i \in 1..(n - 1 + 1) /\ 1 + i - 1 = i
        BY <1>1, <1>5
    <2> QED
        BY <1>3, <2>1
<1> QED
    BY <1>3, <1>4, <1>5

LEMMA LastAndFront ==
    ASSUME NEW S, NEW s \in Seq(S), s # <<>>
    PROVE  /\ Len(s) \in Nat \ {0}
           /\ Last(s) = s[Len(s)] /\ Last(s) \in S
           /\ Front(s) \in Seq(S)
           /\ Len(Front(s)) = Len(s) - 1
           /\ \A i \in 1..(Len(s) - 1) : Front(s)[i] = s[i]
<1>1. Len(s) \in Nat \ {0}
    BY EmptySeq
<1>2. Last(s) = s[Len(s)] /\ Last(s) \in S
    BY <1>1, ElementOfSeq DEF Last
<1> DEFINE n == Len(s) - 1
<1>3. n \in 0..Len(s) /\ Front(s) = SubSeq(s, 1, n)
    BY <1>1 DEF Front
<1> HIDE DEF n
<1>4. /\ Front(s) \in Seq(S)
      /\ Len(Front(s)) = n
      /\ \A i \in 1..n : Front(s)[i] = s[i]
    BY <1>3, Prefix
<1> QED
    BY <1>1, <1>2, <1>4 DEF n

(* A sequence after Append, entry by entry. *)
LEMMA Appended ==
    ASSUME NEW S, NEW s \in Seq(S), NEW e \in S
    PROVE  /\ Append(s, e) \in Seq(S) /\ Append(s, e) # <<>>
           /\ Len(s) \in Nat /\ Len(Append(s, e)) = Len(s) + 1
           /\ DOMAIN s = 1..Len(s) /\ DOMAIN Append(s, e) = 1..(Len(s) + 1)
           /\ \A i \in 1..Len(s) : Append(s, e)[i] = s[i]
           /\ Append(s, e)[Len(s) + 1] = e
BY AppendProperties, LenProperties

(* A sequence whose entries are replaced by entries of the same set. *)
LEMMA Replaced ==
    ASSUME NEW S, NEW s \in Seq(S), NEW r, r \in [DOMAIN s -> S]
    PROVE  r \in Seq(S) /\ Len(r) = Len(s)
<1>1. Len(s) \in Nat /\ DOMAIN s = 1..Len(s)
    BY LenProperties
<1>2. r \in [1..Len(s) -> S] /\ DOMAIN r = 1..Len(s)
    BY <1>1
<1>3. r \in Seq(S)
    BY <1>1, <1>2, SeqDef
<1> QED
    BY <1>1, <1>2, <1>3, LenProperties

(* The parts of a context, and what the blocks and setters make of it. *)
LEMMA BlankIsAContext == NoId \in Ids /\ Blank \in Contexts
BY DEF Ids, Blank, Contexts

LEMMA Updates ==
    ASSUME NEW c \in Contexts, NEW id \in Ids, NEW fs \in SUBSET Fields
    PROVE  /\ [c EXCEPT !.trace = id] \in Contexts
           /\ InScope(c, id) \in Contexts /\ InFields(c, fs) \in Contexts
BY DEF Contexts, InScope, InFields

LEMMA SameParts ==
    ASSUME NEW c \in Contexts, NEW d \in Contexts,
           c.trace = d.trace, c.root = d.root, c.fields = d.fields
    PROVE  c = d
BY DEF Contexts

LEMMA FrameParts ==
    ASSUME NEW f \in Frames
    PROVE  /\ f.kind \in {"scope", "fields", "job"}
           /\ f.saved \in Contexts /\ f.inside \in Contexts
           /\ Restored(f, f.inside) \in Contexts
BY DEF Frames, Contexts, Restored

(* The number of ids: one that was not given out is an id, and no default. *)
LEMMA FreshId ==
    ASSUME ScopeTypes, minted < MaxIds
    PROVE  minted + 1 \in Ids /\ minted + 1 # NoId /\ minted + 1 \in 0..MaxIds
BY BoundsAssumption, NamesAssumption DEF ScopeTypes, Ids

-----------------------------------------------------------------------------
(* Scopes. *)

LEMMA OutsideIsAContext ==
    ASSUME ScopeTypes, NEW t \in Threads
    PROVE  /\ Outside(t) \in Contexts
           /\ Outside(t) = [trace |-> base[t], root |-> NoId, fields |-> {}]
<1>1. base[t] \in Ids /\ NoId \in Ids /\ {} \in SUBSET Fields
    BY BlankIsAContext DEF ScopeTypes
<1>2. Outside(t) = [trace |-> base[t], root |-> NoId, fields |-> {}]
    BY DEF Outside, Blank
<1> QED
    BY <1>1, <1>2 DEF Contexts

(* Entering a block: the frame it adds is nested in what was around. *)
LEMMA EntersNested ==
    ASSUME ScopeInv, NEW t \in Threads, NEW kind \in {"scope", "fields", "job"},
           NEW inside \in Contexts, Enter(t, kind, inside, inside),
           Nested([kind |-> kind, saved |-> context[t], inside |-> inside], context[t]),
           minted' \in 0..MaxIds
    PROVE  ScopeInv'
<1> DEFINE f == [kind |-> kind, saved |-> context[t], inside |-> inside]
<1>1. f \in Frames /\ context[t] \in Contexts
    BY DEF ScopeInv, ScopeTypes, Frames
<1>2. frames[t] \in Seq(Frames)
    BY DEF ScopeInv, ScopeTypes
<1>3. context' = [context EXCEPT ![t] = inside] /\ base' = base /\ bound' = bound
    BY DEF Enter
<1>4. frames' = [frames EXCEPT ![t] = Append(@, f)]
    BY DEF Enter
<1> HIDE DEF f
<1>5. frames' \in [Threads -> Seq(Frames)] /\ frames'[t] = Append(frames[t], f)
    BY <1>1, <1>2, <1>4, Appended DEF ScopeInv, ScopeTypes
<1>6. ScopeTypes'
    BY <1>1, <1>3, <1>5 DEF ScopeInv, ScopeTypes
<1>7. \A u \in Threads : Outside(u)' = Outside(u)
    BY <1>3 DEF Outside
<1>8. \A u \in Threads \ {t} : frames'[u] = frames[u] /\ context'[u] = context[u]
    BY <1>3, <1>4 DEF ScopeInv, ScopeTypes
<1>9. /\ Len(frames[t]) \in Nat /\ DOMAIN frames[t] = 1..Len(frames[t])
      /\ DOMAIN frames'[t] = 1..(Len(frames[t]) + 1) /\ Len(frames'[t]) = Len(frames[t]) + 1
      /\ \A i \in 1..Len(frames[t]) : frames'[t][i] = frames[t][i]
      /\ frames'[t][Len(frames[t]) + 1] = f
      /\ frames'[t] # <<>>
    BY <1>1, <1>2, <1>5, Appended
<1>10. NestInv'
    <2> SUFFICES ASSUME NEW u \in Threads, NEW i \in DOMAIN frames'[u]
                 PROVE  Nested(frames'[u][i], Around(u, i)')
        BY DEF NestInv, Nested
    <2>1. CASE u # t
        <3>1. Around(u, i)' = Around(u, i)
            BY <1>7, <1>8, <2>1 DEF Around
        <3> QED
            BY <1>8, <2>1, <3>1 DEF ScopeInv, NestInv
    <2>2. CASE u = t /\ i \in DOMAIN frames[t]
        <3>1. Around(t, i)' = Around(t, i)
            BY <1>7, <1>9, <2>2 DEF Around
        <3> QED
            BY <1>9, <2>2, <3>1 DEF ScopeInv, NestInv
    <2>3. CASE u = t /\ i = Len(frames[t]) + 1
        <3>1. Around(t, i)' = context[t]
            <4>1. context[t] = Expected(t)
                BY DEF ScopeInv, ContextFollowsScopes
            <4>2. CASE frames[t] = <<>>
                BY <1>7, <1>9, <2>3, <4>1, <4>2, EmptySeq DEF Around, Expected
            <4>3. CASE frames[t] # <<>>
                <5>1. Len(frames[t]) \in Nat \ {0} /\ Last(frames[t]) = frames[t][Len(frames[t])]
                    BY <1>2, <4>3, LastAndFront
                <5>2. i # 1 /\ i - 1 = Len(frames[t]) /\ i - 1 \in 1..Len(frames[t])
                    BY <2>3, <5>1
                <5>3. Around(t, i)' = frames'[t][i - 1].inside
                    BY <5>2 DEF Around
                <5>4. frames'[t][i - 1] = Last(frames[t])
                    BY <1>9, <5>1, <5>2
                <5> QED
                    BY <4>1, <4>3, <5>3, <5>4 DEF Expected
            <4> QED
                BY <4>2, <4>3
        <3>2. Nested(f, context[t])
            BY DEF f
        <3> QED
            BY <1>9, <2>3, <3>1, <3>2
    <2> QED
        BY <1>9, <2>1, <2>2, <2>3
<1>11. ContextFollowsScopes'
    <2> SUFFICES ASSUME NEW u \in Threads PROVE context'[u] = Expected(u)'
        BY DEF ContextFollowsScopes
    <2>1. CASE u # t
        BY <1>7, <1>8, <2>1 DEF ScopeInv, ContextFollowsScopes, Expected
    <2>2. CASE u = t
        <3>1. context'[t] = inside
            BY <1>3 DEF ScopeInv, ScopeTypes
        <3>2. frames'[t] # <<>> /\ Last(frames'[t]) = f
            BY <1>5, <1>9, LastAndFront DEF Last
        <3> QED
            BY <2>2, <3>1, <3>2 DEF Expected, f
    <2> QED
        BY <2>1, <2>2
<1> QED
    BY <1>6, <1>10, <1>11 DEF ScopeInv

LEMMA OpenScopeStep ==
    ASSUME ScopeInv, NEW t \in Threads, OpenScope(t)
    PROVE  ScopeInv'
<1> DEFINE in == InScope(context[t], minted + 1)
<1>1. context[t] \in Contexts /\ Expected(t) = context[t]
    BY DEF ScopeInv, ScopeTypes, ContextFollowsScopes
<1>2. minted < MaxIds /\ minted' = minted + 1 /\ Enter(t, "scope", in, in)
    BY <1>1 DEF OpenScope
<1>3. minted + 1 \in Ids /\ minted + 1 # NoId /\ minted' \in 0..MaxIds
    BY <1>2, FreshId DEF ScopeInv
<1>4. in \in Contexts
    BY <1>1, <1>3, Updates
<1>5. Nested([kind |-> "scope", saved |-> context[t], inside |-> in], context[t])
    BY <1>1 DEF Nested, InScope, Contexts
<1> QED
    BY <1>2, <1>3, <1>4, <1>5, EntersNested

LEMMA BindFieldsStep ==
    ASSUME ScopeInv, NEW t \in Threads, NEW f \in Fields, BindFields(t, f)
    PROVE  ScopeInv'
<1> DEFINE in == InFields(context[t], {f})
<1>1. context[t] \in Contexts /\ Expected(t) = context[t]
    BY DEF ScopeInv, ScopeTypes, ContextFollowsScopes
<1>2. Enter(t, "fields", in, in) /\ minted' = minted
    BY <1>1 DEF BindFields
<1>3. in \in Contexts
    BY <1>1, Updates, BlankIsAContext
<1>4. Nested([kind |-> "fields", saved |-> context[t], inside |-> in], context[t])
    BY <1>1 DEF Nested, InFields, Contexts
<1>5. minted' \in 0..MaxIds
    BY <1>2 DEF ScopeInv, ScopeTypes
<1> QED
    BY <1>2, <1>3, <1>4, <1>5, EntersNested

LEMMA RunBoundStep ==
    ASSUME ScopeInv, NEW t \in Threads, NEW c \in bound, RunBound(t, c)
    PROVE  ScopeInv'
<1>1. Enter(t, "job", c, c) /\ minted' = minted
    BY DEF RunBound
<1>2. c \in Contexts /\ minted' \in 0..MaxIds
    BY <1>1 DEF ScopeInv, ScopeTypes
<1>3. Nested([kind |-> "job", saved |-> context[t], inside |-> c], context[t])
    BY DEF Nested
<1> QED
    BY <1>1, <1>2, <1>3, EntersNested

LEMMA BindCurrentStep ==
    ASSUME ScopeInv, NEW t \in Threads, BindCurrent(t)
    PROVE  ScopeInv'
<1>1. UNCHANGED <<context, frames, base, minted>> /\ bound' = bound \cup {context[t]}
    BY DEF BindCurrent
<1>2. ScopeTypes'
    BY <1>1 DEF ScopeInv, ScopeTypes
<1>3. \A u \in Threads : Outside(u)' = Outside(u) /\ Expected(u)' = Expected(u)
    BY <1>1 DEF Outside, Expected
<1>4. \A u \in Threads : \A i \in DOMAIN frames[u] : Around(u, i)' = Around(u, i)
    BY <1>1, <1>3 DEF Around
<1> QED
    BY <1>1, <1>2, <1>3, <1>4 DEF ScopeInv, NestInv, ContextFollowsScopes, Nested

(* A block that puts back what it saved leaves what is around it. *)
LEMMA RestoresWhatIsAround ==
    ASSUME NEW f \in Frames, NEW c \in Contexts, Nested(f, c)
    PROVE  Restored(f, f.inside) = c
<1> DEFINE r == Restored(f, f.inside)
<1>1. /\ f.kind \in {"scope", "fields", "job"}
      /\ f.saved \in Contexts /\ f.inside \in Contexts /\ r \in Contexts
    BY FrameParts
<1>2. CASE f.kind = "scope"
    <2>1. r = [f.inside EXCEPT !.trace = f.saved.trace, !.root = IF f.saved.root = NoId THEN NoId ELSE @]
        BY <1>2 DEF Restored
    <2>2. r.trace = c.trace /\ r.root = c.root /\ r.fields = c.fields
        BY <1>1, <1>2, <2>1 DEF Nested, Contexts
    <2> QED
        BY <1>1, <2>2, SameParts
<1>3. CASE f.kind = "fields"
    <2>1. r = [f.inside EXCEPT !.fields = f.saved.fields]
        BY <1>3 DEF Restored
    <2>2. r.trace = c.trace /\ r.root = c.root /\ r.fields = c.fields
        BY <1>1, <1>3, <2>1 DEF Nested, Contexts
    <2> QED
        BY <1>1, <2>2, SameParts
<1>4. CASE f.kind = "job"
    <2>1. r = f.saved
        BY <1>4 DEF Restored
    <2>2. r.trace = c.trace /\ r.root = c.root /\ r.fields = c.fields
        BY <1>4, <2>1 DEF Nested
    <2> QED
        BY <1>1, <2>2, SameParts
<1> QED
    BY <1>1, <1>2, <1>3, <1>4

LEMMA AroundIsAContext ==
    ASSUME ScopeTypes, NEW t \in Threads, NEW i \in DOMAIN frames[t]
    PROVE  Around(t, i) \in Contexts
<1>1. CASE i = 1
    BY <1>1, OutsideIsAContext DEF Around
<1>2. CASE i # 1
    <2>1. frames[t] \in Seq(Frames)
        BY DEF ScopeTypes
    <2>2. Len(frames[t]) \in Nat /\ i \in 1..Len(frames[t])
        BY <2>1, LenProperties
    <2>3. i - 1 \in 1..Len(frames[t])
        BY <1>2, <2>2
    <2>4. frames[t][i - 1] \in Frames
        BY <2>1, <2>3, ElementOfSeq
    <2> QED
        BY <1>2, <2>4, FrameParts DEF Around
<1> QED
    BY <1>1, <1>2

LEMMA ExitStep ==
    ASSUME ScopeInv, NEW t \in Threads, Exit(t)
    PROVE  ScopeInv'
<1> DEFINE n == Len(frames[t])
           f == frames[t][n]
<1>1. frames[t] \in Seq(Frames) /\ frames[t] # <<>> /\ context[t] \in Contexts
    BY DEF ScopeInv, ScopeTypes, Exit
<1>2. /\ n \in Nat \ {0} /\ DOMAIN frames[t] = 1..n
      /\ Last(frames[t]) = f /\ f \in Frames
      /\ Front(frames[t]) \in Seq(Frames) /\ Len(Front(frames[t])) = n - 1
      /\ \A i \in 1..(n - 1) : Front(frames[t])[i] = frames[t][i]
    BY <1>1, LastAndFront, LenProperties
<1> HIDE DEF n, f
<1>3. context' = [context EXCEPT ![t] = Restored(f, context[t])]
    BY <1>2 DEF Exit
<1>4. frames' = [frames EXCEPT ![t] = Front(frames[t])] /\ base' = base /\ bound' = bound /\ minted' = minted
    BY DEF Exit
<1>5. context[t] = f.inside
    BY <1>1, <1>2 DEF ScopeInv, ContextFollowsScopes, Expected
<1>6. Restored(f, context[t]) = Around(t, n) /\ Around(t, n) \in Contexts
    <2>1. n \in DOMAIN frames[t] /\ f = frames[t][n]
        BY <1>2 DEF f
    <2>2. Nested(f, Around(t, n))
        BY <2>1 DEF ScopeInv, NestInv
    <2>3. Around(t, n) \in Contexts
        BY <2>1, AroundIsAContext DEF ScopeInv
    <2> QED
        BY <1>2, <1>5, <2>2, <2>3, RestoresWhatIsAround
<1>7. ScopeTypes'
    <2>1. context' \in [Threads -> Contexts]
        BY <1>3, <1>6 DEF ScopeInv, ScopeTypes
    <2>2. frames' \in [Threads -> Seq(Frames)]
        BY <1>2, <1>4 DEF ScopeInv, ScopeTypes
    <2> QED
        BY <1>4, <2>1, <2>2 DEF ScopeInv, ScopeTypes
<1>8. \A u \in Threads : Outside(u)' = Outside(u)
    BY <1>4 DEF Outside
<1>9. \A u \in Threads \ {t} : frames'[u] = frames[u] /\ context'[u] = context[u]
    BY <1>3, <1>4 DEF ScopeInv, ScopeTypes
<1>10. /\ frames'[t] = Front(frames[t]) /\ frames'[t] \in Seq(Frames)
       /\ context'[t] = Around(t, n)
    BY <1>2, <1>3, <1>4, <1>6 DEF ScopeInv, ScopeTypes
<1>11. /\ Len(frames'[t]) = n - 1 /\ DOMAIN frames'[t] = 1..(n - 1)
       /\ \A i \in 1..(n - 1) : frames'[t][i] = frames[t][i]
    BY <1>2, <1>10, LenProperties
<1>12. NestInv'
    <2> SUFFICES ASSUME NEW u \in Threads, NEW i \in DOMAIN frames'[u]
                 PROVE  Nested(frames'[u][i], Around(u, i)')
        BY DEF NestInv, Nested
    <2>1. CASE u # t
        <3>1. Around(u, i)' = Around(u, i)
            BY <1>8, <1>9, <2>1 DEF Around
        <3> QED
            BY <1>9, <2>1, <3>1 DEF ScopeInv, NestInv
    <2>2. CASE u = t
        <3>1. i \in 1..(n - 1) /\ i \in DOMAIN frames[t]
            BY <1>2, <1>11, <2>2
        <3>2. i = 1 \/ i - 1 \in 1..(n - 1)
            BY <1>2, <3>1
        <3>3. Around(t, i)' = Around(t, i)
            BY <1>8, <1>11, <3>2 DEF Around
        <3> QED
            BY <1>11, <2>2, <3>1, <3>3 DEF ScopeInv, NestInv
    <2> QED
        BY <2>1, <2>2
<1>13. ContextFollowsScopes'
    <2> SUFFICES ASSUME NEW u \in Threads PROVE context'[u] = Expected(u)'
        BY DEF ContextFollowsScopes
    <2>1. CASE u # t
        BY <1>8, <1>9, <2>1 DEF ScopeInv, ContextFollowsScopes, Expected
    <2>2. CASE u = t /\ n = 1
        <3>1. frames'[t] = <<>>
            BY <1>10, <1>11, <2>2, EmptySeq
        <3> QED
            BY <1>8, <1>10, <2>2, <3>1 DEF Expected, Around
    <2>3. CASE u = t /\ n # 1
        <3>1. n - 1 \in 1..(n - 1) /\ n - 1 # 0
            BY <1>2, <2>3
        <3>2. frames'[t] # <<>>
            BY <1>11, <3>1, EmptySeq
        <3>3. Last(frames'[t]) = frames'[t][n - 1]
            BY <1>11 DEF Last
        <3>4. frames'[t][n - 1] = frames[t][n - 1]
            BY <1>11, <3>1
        <3>5. Expected(t)' = frames[t][n - 1].inside
            BY <3>2, <3>3, <3>4 DEF Expected
        <3>6. Around(t, n) = frames[t][n - 1].inside
            BY <2>3 DEF Around
        <3> QED
            BY <1>10, <2>3, <3>5, <3>6
    <2> QED
        BY <2>1, <2>2, <2>3
<1> QED
    BY <1>7, <1>12, <1>13 DEF ScopeInv

(* An id set on the innermost block reaches out to the block that restores the trace: *)
(* what is around a block changes with it exactly when the block does not restore it. *)
LEMMA SetTraceIdStep ==
    ASSUME ScopeInv, NEW t \in Threads, SetTraceId(t)
    PROVE  ScopeInv'
<1> DEFINE n == Len(frames[t])
           id == minted + 1
           Reach(i) == RestoresNoTrace(t, i)
           Set(c) == [c EXCEPT !.trace = id]
<1>1. frames[t] \in Seq(Frames) /\ context[t] \in Contexts /\ context[t] = Expected(t)
    BY DEF ScopeInv, ScopeTypes, ContextFollowsScopes
<1>2. n \in Nat /\ DOMAIN frames[t] = 1..n /\ \A i \in 1..n : frames[t][i] \in Frames
    BY <1>1, LenProperties, ElementOfSeq
<1>3. id \in Ids /\ minted' \in 0..MaxIds
    BY FreshId DEF ScopeInv, SetTraceId
<1>4. context' = [context EXCEPT ![t] = Set(context[t])]
    BY DEF SetTraceId, ScopeInv, ScopeTypes
<1>5. /\ frames' = [frames EXCEPT ![t] = [i \in DOMAIN frames[t] |->
                        IF Reach(i + 1) THEN [frames[t][i] EXCEPT !.inside = Set(@)] ELSE frames[t][i]]]
      /\ base' = IF Reach(1) THEN [base EXCEPT ![t] = id] ELSE base
      /\ bound' = bound
    BY DEF SetTraceId
<1>6. \A i \in 1..n : Reach(i) <=> Reach(i + 1) /\ frames[t][i].kind = "fields"
    <2> SUFFICES ASSUME NEW i \in 1..n
                 PROVE  Reach(i) <=> Reach(i + 1) /\ frames[t][i].kind = "fields"
        OBVIOUS
    <2>1. i..n = {i} \cup (i + 1)..n
        BY <1>2
    <2> QED
        BY <2>1 DEF RestoresNoTrace
<1>7. Reach(n + 1)
    BY <1>2 DEF RestoresNoTrace
<1>8. \A c \in Contexts : /\ Set(c) \in Contexts /\ Set(c).trace = id
                          /\ Set(c).root = c.root /\ Set(c).fields = c.fields
    BY <1>3 DEF Contexts
<1> HIDE DEF n, id, Reach, Set
<1>9. \A i \in 1..n :
        /\ Reach(i + 1) => /\ frames'[t][i] \in Frames
                           /\ frames'[t][i].kind = frames[t][i].kind
                           /\ frames'[t][i].saved = frames[t][i].saved
                           /\ frames'[t][i].inside = Set(frames[t][i].inside)
        /\ ~Reach(i + 1) => frames'[t][i] = frames[t][i]
    <2> SUFFICES ASSUME NEW i \in 1..n
                 PROVE  /\ Reach(i + 1) => /\ frames'[t][i] \in Frames
                                            /\ frames'[t][i].kind = frames[t][i].kind
                                            /\ frames'[t][i].saved = frames[t][i].saved
                                            /\ frames'[t][i].inside = Set(frames[t][i].inside)
                        /\ ~Reach(i + 1) => frames'[t][i] = frames[t][i]
        OBVIOUS
    <2> DEFINE g == frames[t][i]
    <2>1. g \in Frames /\ Set(g.inside) \in Contexts
        BY <1>2, <1>8, FrameParts
    <2>2. frames'[t][i] = IF Reach(i + 1) THEN [g EXCEPT !.inside = Set(g.inside)] ELSE g
        BY <1>2, <1>5 DEF ScopeInv, ScopeTypes
    <2> HIDE DEF g
    <2>3. /\ [g EXCEPT !.inside = Set(g.inside)] \in Frames
          /\ [g EXCEPT !.inside = Set(g.inside)].kind = g.kind
          /\ [g EXCEPT !.inside = Set(g.inside)].saved = g.saved
          /\ [g EXCEPT !.inside = Set(g.inside)].inside = Set(g.inside)
        BY <2>1 DEF Frames
    <2> QED
        BY <2>2, <2>3 DEF g
<1>10. DOMAIN frames'[t] = 1..n /\ frames'[t] \in Seq(Frames) /\ Len(frames'[t]) = n
    <2>1. DOMAIN frames'[t] = 1..n /\ frames'[t] = [i \in 1..n |-> frames'[t][i]]
        BY <1>2, <1>5 DEF ScopeInv, ScopeTypes
    <2>2. frames'[t] \in [DOMAIN frames[t] -> Frames]
        BY <1>2, <1>9, <2>1
    <2> QED
        BY <1>1, <2>1, <2>2, Replaced DEF n
<1>11. \A u \in Threads \ {t} : /\ frames'[u] = frames[u] /\ context'[u] = context[u] /\ base'[u] = base[u]
    BY <1>4, <1>5 DEF ScopeInv, ScopeTypes
<1>12. base' \in [Threads -> Ids] /\ base'[t] = IF Reach(1) THEN id ELSE base[t]
    BY <1>3, <1>5 DEF ScopeInv, ScopeTypes
<1>13. ScopeTypes'
    <2>1. context' \in [Threads -> Contexts]
        BY <1>1, <1>4, <1>8 DEF ScopeInv, ScopeTypes
    <2>2. frames' \in [Threads -> Seq(Frames)]
        BY <1>5, <1>10 DEF ScopeInv, ScopeTypes
    <2> QED
        BY <1>3, <1>5, <1>12, <2>1, <2>2 DEF ScopeInv, ScopeTypes
<1>14. Outside(t)' = IF Reach(1) THEN Set(Outside(t)) ELSE Outside(t)
    <2>1. Outside(t)' = [Blank EXCEPT !.trace = base'[t]]
        BY DEF Outside, Blank
    <2>2. Set([Blank EXCEPT !.trace = base[t]]) = [Blank EXCEPT !.trace = id]
        BY DEF Set, Blank
    <2> QED
        BY <1>12, <2>1, <2>2 DEF Outside
<1>15. \A i \in 1..n : Around(t, i)' = IF Reach(i) THEN Set(Around(t, i)) ELSE Around(t, i)
    <2> SUFFICES ASSUME NEW i \in 1..n
                 PROVE  Around(t, i)' = IF Reach(i) THEN Set(Around(t, i)) ELSE Around(t, i)
        OBVIOUS
    <2>1. CASE i = 1
        BY <1>14, <2>1 DEF Around
    <2>2. CASE i # 1
        <3>1. i - 1 \in 1..n /\ (i - 1) + 1 = i
            BY <1>2, <2>2
        <3>2. frames'[t][i - 1].inside = IF Reach(i) THEN Set(frames[t][i - 1].inside)
                                                     ELSE frames[t][i - 1].inside
            BY <1>9, <3>1
        <3>3. Around(t, i) = frames[t][i - 1].inside /\ Around(t, i)' = frames'[t][i - 1].inside
            BY <2>2 DEF Around
        <3> QED
            BY <3>2, <3>3
    <2> QED
        BY <2>1, <2>2
<1>16. NestInv'
    <2> SUFFICES ASSUME NEW u \in Threads, NEW i \in DOMAIN frames'[u]
                 PROVE  Nested(frames'[u][i], Around(u, i)')
        BY DEF NestInv, Nested
    <2>1. CASE u # t
        <3>1. Outside(u)' = Outside(u)
            BY <1>11, <2>1 DEF Outside, Blank
        <3>2. Around(u, i)' = Around(u, i)
            BY <1>11, <2>1, <3>1 DEF Around
        <3> QED
            BY <1>11, <2>1, <3>2 DEF ScopeInv, NestInv
    <2>2. CASE u = t
        <3> DEFINE g == frames[t][i]
                   c == Around(t, i)
        <3>1. i \in 1..n /\ g \in Frames /\ c \in Contexts /\ Nested(g, c)
            BY <1>2, <1>10, <2>2, AroundIsAContext DEF ScopeInv, NestInv
        <3>2. g.inside \in Contexts
            BY <3>1, FrameParts
        <3> HIDE DEF g, c
        <3>3. CASE Reach(i)
            <4>1. Reach(i + 1) /\ g.kind = "fields"
                BY <1>6, <3>1, <3>3 DEF g
            <4>2. /\ frames'[t][i].kind = g.kind /\ frames'[t][i].saved = g.saved
                  /\ frames'[t][i].inside = Set(g.inside)
                BY <1>9, <3>1, <4>1 DEF g
            <4>3. Around(t, i)' = Set(c)
                BY <1>15, <3>1, <3>3 DEF c
            <4>4. /\ Set(c).trace = id /\ Set(c).root = c.root /\ Set(c).fields = c.fields
                  /\ Set(g.inside).trace = id /\ Set(g.inside).root = g.inside.root
                BY <1>8, <3>1, <3>2
            <4> QED
                BY <2>2, <3>1, <4>1, <4>2, <4>3, <4>4 DEF Nested
        <3>4. CASE ~Reach(i) /\ Reach(i + 1)
            <4>1. g.kind # "fields"
                BY <1>6, <3>1, <3>4 DEF g
            <4>2. /\ frames'[t][i].kind = g.kind /\ frames'[t][i].saved = g.saved
                  /\ frames'[t][i].inside = Set(g.inside)
                BY <1>9, <3>1, <3>4 DEF g
            <4>3. Around(t, i)' = c
                BY <1>15, <3>1, <3>4 DEF c
            <4>4. Set(g.inside).root = g.inside.root /\ Set(g.inside).fields = g.inside.fields
                BY <1>8, <3>2
            <4> QED
                BY <2>2, <3>1, <4>1, <4>2, <4>3, <4>4 DEF Nested
        <3>5. CASE ~Reach(i) /\ ~Reach(i + 1)
            BY <1>9, <1>15, <2>2, <3>1, <3>5 DEF g, c
        <3> QED
            BY <3>3, <3>4, <3>5
    <2> QED
        BY <2>1, <2>2
<1>17. ContextFollowsScopes'
    <2> SUFFICES ASSUME NEW u \in Threads PROVE context'[u] = Expected(u)'
        BY DEF ContextFollowsScopes
    <2>1. CASE u # t
        <3>1. Outside(u)' = Outside(u)
            BY <1>11, <2>1 DEF Outside, Blank
        <3> QED
            BY <1>11, <2>1, <3>1 DEF ScopeInv, ContextFollowsScopes, Expected
    <2>2. CASE u = t
        <3>1. context'[t] = Set(Expected(t))
            BY <1>1, <1>4 DEF ScopeInv, ScopeTypes
        <3>2. CASE frames[t] = <<>>
            <4>1. n = 0 /\ frames'[t] = <<>>
                BY <1>1, <1>10, <3>2, EmptySeq DEF n
            <4>2. Reach(1)
                BY <1>7, <4>1
            <4> QED
                BY <1>14, <2>2, <3>1, <3>2, <4>1, <4>2 DEF Expected
        <3>3. CASE frames[t] # <<>>
            <4>1. n \in 1..n /\ Last(frames[t]) = frames[t][n] /\ n # 0
                <5>1. n \in Nat \ {0} /\ Last(frames[t]) = frames[t][n]
                    BY <1>1, <3>3, LastAndFront DEF n
                <5> QED
                    BY <5>1
            <4>2. frames'[t] # <<>> /\ Last(frames'[t]) = frames'[t][n]
                BY <1>10, <4>1, EmptySeq DEF Last
            <4>3. frames'[t][n].inside = Set(frames[t][n].inside)
                BY <1>7, <1>9, <4>1
            <4> QED
                BY <2>2, <3>1, <3>3, <4>1, <4>2, <4>3 DEF Expected
        <3> QED
            BY <3>2, <3>3
    <2> QED
        BY <2>1, <2>2
<1> QED
    BY <1>13, <1>16, <1>17 DEF ScopeInv

-----------------------------------------------------------------------------
(* The queued log.  What is left of it by an action of the other half. *)
LEMMA ScopesLeaveThePipeline ==
    ASSUME PipeInv, UNCHANGED pipeline
    PROVE  PipeInv'
<1>1. UNCHANGED <<handler, filtered, fetched, queue, listener, setup, setups, logged, accepted, written>>
    BY DEF pipeline
<1> USE <1>1
<1>2. PipeTypes'
    BY DEF PipeInv, PipeTypes
<1>3. ModeInv'
    BY DEF PipeInv, ModeInv
<1>4. OrderInv'
    BY DEF PipeInv, OrderInv, Past
<1>5. QueueInv'
    BY DEF PipeInv, QueueInv, Past
<1>6. DrainInv'
    BY DEF PipeInv, DrainInv, InWritten, InQueue
<1> QED
    BY <1>2, <1>3, <1>4, <1>5, <1>6 DEF PipeInv

LEMMA PipelineLeavesScopes ==
    ASSUME ScopeInv, UNCHANGED scopes
    PROVE  ScopeInv'
<1>1. UNCHANGED <<context, frames, base, bound, minted>>
    BY DEF scopes
<1> USE <1>1
<1>2. ScopeTypes'
    BY DEF ScopeInv, ScopeTypes
<1>3. NestInv'
    BY DEF ScopeInv, NestInv, Nested, Around, Outside
<1>4. ContextFollowsScopes'
    BY DEF ScopeInv, ContextFollowsScopes, Expected, Outside
<1> QED
    BY <1>2, <1>3, <1>4 DEF ScopeInv

(* A handler is not Off, the sentinel is not a record, and what a record holds. *)
LEMMA RecordParts ==
    /\ \A h \in Handlers : h # Off /\ h.call \in 1..MaxSetups /\ h.queues \in BOOLEAN
    /\ \A r \in Records : /\ r # Stop /\ r.by \in Threads /\ r.n \in Nat \ {0}
                          /\ r.stamp \in Contexts /\ r.meant \in Contexts
BY NamesAssumption DEF Handlers, Records

LEMMA EntryOfQueue ==
    ASSUME PipeTypes, NEW j \in DOMAIN queue, queue[j] # Stop
    PROVE  /\ queue[j] \in Records /\ queue[j].by \in Threads /\ queue[j].n \in Nat \ {0}
<1>1. j \in 1..Len(queue)
    BY LenProperties DEF PipeTypes
<1>2. queue[j] \in Records \cup {Stop}
    BY <1>1, ElementOfSeq DEF PipeTypes
<1> QED
    BY <1>2, RecordParts

LEMMA EntryOfWritten ==
    ASSUME PipeTypes, NEW t \in Threads, NEW i \in DOMAIN written[t]
    PROVE  written[t][i] \in Records /\ written[t][i].n \in Nat \ {0}
<1>1. written[t] \in Seq(Records)
    BY DEF PipeTypes
<1>2. i \in 1..Len(written[t])
    BY <1>1, LenProperties
<1>3. written[t][i] \in Records
    BY <1>1, <1>2, ElementOfSeq
<1> QED
    BY <1>3, RecordParts

LEMMA LogStep ==
    ASSUME PipeInv, NEW t \in Threads, Log(t)
    PROVE  PipeInv'
<1>1. /\ fetched[t] = Off
      /\ logged' = [logged EXCEPT ![t] = @ + 1]
      /\ fetched' = [fetched EXCEPT ![t] = handler]
      /\ UNCHANGED <<handler, filtered, queue, listener, setup, setups, accepted, written>>
    BY DEF Log, Idle
<1>2. PipeTypes'
    BY <1>1 DEF PipeInv, PipeTypes
<1>3. ModeInv'
    BY <1>1 DEF PipeInv, ModeInv
<1>4. /\ logged[t] \in Nat /\ logged'[t] = logged[t] + 1 /\ fetched'[t] = handler
      /\ \A u \in Threads \ {t} : logged'[u] = logged[u] /\ fetched'[u] = fetched[u]
    BY <1>1 DEF PipeInv, PipeTypes
<1>5. \A u \in Threads : \A k \in Nat : Past(u, k) => Past(u, k)'
    BY <1>1, <1>4 DEF Past
<1>6. OrderInv'
    <2> SUFFICES ASSUME NEW u \in Threads
                 PROVE  /\ fetched'[u] # Off => logged'[u] > 0
                        /\ \A i \in DOMAIN written[u] : Past(u, written[u][i].n)'
                        /\ \A i, j \in DOMAIN written[u] : i < j => written[u][i].n < written[u][j].n
        BY <1>1 DEF OrderInv, Past
    <2>1. fetched'[u] # Off => logged'[u] > 0
        BY <1>4 DEF PipeInv, OrderInv
    <2>2. ASSUME NEW i \in DOMAIN written[u] PROVE Past(u, written[u][i].n)'
        <3>1. written[u][i].n \in Nat
            BY EntryOfWritten DEF PipeInv
        <3>2. Past(u, written[u][i].n)
            BY DEF PipeInv, OrderInv
        <3>3. (written[u][i].n)' = written[u][i].n
            BY <1>1
        <3> QED
            BY <1>5, <3>1, <3>2, <3>3 DEF Past
    <2> QED
        BY <2>1, <2>2 DEF PipeInv, OrderInv
<1>7. QueueInv'
    <2> SUFFICES ASSUME listener
                 PROVE  QueueInv'
        BY <1>1 DEF QueueInv
    <2>1. ASSUME NEW j \in DOMAIN queue, queue[j] # Stop
          PROVE  /\ Past(queue[j].by, queue[j].n)'
                 /\ fetched'[queue[j].by] # Off => fetched'[queue[j].by].queues
        <3>1. queue[j].n \in Nat /\ queue[j].by \in Threads
            BY <2>1, EntryOfQueue DEF PipeInv
        <3>2. Past(queue[j].by, queue[j].n) /\ (fetched[queue[j].by] # Off => fetched[queue[j].by].queues)
            BY <2>1 DEF PipeInv, QueueInv
        <3>3. handler # Off => handler.queues
            BY DEF PipeInv, ModeInv
        <3>4. (queue[j].by)' = queue[j].by /\ (queue[j].n)' = queue[j].n
            BY <1>1
        <3> QED
            BY <1>4, <1>5, <3>1, <3>2, <3>3, <3>4 DEF Past
    <2> QED
        BY <1>1, <2>1 DEF PipeInv, QueueInv, Past
<1>8. DrainInv'
    BY <1>1 DEF PipeInv, DrainInv, InWritten, InQueue
<1> QED
    BY <1>2, <1>3, <1>6, <1>7, <1>8 DEF PipeInv

(* What ends before new handlers are found: the sentinel, if there is a listener. *)
LEMMA StoppedQueue ==
    ASSUME PipeTypes, NEW q, q = Stopped
    PROVE  /\ q \in Seq(Records \cup {Stop})
           /\ \A j \in DOMAIN queue : j \in DOMAIN q /\ q[j] = queue[j]
           /\ \A j \in DOMAIN q : q[j] # Stop => j \in DOMAIN queue
<1>1. queue \in Seq(Records \cup {Stop})
    BY DEF PipeTypes
<1>2. CASE ~listener
    BY <1>1, <1>2 DEF Stopped
<1>3. CASE listener
    <2>1. q = Append(queue, Stop)
        BY <1>3 DEF Stopped
    <2>2. Stop \in Records \cup {Stop}
        OBVIOUS
    <2> QED
        BY <1>1, <2>1, <2>2, Appended
<1> QED
    BY <1>2, <1>3

LEMMA StopsAtTheEnd ==
    ASSUME PipeInv, queue' = Stopped,
           handler' \in {handler, Off}, setup' \in {"shut", "queue", "direct"},
           setup' # "shut" => setups < MaxSetups,
           UNCHANGED <<filtered, fetched, listener, setups, logged, accepted, written>>
    PROVE  PipeInv'
<1>1. /\ queue' \in Seq(Records \cup {Stop})
      /\ \A j \in DOMAIN queue : j \in DOMAIN queue' /\ queue'[j] = queue[j]
      /\ \A j \in DOMAIN queue' : queue'[j] # Stop => j \in DOMAIN queue /\ queue'[j] = queue[j]
    BY StoppedQueue DEF PipeInv
<1>2. PipeTypes'
    BY <1>1 DEF PipeInv, PipeTypes
<1>3. ModeInv'
    BY DEF PipeInv, ModeInv
<1>4. OrderInv'
    BY DEF PipeInv, OrderInv, Past
<1>5. QueueInv'
    <2> SUFFICES ASSUME listener
                 PROVE  QueueInv'
        BY DEF QueueInv
    <2>1. ASSUME NEW j \in DOMAIN queue', queue'[j] # Stop
          PROVE  /\ queue'[j].n <= logged[queue'[j].by]
                 /\ fetched[queue'[j].by] # Off => queue'[j].n < logged[queue'[j].by]
                 /\ \A i \in DOMAIN written[queue'[j].by] : written[queue'[j].by][i].n < queue'[j].n
                 /\ fetched[queue'[j].by] # Off => fetched[queue'[j].by].queues
        <3>1. j \in DOMAIN queue /\ queue'[j] = queue[j]
            BY <1>1, <2>1
        <3> QED
            BY <2>1, <3>1 DEF PipeInv, QueueInv, Past
    <2>2. ASSUME NEW i \in DOMAIN queue', NEW j \in DOMAIN queue',
                 i < j, queue'[i] # Stop, queue'[j] # Stop, queue'[i].by = queue'[j].by
          PROVE  queue'[i].n < queue'[j].n
        <3>1. i \in DOMAIN queue /\ queue'[i] = queue[i] /\ j \in DOMAIN queue /\ queue'[j] = queue[j]
            BY <1>1, <2>2
        <3> QED
            BY <2>2, <3>1 DEF PipeInv, QueueInv
    <2> QED
        BY <2>1, <2>2 DEF QueueInv, Past
<1>6. DrainInv'
    <2> SUFFICES ASSUME NEW a \in accepted PROVE InWritten(a)' \/ (listener' /\ InQueue(a)')
        BY DEF DrainInv
    <2>1. CASE InWritten(a)
        BY <2>1 DEF InWritten
    <2>2. CASE listener /\ InQueue(a)
        <3>1. PICK i \in DOMAIN queue : /\ queue[i] # Stop /\ queue[i].by = a[1] /\ queue[i].n = a[2]
                                        /\ \A j \in 1..i : queue[j] # Stop
            BY <2>2 DEF InQueue
        <3>2. DOMAIN queue = 1..Len(queue) /\ Len(queue) \in Nat
            BY LenProperties DEF PipeInv, PipeTypes
        <3>3. \A j \in 1..i : queue'[j] = queue[j]
            BY <1>1, <3>1, <3>2
        <3> QED
            BY <1>1, <2>2, <3>1, <3>3 DEF InQueue
    <2> QED
        BY <2>1, <2>2 DEF PipeInv, DrainInv
<1> QED
    BY <1>2, <1>3, <1>4, <1>5, <1>6 DEF PipeInv

LEMMA SetUpStep ==
    ASSUME PipeInv, NEW mode \in {"queue", "direct"}, SetUp(mode)
    PROVE  PipeInv'
BY StopsAtTheEnd DEF SetUp

LEMMA ShutDownStep ==
    ASSUME PipeInv, ShutDown
    PROVE  PipeInv'
BY StopsAtTheEnd DEF ShutDown

LEMMA ShutDownReturnsStep ==
    ASSUME PipeInv, ShutDownReturns
    PROVE  PipeInv'
<1>1. setup' = "idle" /\ ~listener
      /\ UNCHANGED <<handler, filtered, fetched, queue, listener, setups, logged, accepted, written>>
    BY DEF ShutDownReturns, Joined
<1>2. PipeTypes'
    BY <1>1 DEF PipeInv, PipeTypes
<1>3. ModeInv'
    BY <1>1 DEF PipeInv, ModeInv
<1>4. OrderInv' /\ QueueInv'
    BY <1>1 DEF PipeInv, OrderInv, QueueInv, Past
<1>5. DrainInv'
    BY <1>1 DEF PipeInv, DrainInv, InWritten
<1> QED
    BY <1>2, <1>3, <1>4, <1>5 DEF PipeInv

(* New handlers, once the listener has ended: nothing was left in its queue. *)
LEMMA InstallStep ==
    ASSUME PipeInv, Install
    PROVE  PipeInv'
<1>1. /\ setup \in {"queue", "direct"} /\ ~listener /\ setups < MaxSetups
      /\ setups' = setups + 1
      /\ handler' = [call |-> setups + 1, queues |-> setup = "queue"]
      /\ filtered' = (setup = "direct" \/ (Reuse /\ filtered))
      /\ setup' = "idle"
      /\ UNCHANGED <<fetched, logged, accepted, written>>
    BY DEF Install, Joined, PipeInv, ModeInv
<1>2. \/ setup = "queue" /\ queue' = <<>> /\ listener' = TRUE
      \/ setup = "direct" /\ queue' = queue /\ listener' = FALSE
    BY <1>1 DEF Install, PipeInv, PipeTypes
<1>3. setups \in 0..MaxSetups /\ setups' \in 1..MaxSetups
    BY <1>1, BoundsAssumption DEF PipeInv, PipeTypes
<1>4. handler' \in Handlers /\ handler'.queues = (setup = "queue")
    BY <1>1, <1>3 DEF Handlers
<1>5. PipeTypes'
    <2>1. queue' \in Seq(Records \cup {Stop}) /\ listener' \in BOOLEAN
        BY <1>2, EmptySeq DEF PipeInv, PipeTypes
    <2>2. filtered' \in BOOLEAN
        BY <1>1, NamesAssumption DEF PipeInv, PipeTypes
    <2> QED
        BY <1>1, <1>3, <1>4, <2>1, <2>2 DEF PipeInv, PipeTypes
<1>6. ModeInv'
    BY <1>1, <1>2, <1>4 DEF ModeInv
<1>7. OrderInv'
    BY <1>1 DEF PipeInv, OrderInv, Past
<1>8. QueueInv'
    <2>1. CASE listener'
        <3>1. DOMAIN queue' = {}
            BY <1>2, <2>1
        <3> QED
            BY <3>1 DEF QueueInv
    <2>2. CASE ~listener'
        BY <2>2 DEF QueueInv
    <2> QED
        BY <2>1, <2>2
<1>9. DrainInv'
    BY <1>1 DEF PipeInv, DrainInv, InWritten
<1> QED
    BY <1>5, <1>6, <1>7, <1>8, <1>9 DEF PipeInv

-----------------------------------------------------------------------------
(* A record a handler writes itself: none of its thread is queued. *)
LEMMA EmitWrites ==
    ASSUME PipeInv, NEW t \in Threads, NEW r \in Records,
           fetched[t] # Off, ~fetched[t].queues, r.n = logged[t],
           fetched' = [fetched EXCEPT ![t] = Off],
           written' = [written EXCEPT ![t] = Append(@, r)],
           UNCHANGED <<handler, filtered, queue, listener, setup, setups, logged, accepted>>
    PROVE  PipeInv'
<1> DEFINE w == written[t]
           n == Len(w)
<1>1. w \in Seq(Records)
    BY DEF PipeInv, PipeTypes
<1>2. /\ Append(w, r) \in Seq(Records) /\ n \in Nat /\ DOMAIN w = 1..n
      /\ DOMAIN Append(w, r) = 1..(n + 1)
      /\ \A i \in 1..n : Append(w, r)[i] = w[i]
      /\ Append(w, r)[n + 1] = r
    BY <1>1, Appended
<1>3. /\ written'[t] = Append(w, r)
      /\ \A u \in Threads \ {t} : written'[u] = written[u] /\ fetched'[u] = fetched[u]
      /\ fetched'[t] = Off
    BY DEF PipeInv, PipeTypes
<1> HIDE DEF w, n
<1>4. PipeTypes'
    <2>1. written' \in [Threads -> Seq(Records)]
        BY <1>2 DEF PipeInv, PipeTypes, w
    <2> QED
        BY <2>1 DEF PipeInv, PipeTypes
<1>5. ModeInv'
    BY DEF PipeInv, ModeInv
<1>6. /\ \A i \in 1..n : w[i].n \in Nat /\ w[i].n < logged[t]
      /\ \A i, j \in 1..n : i < j => w[i].n < w[j].n
      /\ logged[t] \in Nat /\ logged[t] > 0
    <2>1. \A i \in 1..n : w[i].n \in Nat
        BY <1>2, EntryOfWritten DEF PipeInv, w
    <2>2. logged[t] \in Nat
        BY DEF PipeInv, PipeTypes
    <2> QED
        BY <1>2, <2>1, <2>2 DEF PipeInv, OrderInv, Past, w
<1>7. OrderInv'
    <2> SUFFICES ASSUME NEW u \in Threads
                 PROVE  /\ fetched'[u] # Off => logged[u] > 0
                        /\ \A i \in DOMAIN written'[u] :
                              /\ written'[u][i].n <= logged[u]
                              /\ fetched'[u] # Off => written'[u][i].n < logged[u]
                        /\ \A i, j \in DOMAIN written'[u] : i < j => written'[u][i].n < written'[u][j].n
        BY DEF OrderInv, Past
    <2>1. CASE u # t
        BY <1>3, <2>1 DEF PipeInv, OrderInv, Past
    <2>2. CASE u = t
        <3>1. \A i \in 1..(n + 1) : i \in 1..n \/ i = n + 1
            BY <1>2
        <3>2. \A i \in DOMAIN written'[t] : written'[t][i].n <= logged[t]
            BY <1>2, <1>3, <1>6, <3>1
        <3>3. ASSUME NEW i \in DOMAIN written'[t], NEW j \in DOMAIN written'[t], i < j
              PROVE  written'[t][i].n < written'[t][j].n
            <4>1. i \in 1..n
                BY <1>2, <1>3, <3>3
            <4>2. CASE j \in 1..n
                BY <1>2, <1>3, <1>6, <3>3, <4>1, <4>2
            <4>3. CASE j = n + 1
                BY <1>2, <1>3, <1>6, <4>1, <4>3
            <4> QED
                BY <1>2, <1>3, <3>1, <4>2, <4>3
        <3> QED
            BY <1>3, <2>2, <3>2, <3>3
    <2> QED
        BY <2>1, <2>2
<1>8. QueueInv'
    <2> SUFFICES ASSUME listener
                 PROVE  QueueInv'
        BY DEF QueueInv
    <2>1. ASSUME NEW j \in DOMAIN queue, queue[j] # Stop
          PROVE  queue[j].by \in Threads /\ queue[j].by # t
        BY <2>1, EntryOfQueue DEF PipeInv, QueueInv
    <2>2. ASSUME NEW j \in DOMAIN queue, queue[j] # Stop
          PROVE  /\ queue[j].n <= logged[queue[j].by]
                 /\ fetched'[queue[j].by] # Off => queue[j].n < logged[queue[j].by]
                 /\ \A i \in DOMAIN written'[queue[j].by] : written'[queue[j].by][i].n < queue[j].n
                 /\ fetched'[queue[j].by] # Off => fetched'[queue[j].by].queues
        <3>1. written'[queue[j].by] = written[queue[j].by] /\ fetched'[queue[j].by] = fetched[queue[j].by]
            BY <1>3, <2>1, <2>2
        <3> QED
            BY <2>2, <3>1 DEF PipeInv, QueueInv, Past
    <2> QED
        BY <2>2 DEF PipeInv, QueueInv, Past
<1>9. DrainInv'
    <2> SUFFICES ASSUME NEW a \in accepted PROVE InWritten(a)' \/ (listener /\ InQueue(a)')
        BY DEF DrainInv
    <2>1. CASE InWritten(a)
        <3>1. PICK i \in DOMAIN written[a[1]] : written[a[1]][i].n = a[2]
            BY <2>1 DEF InWritten
        <3>2. a[1] \in Threads
            BY DEF PipeInv, PipeTypes
        <3>3. i \in DOMAIN written'[a[1]] /\ written'[a[1]][i] = written[a[1]][i]
            <4>1. CASE a[1] # t
                BY <1>3, <3>2, <4>1
            <4>2. CASE a[1] = t
                <5>1. i \in 1..n
                    BY <1>2, <3>1, <4>2 DEF w
                <5>2. i \in 1..(n + 1)
                    BY <1>2, <5>1
                <5> QED
                    BY <1>2, <1>3, <4>2, <5>1, <5>2 DEF w
            <4> QED
                BY <4>1, <4>2
        <3> QED
            BY <3>1, <3>3 DEF InWritten
    <2>2. CASE listener /\ InQueue(a)
        BY <2>2 DEF InQueue
    <2> QED
        BY <2>1, <2>2 DEF PipeInv, DrainInv
<1> QED
    BY <1>4, <1>5, <1>7, <1>8, <1>9 DEF PipeInv

(* A record a handler queues: the last of its thread.  A queue of an earlier listener *)
(* is not the one that is read, and nothing of it was accepted.                       *)
LEMMA EmitQueues ==
    ASSUME PipeInv, NEW t \in Threads, NEW r \in Records,
           fetched[t] # Off, r.by = t, r.n = logged[t],
           fetched' = [fetched EXCEPT ![t] = Off],
           \/ queue' = queue /\ accepted' = accepted
           \/ /\ queue' = Append(queue, r)
              /\ \/ accepted' = accepted
                 \/ /\ accepted' = accepted \cup {<<t, r.n>>}
                    /\ listener /\ \A j \in DOMAIN queue : queue[j] # Stop,
           UNCHANGED <<handler, filtered, listener, setup, setups, logged, written>>
    PROVE  PipeInv'
<1> DEFINE n == Len(queue)
<1>1. queue \in Seq(Records \cup {Stop}) /\ r \in Records \cup {Stop} /\ r # Stop
    BY RecordParts DEF PipeInv, PipeTypes
<1>2. /\ Append(queue, r) \in Seq(Records \cup {Stop}) /\ n \in Nat /\ DOMAIN queue = 1..n
      /\ DOMAIN Append(queue, r) = 1..(n + 1)
      /\ \A i \in 1..n : Append(queue, r)[i] = queue[i]
      /\ Append(queue, r)[n + 1] = r
    BY <1>1, Appended
<1>3. /\ \A u \in Threads \ {t} : fetched'[u] = fetched[u]
      /\ fetched'[t] = Off
      /\ logged[t] \in Nat /\ r.n \in Nat \ {0}
    BY RecordParts DEF PipeInv, PipeTypes
<1> HIDE DEF n
<1>4. /\ DOMAIN queue' \subseteq 1..(n + 1) /\ 1..n \subseteq DOMAIN queue'
      /\ \A i \in 1..n : queue'[i] = queue[i]
      /\ n + 1 \in DOMAIN queue' => queue'[n + 1] = r
      /\ queue' \in Seq(Records \cup {Stop})
    BY <1>1, <1>2
<1>5. \A j \in DOMAIN queue' : j \in 1..n \/ (j = n + 1 /\ queue'[j] = r)
    BY <1>2, <1>4
<1>6. PipeTypes'
    <2>1. accepted' \subseteq Threads \X (Nat \ {0})
        BY <1>3 DEF PipeInv, PipeTypes
    <2> QED
        BY <1>4, <2>1 DEF PipeInv, PipeTypes
<1>7. ModeInv'
    BY DEF PipeInv, ModeInv
<1>8. OrderInv'
    <2> SUFFICES ASSUME NEW u \in Threads
                 PROVE  /\ fetched'[u] # Off => logged[u] > 0
                        /\ \A i \in DOMAIN written[u] :
                              /\ written[u][i].n <= logged[u]
                              /\ fetched'[u] # Off => written[u][i].n < logged[u]
                        /\ \A i, j \in DOMAIN written[u] : i < j => written[u][i].n < written[u][j].n
        BY DEF OrderInv, Past
    <2> QED
        BY <1>3 DEF PipeInv, OrderInv, Past
<1>9. QueueInv'
    <2> SUFFICES ASSUME listener
                 PROVE  QueueInv'
        BY DEF QueueInv
    <2>1. ASSUME NEW j \in DOMAIN queue', queue'[j] # Stop
          PROVE  /\ queue'[j].n <= logged[queue'[j].by]
                 /\ fetched'[queue'[j].by] # Off => queue'[j].n < logged[queue'[j].by]
                 /\ \A i \in DOMAIN written[queue'[j].by] : written[queue'[j].by][i].n < queue'[j].n
                 /\ fetched'[queue'[j].by] # Off => fetched'[queue'[j].by].queues
        <3>1. CASE j \in 1..n
            <4>1. queue'[j] = queue[j] /\ queue[j].by \in Threads
                BY <1>2, <1>4, <2>1, <3>1, EntryOfQueue DEF PipeInv
            <4>2. fetched'[queue[j].by] # Off => fetched'[queue[j].by] = fetched[queue[j].by]
                BY <1>3, <4>1
            <4> QED
                BY <1>2, <2>1, <3>1, <4>1, <4>2 DEF PipeInv, QueueInv, Past
        <3>2. CASE j = n + 1
            <4>1. queue'[j].by = t /\ queue'[j].n = logged[t]
                BY <1>4, <2>1, <3>2
            <4>2. \A i \in DOMAIN written[t] : written[t][i].n < logged[t]
                BY DEF PipeInv, OrderInv, Past
            <4> QED
                BY <1>3, <4>1, <4>2
        <3> QED
            BY <1>5, <3>1, <3>2
    <2>2. ASSUME NEW i \in DOMAIN queue', NEW j \in DOMAIN queue',
                 i < j, queue'[i] # Stop, queue'[j] # Stop, queue'[i].by = queue'[j].by
          PROVE  queue'[i].n < queue'[j].n
        <3>1. i \in 1..n /\ queue'[i] = queue[i]
            BY <1>2, <1>4, <2>2
        <3>2. CASE j \in 1..n
            BY <1>2, <1>4, <2>2, <3>1, <3>2 DEF PipeInv, QueueInv
        <3>3. CASE j = n + 1
            <4>1. queue[i].by = t /\ queue'[j].n = logged[t]
                BY <1>4, <2>2, <3>1, <3>3
            <4>2. queue[i].n < logged[t]
                BY <1>2, <2>2, <3>1, <4>1 DEF PipeInv, QueueInv, Past
            <4> QED
                BY <3>1, <4>1, <4>2
        <3> QED
            BY <1>5, <3>2, <3>3
    <2> QED
        BY <2>1, <2>2 DEF QueueInv, Past
<1>10. DrainInv'
    <2> SUFFICES ASSUME NEW a \in accepted' PROVE InWritten(a)' \/ (listener /\ InQueue(a)')
        BY DEF DrainInv
    <2>1. CASE a \in accepted /\ InWritten(a)
        BY <2>1 DEF InWritten
    <2>2. CASE a \in accepted /\ listener /\ InQueue(a)
        <3>1. PICK i \in DOMAIN queue : /\ queue[i] # Stop /\ queue[i].by = a[1] /\ queue[i].n = a[2]
                                        /\ \A j \in 1..i : queue[j] # Stop
            BY <2>2 DEF InQueue
        <3>2. \A j \in 1..i : j \in 1..n
            BY <1>2, <3>1
        <3>3. i \in 1..i /\ i \in 1..n
            BY <1>2, <3>1
        <3>4. /\ i \in DOMAIN queue' /\ queue'[i] = queue[i]
              /\ \A j \in 1..i : queue'[j] # Stop
            BY <1>4, <3>1, <3>2, <3>3
        <3> QED
            BY <2>2, <3>1, <3>4 DEF InQueue
    <2>3. CASE a \notin accepted
        <3>1. /\ a = <<t, r.n>> /\ listener /\ queue' = Append(queue, r)
              /\ \A j \in DOMAIN queue : queue[j] # Stop
            BY <2>3
        <3>2. n + 1 \in DOMAIN queue' /\ queue'[n + 1] = r
            BY <1>2, <3>1
        <3>3. \A j \in 1..(n + 1) : queue'[j] # Stop
            BY <1>1, <1>2, <1>4, <3>1, <3>2
        <3>4. a[1] = t /\ a[2] = r.n
            BY <3>1
        <3> QED
            BY <1>1, <3>1, <3>2, <3>3, <3>4 DEF InQueue
    <2> QED
        BY <2>1, <2>2, <2>3 DEF PipeInv, DrainInv
<1> QED
    BY <1>6, <1>7, <1>8, <1>9, <1>10 DEF PipeInv

-----------------------------------------------------------------------------
(* The record a call of a handler makes. *)
LEMMA NewRecord ==
    ASSUME ScopeInv, PipeInv, NEW t \in Threads, fetched[t] # Off,
           NEW r, r = [by |-> t, n |-> logged[t], stamp |-> context[t], meant |-> Expected(t)]
    PROVE  /\ r \in Records /\ r.by = t /\ r.n = logged[t] /\ r.stamp = r.meant
<1>1. context[t] \in Contexts /\ Expected(t) = context[t]
    BY DEF ScopeInv, ScopeTypes, ContextFollowsScopes
<1>2. logged[t] \in Nat \ {0}
    BY DEF PipeInv, PipeTypes, OrderInv
<1> QED
    BY <1>1, <1>2 DEF Records

(* What a call of a handler does with it. *)
LEMMA EmitCases ==
    ASSUME ScopeInv, PipeInv, NEW t \in Threads, Emit(t)
    PROVE  \E r \in Records :
             /\ fetched[t] # Off /\ r.by = t /\ r.n = logged[t] /\ r.stamp = r.meant
             /\ fetched' = [fetched EXCEPT ![t] = Off]
             /\ UNCHANGED <<handler, filtered, listener, setup, setups, logged>>
             /\ \/ /\ ~fetched[t].queues
                   /\ written' = [written EXCEPT ![t] = Append(@, r)]
                   /\ UNCHANGED <<queue, accepted>>
                \/ /\ \/ queue' = queue /\ accepted' = accepted
                      \/ /\ queue' = Append(queue, r)
                         /\ \/ accepted' = accepted
                            \/ /\ accepted' = accepted \cup {<<t, r.n>>}
                               /\ listener /\ \A j \in DOMAIN queue : queue[j] # Stop
                   /\ UNCHANGED written
<1> DEFINE r == [by |-> t, n |-> logged[t], stamp |-> context[t], meant |-> Expected(t)]
           h == fetched[t]
<1>1. /\ h # Off
      /\ fetched' = [fetched EXCEPT ![t] = Off]
      /\ IF h.queues
         THEN /\ queue' = IF h.call = setups THEN Append(queue, r) ELSE queue
              /\ accepted' = IF h.call = setups /\ listener /\ ~Contains(queue, Stop)
                             THEN accepted \cup {<<t, r.n>>} ELSE accepted
              /\ UNCHANGED written
         ELSE /\ written' = [written EXCEPT ![t] = Append(@, r)]
              /\ UNCHANGED <<queue, accepted>>
      /\ UNCHANGED <<handler, filtered, listener, setup, setups, logged>>
    BY DEF Emit, Stamp
<1>2. r \in Records /\ r.by = t /\ r.n = logged[t] /\ r.stamp = r.meant
    BY <1>1, NewRecord
<1>3. ~Contains(queue, Stop) => \A j \in DOMAIN queue : queue[j] # Stop
    <2>1. DOMAIN queue = 1..Len(queue)
        BY LenProperties DEF PipeInv, PipeTypes
    <2> QED
        BY <2>1 DEF Contains
<1> HIDE DEF r
<1>4. CASE ~h.queues
    BY <1>1, <1>2, <1>4
<1>5. CASE h.queues
    <2>1. CASE h.call # setups
        <3>1. queue' = queue /\ accepted' = accepted /\ UNCHANGED written
            BY <1>1, <1>5, <2>1
        <3> QED
            BY <1>1, <1>2, <3>1
    <2>2. CASE h.call = setups
        <3>1. queue' = Append(queue, r) /\ UNCHANGED written
            BY <1>1, <1>5, <2>2
        <3>2. \/ accepted' = accepted
              \/ /\ accepted' = accepted \cup {<<t, r.n>>}
                 /\ listener /\ \A j \in DOMAIN queue : queue[j] # Stop
            BY <1>1, <1>3, <1>5
        <3> QED
            BY <1>1, <1>2, <3>1, <3>2
    <2> QED
        BY <2>1, <2>2
<1> QED
    BY <1>4, <1>5

LEMMA EmitStep ==
    ASSUME ScopeInv, PipeInv, NEW t \in Threads, Emit(t)
    PROVE  PipeInv'
<1>1. PICK r \in Records :
             /\ fetched[t] # Off /\ r.by = t /\ r.n = logged[t] /\ r.stamp = r.meant
             /\ fetched' = [fetched EXCEPT ![t] = Off]
             /\ UNCHANGED <<handler, filtered, listener, setup, setups, logged>>
             /\ \/ /\ ~fetched[t].queues
                   /\ written' = [written EXCEPT ![t] = Append(@, r)]
                   /\ UNCHANGED <<queue, accepted>>
                \/ /\ \/ queue' = queue /\ accepted' = accepted
                      \/ /\ queue' = Append(queue, r)
                         /\ \/ accepted' = accepted
                            \/ /\ accepted' = accepted \cup {<<t, r.n>>}
                               /\ listener /\ \A j \in DOMAIN queue : queue[j] # Stop
                   /\ UNCHANGED written
    BY EmitCases
<1>2. CASE ~fetched[t].queues /\ written' = [written EXCEPT ![t] = Append(@, r)] /\ UNCHANGED <<queue, accepted>>
    BY <1>1, <1>2, EmitWrites
<1>3. CASE /\ \/ queue' = queue /\ accepted' = accepted
              \/ /\ queue' = Append(queue, r)
                 /\ \/ accepted' = accepted
                    \/ /\ accepted' = accepted \cup {<<t, r.n>>}
                       /\ listener /\ \A j \in DOMAIN queue : queue[j] # Stop
           /\ UNCHANGED written
    BY <1>1, <1>3, EmitQueues
<1> QED
    BY <1>1, <1>2, <1>3

(* The head of the queue and what is left of it. *)
LEMMA QueueParts ==
    ASSUME PipeTypes, queue # <<>>
    PROVE  /\ Len(queue) \in Nat \ {0} /\ DOMAIN queue = 1..Len(queue)
           /\ Head(queue) = queue[1] /\ queue[1] \in Records \cup {Stop}
           /\ Tail(queue) \in Seq(Records \cup {Stop})
           /\ DOMAIN Tail(queue) = 1..(Len(queue) - 1)
           /\ \A i \in 1..(Len(queue) - 1) : Tail(queue)[i] = queue[i + 1]
<1>1. queue \in Seq(Records \cup {Stop})
    BY DEF PipeTypes
<1>2. Len(queue) \in Nat \ {0} /\ DOMAIN queue = 1..Len(queue)
    BY <1>1, EmptySeq, LenProperties
<1>3. /\ Tail(queue) \in Seq(Records \cup {Stop}) /\ Len(Tail(queue)) = Len(queue) - 1
      /\ \A i \in 1..Len(Tail(queue)) : Tail(queue)[i] = queue[i + 1]
    BY <1>1, HeadTailProperties
<1>4. Head(queue) = queue[1] /\ queue[1] \in Records \cup {Stop}
    BY <1>1, <1>2, ElementOfSeq
<1>5. DOMAIN Tail(queue) = 1..Len(Tail(queue))
    BY <1>3, LenProperties
<1> QED
    BY <1>2, <1>3, <1>4, <1>5

LEMMA RewrittenParts ==
    ASSUME NEW r \in Records
    PROVE  /\ Rewritten(r) \in Records /\ Rewritten(r).by = r.by /\ Rewritten(r).n = r.n
           /\ Rewritten(r).meant = r.meant
           /\ ~filtered => Rewritten(r) = r
BY BlankIsAContext DEF Rewritten, Records

LEMMA ListenStops ==
    ASSUME PipeInv, Listen, Head(queue) = Stop
    PROVE  PipeInv'
<1>1. /\ queue # <<>> /\ queue' = Tail(queue) /\ listener' = FALSE
      /\ UNCHANGED <<handler, filtered, fetched, setup, setups, logged, accepted, written>>
    BY DEF Listen
<1>2. queue[1] = Stop /\ queue' \in Seq(Records \cup {Stop}) /\ DOMAIN queue = 1..Len(queue)
      /\ Len(queue) \in Nat
    BY <1>1, QueueParts DEF PipeInv
<1>3. PipeTypes'
    BY <1>1, <1>2 DEF PipeInv, PipeTypes
<1>4. ModeInv' /\ QueueInv'
    BY <1>1 DEF PipeInv, ModeInv, QueueInv
<1>5. OrderInv'
    BY <1>1 DEF PipeInv, OrderInv, Past
<1>6. DrainInv'
    <2> SUFFICES ASSUME NEW a \in accepted PROVE InWritten(a)
        BY <1>1 DEF DrainInv, InWritten
    <2>1. ~InQueue(a)
        <3> SUFFICES ASSUME NEW i \in DOMAIN queue, \A j \in 1..i : queue[j] # Stop PROVE FALSE
            BY DEF InQueue
        <3>1. 1 \in 1..i
            BY <1>2
        <3> QED
            BY <1>2, <3>1
    <2> QED
        BY <2>1 DEF PipeInv, DrainInv
<1> QED
    BY <1>3, <1>4, <1>5, <1>6 DEF PipeInv

LEMMA ListenWrites ==
    ASSUME PipeInv, Listen, Head(queue) # Stop
    PROVE  PipeInv'
<1> DEFINE q == queue[1]
           t == q.by
           w == written[t]
           n == Len(w)
           m == Len(queue)
           r == Rewritten(q)
<1>1. /\ listener /\ queue # <<>> /\ queue' = Tail(queue)
      /\ UNCHANGED <<handler, filtered, fetched, listener, setup, setups, logged, accepted>>
    BY DEF Listen
<1>2. /\ m \in Nat \ {0} /\ DOMAIN queue = 1..m
      /\ Head(queue) = q /\ q \in Records
      /\ queue' \in Seq(Records \cup {Stop}) /\ DOMAIN queue' = 1..(m - 1)
      /\ \A i \in 1..(m - 1) : queue'[i] = queue[i + 1]
    BY <1>1, QueueParts DEF PipeInv
<1>3. /\ r \in Records /\ r.by = t /\ r.n = q.n /\ t \in Threads /\ q # Stop
      /\ r.n \in Nat
    BY <1>2, RewrittenParts, RecordParts
<1>4. written' = [written EXCEPT ![t] = Append(w, r)]
    BY <1>2, <1>3 DEF Listen
<1>5. w \in Seq(Records)
    BY <1>3 DEF PipeInv, PipeTypes
<1>6. /\ Append(w, r) \in Seq(Records) /\ n \in Nat /\ DOMAIN w = 1..n
      /\ DOMAIN Append(w, r) = 1..(n + 1)
      /\ \A i \in 1..n : Append(w, r)[i] = w[i]
      /\ Append(w, r)[n + 1] = r
    BY <1>3, <1>5, Appended
<1>7. written'[t] = Append(w, r) /\ \A u \in Threads \ {t} : written'[u] = written[u]
    BY <1>3, <1>4 DEF PipeInv, PipeTypes
<1>8. /\ q.n <= logged[t] /\ (fetched[t] # Off => q.n < logged[t])
      /\ \A i \in DOMAIN w : w[i].n < q.n
    <2>1. 1 \in DOMAIN queue
        BY <1>2
    <2> QED
        BY <1>1, <1>3, <2>1 DEF PipeInv, QueueInv, Past
<1>9. \A i \in 1..n : w[i].n \in Nat
    BY <1>3, <1>6, EntryOfWritten DEF PipeInv
<1>10. \A j \in 1..(m - 1) : queue'[j] # Stop =>
            /\ queue'[j].by \in Threads /\ queue'[j].n \in Nat
            /\ queue'[j].by = t => q.n < queue'[j].n
    <2> SUFFICES ASSUME NEW j \in 1..(m - 1), queue'[j] # Stop
                 PROVE  /\ queue'[j].by \in Threads /\ queue'[j].n \in Nat
                        /\ queue'[j].by = t => q.n < queue'[j].n
        OBVIOUS
    <2>1. j + 1 \in DOMAIN queue /\ 1 \in DOMAIN queue /\ 1 < j + 1 /\ queue'[j] = queue[j + 1]
        BY <1>2
    <2> QED
        BY <1>1, <1>3, <2>1, EntryOfQueue DEF PipeInv, QueueInv
<1> HIDE DEF q, t, w, n, m, r
<1>11. PipeTypes'
    <2>1. written' \in [Threads -> Seq(Records)]
        BY <1>4, <1>6 DEF PipeInv, PipeTypes
    <2> QED
        BY <1>1, <1>2, <2>1 DEF PipeInv, PipeTypes
<1>12. ModeInv'
    BY <1>1 DEF PipeInv, ModeInv
<1>13. \A i \in 1..(n + 1) : i \in 1..n \/ i = n + 1
    BY <1>6
<1>14. OrderInv'
    <2> SUFFICES ASSUME NEW u \in Threads
                 PROVE  /\ fetched[u] # Off => logged[u] > 0
                        /\ \A i \in DOMAIN written'[u] :
                              /\ written'[u][i].n <= logged[u]
                              /\ fetched[u] # Off => written'[u][i].n < logged[u]
                        /\ \A i, j \in DOMAIN written'[u] : i < j => written'[u][i].n < written'[u][j].n
        BY <1>1 DEF OrderInv, Past
    <2>1. CASE u # t
        BY <1>7, <2>1 DEF PipeInv, OrderInv, Past
    <2>2. CASE u = t
        <3>1. \A i \in DOMAIN w : w[i].n <= logged[t] /\ (fetched[t] # Off => w[i].n < logged[t])
            BY <1>3 DEF PipeInv, OrderInv, Past, w
        <3>2. \A i \in DOMAIN written'[t] :
                 written'[t][i].n <= logged[t] /\ (fetched[t] # Off => written'[t][i].n < logged[t])
            BY <1>3, <1>6, <1>7, <1>8, <1>13, <3>1
        <3>3. ASSUME NEW i \in DOMAIN written'[t], NEW j \in DOMAIN written'[t], i < j
              PROVE  written'[t][i].n < written'[t][j].n
            <4>1. i \in 1..n /\ written'[t][i] = w[i]
                BY <1>6, <1>7, <3>3
            <4>2. CASE j \in 1..n
                BY <1>3, <1>6, <1>7, <3>3, <4>1, <4>2 DEF PipeInv, OrderInv, w
            <4>3. CASE j = n + 1
                BY <1>3, <1>6, <1>7, <1>8, <4>1, <4>3
            <4> QED
                BY <1>6, <1>7, <1>13, <4>2, <4>3
        <3> QED
            BY <2>2, <3>2, <3>3 DEF PipeInv, OrderInv
    <2> QED
        BY <2>1, <2>2
<1>15. QueueInv'
    <2>1. ASSUME NEW j \in DOMAIN queue', queue'[j] # Stop
          PROVE  /\ queue'[j].n <= logged[queue'[j].by]
                 /\ fetched[queue'[j].by] # Off => queue'[j].n < logged[queue'[j].by]
                 /\ \A i \in DOMAIN written'[queue'[j].by] : written'[queue'[j].by][i].n < queue'[j].n
                 /\ fetched[queue'[j].by] # Off => fetched[queue'[j].by].queues
        <3>1. j \in 1..(m - 1) /\ j + 1 \in DOMAIN queue /\ queue'[j] = queue[j + 1]
            BY <1>2
        <3>2. /\ queue'[j].n <= logged[queue'[j].by]
              /\ fetched[queue'[j].by] # Off => queue'[j].n < logged[queue'[j].by]
              /\ \A i \in DOMAIN written[queue'[j].by] : written[queue'[j].by][i].n < queue'[j].n
              /\ fetched[queue'[j].by] # Off => fetched[queue'[j].by].queues
            BY <1>1, <2>1, <3>1 DEF PipeInv, QueueInv, Past
        <3>3. CASE queue'[j].by # t
            BY <1>7, <1>10, <2>1, <3>1, <3>2, <3>3
        <3>4. CASE queue'[j].by = t
            <4>1. \A i \in DOMAIN written'[t] : written'[t][i].n < queue'[j].n
                <5>1. r.n < queue'[j].n
                    BY <1>3, <1>10, <2>1, <3>1, <3>4
                <5>2. \A i \in 1..n : w[i].n < queue'[j].n
                    BY <1>6, <3>2, <3>4 DEF w
                <5> QED
                    BY <1>6, <1>7, <1>13, <5>1, <5>2
            <4> QED
                BY <3>2, <3>4, <4>1
        <3> QED
            BY <3>3, <3>4
    <2>2. ASSUME NEW i \in DOMAIN queue', NEW j \in DOMAIN queue',
                 i < j, queue'[i] # Stop, queue'[j] # Stop, queue'[i].by = queue'[j].by
          PROVE  queue'[i].n < queue'[j].n
        <3>1. /\ i + 1 \in DOMAIN queue /\ queue'[i] = queue[i + 1]
              /\ j + 1 \in DOMAIN queue /\ queue'[j] = queue[j + 1] /\ i + 1 < j + 1
            BY <1>2, <2>2
        <3> QED
            BY <1>1, <2>2, <3>1 DEF PipeInv, QueueInv
    <2> QED
        BY <1>1, <2>1, <2>2 DEF QueueInv, Past
<1>16. DrainInv'
    <2> SUFFICES ASSUME NEW a \in accepted PROVE InWritten(a)' \/ (listener /\ InQueue(a)')
        BY <1>1 DEF DrainInv
    <2>1. CASE InWritten(a)
        <3>1. PICK i \in DOMAIN written[a[1]] : written[a[1]][i].n = a[2]
            BY <2>1 DEF InWritten
        <3>2. a[1] \in Threads
            BY DEF PipeInv, PipeTypes
        <3>3. i \in DOMAIN written'[a[1]] /\ written'[a[1]][i] = written[a[1]][i]
            <4>1. CASE a[1] # t
                BY <1>7, <3>2, <4>1
            <4>2. CASE a[1] = t
                <5>1. i \in 1..n
                    BY <1>6, <3>1, <4>2 DEF w
                <5>2. i \in 1..(n + 1)
                    BY <1>6, <5>1
                <5> QED
                    BY <1>6, <1>7, <4>2, <5>1, <5>2 DEF w
            <4> QED
                BY <4>1, <4>2
        <3> QED
            BY <3>1, <3>3 DEF InWritten
    <2>2. CASE InQueue(a)
        <3>1. PICK i \in DOMAIN queue : /\ queue[i] # Stop /\ queue[i].by = a[1] /\ queue[i].n = a[2]
                                        /\ \A j \in 1..i : queue[j] # Stop
            BY <2>2 DEF InQueue
        <3>2. CASE i = 1
            <4>1. a[1] = t /\ a[2] = r.n
                BY <1>3, <3>1, <3>2 DEF q, t
            <4>2. n + 1 \in DOMAIN written'[t] /\ written'[t][n + 1] = r
                BY <1>6, <1>7
            <4> QED
                BY <4>1, <4>2 DEF InWritten
        <3>3. CASE i # 1
            <4>1. /\ i - 1 \in 1..(m - 1) /\ (i - 1) + 1 = i
                  /\ \A j \in 1..(i - 1) : j \in 1..(m - 1) /\ j + 1 \in 1..i
                BY <1>2, <3>1, <3>3
            <4>2. queue'[i - 1] = queue[i] /\ \A j \in 1..(i - 1) : queue'[j] # Stop
                BY <1>2, <3>1, <4>1
            <4> QED
                BY <1>1, <1>2, <3>1, <4>1, <4>2 DEF InQueue
        <3> QED
            BY <3>2, <3>3
    <2> QED
        BY <2>1, <2>2 DEF PipeInv, DrainInv
<1> QED
    BY <1>11, <1>12, <1>14, <1>15, <1>16 DEF PipeInv

LEMMA ListenStep ==
    ASSUME PipeInv, Listen
    PROVE  PipeInv'
BY ListenStops, ListenWrites

-----------------------------------------------------------------------------
(* Stamps.  A listener's target handlers have no filter of their own, unless the program *)
(* hands the ones of direct mode to queue mode (Reuse).                                  *)
LEMMA EmitStamps ==
    ASSUME ScopeInv, PipeInv, StampInv, NEW t \in Threads, Emit(t)
    PROVE  StampInv'
<1>1. PICK r \in Records :
             /\ fetched[t] # Off /\ r.by = t /\ r.n = logged[t] /\ r.stamp = r.meant
             /\ fetched' = [fetched EXCEPT ![t] = Off]
             /\ UNCHANGED <<handler, filtered, listener, setup, setups, logged>>
             /\ \/ /\ ~fetched[t].queues
                   /\ written' = [written EXCEPT ![t] = Append(@, r)]
                   /\ UNCHANGED <<queue, accepted>>
                \/ /\ \/ queue' = queue /\ accepted' = accepted
                      \/ /\ queue' = Append(queue, r)
                         /\ \/ accepted' = accepted
                            \/ /\ accepted' = accepted \cup {<<t, r.n>>}
                               /\ listener /\ \A j \in DOMAIN queue : queue[j] # Stop
                   /\ UNCHANGED written
    BY EmitCases
<1>2. CASE written' = [written EXCEPT ![t] = Append(@, r)] /\ queue' = queue
    <2>1. written[t] \in Seq(Records)
        BY DEF PipeInv, PipeTypes
    <2>2. /\ Len(written[t]) \in Nat /\ DOMAIN written[t] = 1..Len(written[t])
          /\ DOMAIN Append(written[t], r) = 1..(Len(written[t]) + 1)
          /\ \A i \in 1..Len(written[t]) : Append(written[t], r)[i] = written[t][i]
          /\ Append(written[t], r)[Len(written[t]) + 1] = r
        BY <2>1, Appended
    <2>3. written'[t] = Append(written[t], r) /\ \A u \in Threads \ {t} : written'[u] = written[u]
        BY <1>2 DEF PipeInv, PipeTypes
    <2>4. \A i \in DOMAIN written'[t] : i \in DOMAIN written[t] \/ i = Len(written[t]) + 1
        BY <2>2, <2>3
    <2>5. ASSUME NEW u \in Threads, NEW i \in DOMAIN written'[u]
          PROVE  written'[u][i].stamp = written'[u][i].meant
        <3>1. CASE u # t
            BY <2>3, <3>1 DEF StampInv, WrittenAsMeant
        <3>2. CASE u = t /\ i \in DOMAIN written[t]
            BY <2>2, <2>3, <3>2 DEF StampInv, WrittenAsMeant
        <3>3. CASE u = t /\ i = Len(written[t]) + 1
            BY <1>1, <2>2, <2>3, <3>3
        <3> QED
            BY <2>4, <3>1, <3>2, <3>3
    <2> QED
        BY <1>2, <2>5 DEF StampInv, WrittenAsMeant
<1>3. CASE queue' \in {queue, Append(queue, r)} /\ written' = written
    <2>1. queue \in Seq(Records \cup {Stop}) /\ r \in Records \cup {Stop}
        BY DEF PipeInv, PipeTypes
    <2>2. /\ Len(queue) \in Nat /\ DOMAIN queue = 1..Len(queue)
          /\ DOMAIN Append(queue, r) = 1..(Len(queue) + 1)
          /\ \A i \in 1..Len(queue) : Append(queue, r)[i] = queue[i]
          /\ Append(queue, r)[Len(queue) + 1] = r
        BY <2>1, Appended
    <2>3. \A j \in DOMAIN queue' : \/ j \in DOMAIN queue /\ queue'[j] = queue[j]
                                   \/ queue'[j] = r
        BY <1>3, <2>2
    <2> QED
        BY <1>1, <1>3, <2>3 DEF StampInv, WrittenAsMeant
<1> QED
    BY <1>1, <1>2, <1>3

LEMMA ListenStamps ==
    ASSUME PipeInv, StampInv, ~Reuse, Listen
    PROVE  StampInv'
<1>1. /\ listener /\ queue # <<>> /\ queue' = Tail(queue) /\ ~filtered
    BY DEF Listen, PipeInv, ModeInv
<1>2. /\ Len(queue) \in Nat \ {0} /\ DOMAIN queue = 1..Len(queue)
      /\ Head(queue) = queue[1] /\ queue[1] \in Records \cup {Stop}
      /\ DOMAIN queue' = 1..(Len(queue) - 1)
      /\ \A i \in 1..(Len(queue) - 1) : queue'[i] = queue[i + 1]
    BY <1>1, QueueParts DEF PipeInv
<1>3. \A j \in DOMAIN queue' : queue'[j] # Stop => queue'[j].stamp = queue'[j].meant
    <2> SUFFICES ASSUME NEW j \in DOMAIN queue', queue'[j] # Stop
                 PROVE  queue'[j].stamp = queue'[j].meant
        OBVIOUS
    <2>1. j + 1 \in DOMAIN queue /\ queue'[j] = queue[j + 1]
        BY <1>2
    <2> QED
        BY <2>1 DEF StampInv
<1>4. WrittenAsMeant'
    <2>1. CASE queue[1] = Stop
        <3>1. written' = written
            BY <1>2, <2>1 DEF Listen
        <3> QED
            BY <3>1 DEF StampInv, WrittenAsMeant
    <2>2. CASE queue[1] # Stop
        <3> DEFINE q == queue[1]
                   t == q.by
        <3>1. q \in Records /\ t \in Threads /\ Rewritten(q) = q
            BY <1>1, <1>2, <2>2, RecordParts, RewrittenParts
        <3>2. written' = [written EXCEPT ![t] = Append(@, q)]
            BY <1>2, <2>2, <3>1 DEF Listen
        <3>3. q.stamp = q.meant
            BY <1>2, <2>2 DEF StampInv
        <3>4. written[t] \in Seq(Records)
            BY <3>1 DEF PipeInv, PipeTypes
        <3>5. /\ Len(written[t]) \in Nat /\ DOMAIN written[t] = 1..Len(written[t])
              /\ DOMAIN Append(written[t], q) = 1..(Len(written[t]) + 1)
              /\ \A i \in 1..Len(written[t]) : Append(written[t], q)[i] = written[t][i]
              /\ Append(written[t], q)[Len(written[t]) + 1] = q
            BY <3>1, <3>4, Appended
        <3>6. written'[t] = Append(written[t], q) /\ \A u \in Threads \ {t} : written'[u] = written[u]
            BY <3>1, <3>2 DEF PipeInv, PipeTypes
        <3> HIDE DEF q, t
        <3>7. \A i \in DOMAIN written'[t] : i \in DOMAIN written[t] \/ i = Len(written[t]) + 1
            BY <3>5, <3>6
        <3>8. ASSUME NEW u \in Threads, NEW i \in DOMAIN written'[u]
              PROVE  written'[u][i].stamp = written'[u][i].meant
            <4>1. CASE u # t
                BY <3>6, <4>1 DEF StampInv, WrittenAsMeant
            <4>2. CASE u = t /\ i \in DOMAIN written[t]
                BY <3>5, <3>6, <4>2 DEF StampInv, WrittenAsMeant
            <4>3. CASE u = t /\ i = Len(written[t]) + 1
                BY <3>3, <3>5, <3>6, <4>3
            <4> QED
                BY <3>7, <4>1, <4>2, <4>3
        <3> QED
            BY <3>8 DEF WrittenAsMeant
    <2> QED
        BY <2>1, <2>2
<1> QED
    BY <1>3, <1>4 DEF StampInv

(* What writes nothing and queues no record. *)
LEMMA StampsStay ==
    ASSUME StampInv, written' = written,
           \A j \in DOMAIN queue' : queue'[j] # Stop => j \in DOMAIN queue /\ queue'[j] = queue[j]
    PROVE  StampInv'
BY DEF StampInv, WrittenAsMeant

LEMMA InstallStamps ==
    ASSUME StampInv, Install
    PROVE  StampInv'
<1>1. written' = written /\ (queue' = <<>> \/ queue' = queue)
    BY DEF Install
<1>2. DOMAIN <<>> = {}
    OBVIOUS
<1> QED
    BY <1>1, <1>2, StampsStay

LEMMA StoppingStamps ==
    ASSUME PipeInv, StampInv, queue' = Stopped, written' = written
    PROVE  StampInv'
BY StoppedQueue, StampsStay DEF PipeInv

-----------------------------------------------------------------------------
(* The inductive invariant. *)
IInv == ScopeInv /\ PipeInv /\ (~Reuse => StampInv)

LEMMA Initial == Init => IInv
<1> SUFFICES ASSUME Init PROVE IInv
    OBVIOUS
<1>1. \A t \in Threads : frames[t] = <<>> /\ written[t] = <<>> /\ fetched[t] = Off /\ logged[t] = 0
    BY DEF Init
<1>2. DOMAIN <<>> = {} /\ <<>> \in Seq(Frames) /\ <<>> \in Seq(Records) /\ <<>> \in Seq(Records \cup {Stop})
    BY EmptySeq
<1>3. ScopeTypes
    <2>1. 0 \in 0..MaxIds
        BY BoundsAssumption
    <2> QED
        BY <1>2, <2>1, BlankIsAContext DEF Init, ScopeTypes
<1>4. PipeTypes
    <2>1. 0 \in 0..MaxSetups
        BY BoundsAssumption
    <2> QED
        BY <1>2, <2>1 DEF Init, PipeTypes
<1>5. NestInv
    BY <1>1, <1>2 DEF NestInv
<1>6. ContextFollowsScopes
    <2> SUFFICES ASSUME NEW t \in Threads PROVE context[t] = Expected(t)
        BY DEF ContextFollowsScopes
    <2>1. Expected(t) = [Blank EXCEPT !.trace = NoId]
        BY <1>1 DEF Expected, Outside, Init
    <2> QED
        BY <2>1 DEF Init, Blank
<1>7. ModeInv
    BY DEF Init, ModeInv
<1>8. OrderInv
    BY <1>1, <1>2 DEF OrderInv
<1>9. QueueInv /\ DrainInv
    BY DEF Init, QueueInv, DrainInv
<1>10. StampInv
    BY <1>1, <1>2 DEF Init, StampInv, WrittenAsMeant
<1> QED
    BY <1>3, <1>4, <1>5, <1>6, <1>7, <1>8, <1>9, <1>10 DEF IInv, ScopeInv, PipeInv

LEMMA Inductive == IInv /\ [Next]_vars => IInv'
<1> SUFFICES ASSUME IInv, [Next]_vars PROVE IInv'
    OBVIOUS
<1> USE DEF IInv
<1>1. CASE UNCHANGED pipeline /\ ScopeInv'
    <2>1. written' = written /\ queue' = queue
        BY <1>1 DEF pipeline
    <2>2. StampInv => StampInv'
        BY <2>1, StampsStay
    <2> QED
        BY <1>1, <2>2, ScopesLeaveThePipeline
<1>2. CASE UNCHANGED scopes /\ PipeInv' /\ (~Reuse => StampInv')
    BY <1>2, PipelineLeavesScopes
<1>3. ASSUME NEW t \in Threads, OpenScope(t) \/ BindCurrent(t) \/ Exit(t) \/ SetTraceId(t)
      PROVE  IInv'
    <2>1. ScopeInv'
        BY <1>3, OpenScopeStep, BindCurrentStep, ExitStep, SetTraceIdStep
    <2>2. UNCHANGED pipeline
        BY <1>3 DEF OpenScope, Enter, BindCurrent, Exit, SetTraceId
    <2> QED
        BY <1>1, <2>1, <2>2
<1>4. ASSUME NEW t \in Threads, NEW f \in Fields, BindFields(t, f)
      PROVE  IInv'
    <2>1. UNCHANGED pipeline
        BY <1>4 DEF BindFields, Enter
    <2> QED
        BY <1>1, <1>4, <2>1, BindFieldsStep
<1>5. ASSUME NEW t \in Threads, NEW c \in bound, RunBound(t, c)
      PROVE  IInv'
    <2>1. UNCHANGED pipeline
        BY <1>5 DEF RunBound, Enter
    <2> QED
        BY <1>1, <1>5, <2>1, RunBoundStep
<1>6. ASSUME NEW t \in Threads, Log(t)
      PROVE  IInv'
    <2>1. UNCHANGED scopes /\ written' = written /\ queue' = queue
        BY <1>6 DEF Log
    <2>2. StampInv => StampInv'
        BY <2>1, StampsStay
    <2> QED
        BY <1>2, <1>6, <2>1, <2>2, LogStep
<1>7. ASSUME NEW t \in Threads, Emit(t)
      PROVE  IInv'
    <2>1. UNCHANGED scopes
        BY <1>7 DEF Emit
    <2> QED
        BY <1>2, <1>7, <2>1, EmitStep, EmitStamps
<1>8. ASSUME Listen
      PROVE  IInv'
    <2>1. UNCHANGED scopes
        BY <1>8 DEF Listen
    <2> QED
        BY <1>2, <1>8, <2>1, ListenStep, ListenStamps
<1>9. ASSUME Install
      PROVE  IInv'
    <2>1. UNCHANGED scopes
        BY <1>9 DEF Install
    <2> QED
        BY <1>2, <1>9, <2>1, InstallStep, InstallStamps
<1>10. ASSUME NEW mode \in {"queue", "direct"}, SetUp(mode)
       PROVE  IInv'
    <2>1. UNCHANGED scopes /\ queue' = Stopped /\ written' = written
        BY <1>10 DEF SetUp
    <2> QED
        BY <1>2, <1>10, <2>1, SetUpStep, StoppingStamps
<1>11. ASSUME ShutDown
       PROVE  IInv'
    <2>1. UNCHANGED scopes /\ queue' = Stopped /\ written' = written
        BY <1>11 DEF ShutDown
    <2> QED
        BY <1>2, <1>11, <2>1, ShutDownStep, StoppingStamps
<1>12. ASSUME ShutDownReturns
       PROVE  IInv'
    <2>1. UNCHANGED scopes /\ queue' = queue /\ written' = written
        BY <1>12 DEF ShutDownReturns
    <2>2. StampInv => StampInv'
        BY <2>1, StampsStay
    <2> QED
        BY <1>2, <1>12, <2>1, <2>2, ShutDownReturnsStep
<1>13. CASE UNCHANGED vars
    <2>1. UNCHANGED scopes /\ UNCHANGED pipeline
        BY <1>13 DEF vars
    <2> QED
        BY <1>1, <2>1, PipelineLeavesScopes
<1> HIDE DEF IInv
<1> QED
    BY <1>3, <1>4, <1>5, <1>6, <1>7, <1>8, <1>9, <1>10, <1>11, <1>12, <1>13 DEF Next

(* Scopes nest, the listener's queue continues what is written, and what it *)
(* writes is what was stamped, in every reachable state.                    *)
THEOREM Invariance == Spec => []IInv
BY Initial, Inductive, PTL DEF Spec

(* Every variable keeps its type. *)
THEOREM TypeCorrectness == Spec => []TypeOK
<1>1. IInv => TypeOK
    BY TypesSplit DEF IInv, ScopeInv, PipeInv
<1> QED
    BY <1>1, Invariance, PTL

(* However trace scopes, fields, set_trace_id and bound functions nest, a   *)
(* thread's context is what the blocks it is in say (_context.py 73-122).   *)
THEOREM ContextsFollowScopes == Spec => []ContextFollowsScopes
<1>1. IInv => ContextFollowsScopes
    BY DEF IInv, ScopeInv
<1> QED
    BY <1>1, Invariance, PTL

(* Every record is written with the context it was logged in, if the        *)
(* program gives no call of setup_logging the target handlers of an earlier *)
(* one (__init__.py 146-163).                                               *)
THEOREM RecordsKeepTheirContext == ASSUME ~Reuse PROVE Spec => []WrittenAsMeant
<1>1. IInv => WrittenAsMeant
    BY DEF IInv, StampInv
<1> QED
    BY <1>1, Invariance, PTL

(* A thread's records are written once each and in order, and none that was *)
(* queued for a running listener is lost when it is replaced or shut down   *)
(* (__init__.py 137-147, 166-170).                                          *)
THEOREM DrainedBeforeReplaced == Spec => []DrainedInOrder
<1>1. IInv => DrainedInOrder
    <2> SUFFICES ASSUME IInv PROVE DrainedInOrder
        OBVIOUS
    <2>1. \A t \in Threads : \A i, j \in DOMAIN written[t] : i < j => written[t][i].n < written[t][j].n
        BY DEF IInv, PipeInv, OrderInv
    <2>2. \A a \in accepted : InWritten(a) \/ (listener /\ InQueue(a))
        BY DEF IInv, PipeInv, DrainInv
    <2> QED
        BY <2>1, <2>2 DEF DrainedInOrder, InWritten, InQueue
<1> QED
    BY <1>1, Invariance, PTL
=============================================================================
