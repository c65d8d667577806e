---------------------------- MODULE GridRowsProofs ----------------------------
(***************************************************************************)
(* Proofs about GridRows, for any rows, relations, schemas and sessions,   *)
(* and any number of operations.                                           *)
(*                                                                         *)
(* The argument: an operation that met nobody may believe what it read.    *)
(* Current says, per operation, which reads those are; a commit changes no *)
(* row, cell or edge in the footprint of an operation it did not meet      *)
(* (CommitElsewhere), so they stay true until the operation commits        *)
(* itself.  Cardinality needs none of it: Commit tests it again.           *)
(***************************************************************************)
EXTENDS GridRows, TLAPS

(* What is stored changes at a commit only.                                *)
LEMMA OnlyCommitsWrite ==
    ASSUME [Next]_vars
    PROVE  (\E w \in Writers : Commit(w)) \/ UNCHANGED <<schema, data, history>>
<1>1. ASSUME NEW w \in Writers, NEW x \in Rows, NEW r \in Relations, NEW to \in SUBSET Rows,
             Create(w, x, r, to) \/ Patch(w, x, r, to)
      PROVE  UNCHANGED <<schema, data, history>>
  BY <1>1 DEF Create, Patch, Begin
<1>2. ASSUME NEW w \in Writers, NEW x \in Rows, NEW r \in Relations, NEW y \in Rows,
             Relate(w, x, r, y) \/ Unrelate(w, x, r, y)
      PROVE  UNCHANGED <<schema, data, history>>
  BY <1>2 DEF Relate, Unrelate, Begin
<1>3. ASSUME NEW w \in Writers, NEW x \in Rows, Archive(w, x) \/ Visit(w, x)
      PROVE  UNCHANGED <<schema, data, history>>
  BY <1>3 DEF Archive, Begin, Visit
<1>4. ASSUME NEW w \in Writers, ReadCleared(w) \/ Flush(w) \/ Sync(w) \/ Abort(w)
      PROVE  UNCHANGED <<schema, data, history>>
  BY <1>4 DEF ReadCleared, Flush, Sync, Abort
<1>5. UNCHANGED vars => UNCHANGED <<schema, data, history>>
  BY DEF vars
<1> QED
  BY <1>1, <1>2, <1>3, <1>4, <1>5 DEF Next

(* Cardinality. *)

LEMMA ClashIsSymmetric == ASSUME NEW e, NEW f, Clash(e, f) PROVE Clash(f, e)
  BY DEF Clash

(* relations.py _enforce_cardinality: an end that must be unique occurs in *)
(* one edge, whatever sessions write at once.                              *)
THEOREM CardinalityIsKept == Spec => []CardinalityHolds
<1>1. Init => CardinalityHolds
  BY DEF Init, CardinalityHolds
<1>2. CardinalityHolds /\ [Next]_vars => CardinalityHolds'
  <2>. SUFFICES ASSUME CardinalityHolds, [Next]_vars PROVE CardinalityHolds'
    OBVIOUS
  <2>1. ASSUME UNCHANGED <<schema, edges>> PROVE CardinalityHolds'
    BY <2>1 DEF CardinalityHolds, Clash
  <2>2. ASSUME NEW w \in Writers, Commit(w) PROVE CardinalityHolds'
    <3>. DEFINE kept == edges \ op[w].cut
                new == op[w].new
    <3>1. edges' = kept \cup new /\ schema' = schema
      BY <2>2 DEF Commit
    <3>2. \A e, f \in kept : ~Clash(e, f)
      BY DEF CardinalityHolds
    <3>3. \A e \in new, f \in kept \cup new : ~Clash(e, f) /\ ~Clash(f, e)
      BY <2>2, ClashIsSymmetric DEF Commit, Fits
    <3>4. \A e, f \in edges' : ~Clash(e, f)
      BY <3>1, <3>2, <3>3
    <3> QED
      BY <3>1, <3>4 DEF CardinalityHolds, Clash
  <2> QED
    BY <2>1, <2>2, OnlyCommitsWrite DEF data
<1> QED
  BY <1>1, <1>2, PTL DEF Spec

-----------------------------------------------------------------------------
(* What holds of an operation whatever other sessions do.                  *)
Links(o) == o.kind \in {"relate", "unrelate"}
Writing(o) == o.kind \in {"create", "patch"}
Archiving(o) == o.kind = "archive"

OpShape(o) ==
    /\ Archiving(o) =>
        /\ o.at \in {"planning", "read", "ready"}
        /\ o.new = {}
        /\ o.at = "planning" => o.write = [x \in {} |-> {}]
        /\ o.at # "planning" => o.todo = {} /\ DOMAIN o.write = {c[2] : c \in o.clear}
    /\ ~Archiving(o) =>
        /\ o.at \in {"read", "flushed", "ready"}
        /\ o.rel \in Relations
        /\ o.todo = {} /\ o.visited = {} /\ o.clear = {}
        /\ \A e \in o.cut \cup o.new : e[1] = o.rel /\ e[2] = o.row
    /\ Writing(o) => HasColumn(o.rel) /\ DOMAIN o.write = {o.row}
    /\ Links(o) => o.write = [x \in {} |-> {}]

(* A cell of a relation without a ref column stays empty.                  *)
NoCells(o) == \A x \in DOMAIN o.write, r \in Relations : ~HasColumn(r) => o.write[x][r] = {}

CreateOK(o) ==
    o.kind = "create" =>
        /\ status[o.row] = "absent"
        /\ o.write = [y \in {o.row} |-> [s \in Relations |-> IF s = o.rel THEN o.to ELSE {}]]

ArchiveOK(o) ==
    Archiving(o) =>
        /\ \A x \in o.visited \cup o.todo : status[x] # "absent"
        /\ o.at # "planning" => \A c \in o.clear : o.write[c[2]][c[1]] = {}

OpInv ==
    \A w \in Writers : Active(w) =>
        OpShape(op[w]) /\ NoCells(op[w]) /\ CreateOK(op[w]) /\ ArchiveOK(op[w])

(* No two sessions create the same row.                                    *)
RowsApart ==
    \A v, w \in Writers :
        v # w /\ op[v].kind = "create" /\ op[w].kind = "create" => op[v].row # op[w].row

NoColumnInv == \A x \in Rows, r \in Relations : ~HasColumn(r) => payload[x][r] = {}

(* What an operation read, and still is so while nobody met it.            *)
RowsLive(o) ==
    /\ o.kind \in {"patch", "relate", "unrelate"} => Live(o.row)
    /\ Links(o) => \A y \in o.to : Live(y)
    /\ \A e \in o.new : Live(e[3])
PatchCurrent(o) == o.kind = "patch" => o.write[o.row] = Patched(o.row, o.rel, o.to)
SyncCurrent(o) ==
    Writing(o) /\ o.at = "ready" => o.cut = Held(o) \ Wanted(o) /\ o.new = Wanted(o) \ Held(o)

(* The plan of an archive covers every edge of the rows it has visited.    *)
Planned(o, e) ==
    /\ ~Refused(e)
    /\ schema[e[1]].on_delete = "cascade" => e[2] \in o.visited \cup o.todo
    /\ schema[e[1]].on_delete # "cascade" =>
           e \in o.cut /\ (HasColumn(e[1]) => <<e[1], e[2]>> \in o.clear)
PlanCurrent(o) ==
    Archiving(o) =>
        /\ \A e \in edges : e[3] \in o.visited => Planned(o, e)
        /\ \A e \in edges : e[2] \in o.visited => e \in o.cut
        /\ \A e \in o.cut : e[2] \in o.visited \/ (HasColumn(e[1]) => <<e[1], e[2]>> \in o.clear)
        /\ o.at # "planning" => \A x \in DOMAIN o.write : o.write[x] = Cleared(x, o.clear)

Current(o) == RowsLive(o) /\ PatchCurrent(o) /\ SyncCurrent(o) /\ PlanCurrent(o)

MetInv == ~met => \A w \in Writers : Active(w) => Current(op[w])

IInv == TypeOK /\ OpInv /\ RowsApart /\ NoColumnInv /\ ReferencesHold /\ MetInv

-----------------------------------------------------------------------------
LEMMA OpTypes ==
    ASSUME TypeOK, NEW w \in Writers, Active(w)
    PROVE  op[w] \in Operations
  BY DEF TypeOK, Active, Idle

LEMMA InitIInv == Init => IInv
<1>. SUFFICES ASSUME Init PROVE IInv
  OBVIOUS
<1>1. edges \subseteq Edges
  BY DEF Init, kSubset
<1>2. schema \in GridSchema /\ 0 \in 0..MaxOps
  BY SchemasAssumption, BoundsAssumption DEF Init
<1>3. payload \in [Rows -> Cells]
  BY DEF Init, Projected, Cells
<1>4. TypeOK
  BY <1>1, <1>2, <1>3 DEF Init, TypeOK
<1>5. \A w \in Writers : ~Active(w) /\ op[w].kind # "create"
  BY DEF Init, Active, Idle
<1>6. NoColumnInv
  BY DEF Init, Projected, NoColumnInv
<1>7. ReferencesHold
  BY DEF Init, Projected, ReferencesHold, Live
<1> QED
  BY <1>4, <1>5, <1>6, <1>7 DEF IInv, OpInv, RowsApart, MetInv

(* A step that changes one operation and nothing else needs a look at that *)
(* operation only.                                                         *)
LEMMA OneOperation ==
    ASSUME IInv, NEW w \in Writers, NEW p \in {Idle} \cup Operations,
           UNCHANGED <<schema, data, history>>, begun' \in 0..MaxOps,
           op' = [op EXCEPT ![w] = p],
           p # Idle => OpShape(p) /\ NoCells(p) /\ CreateOK(p) /\ ArchiveOK(p),
           p # Idle /\ ~met => Current(p),
           p.kind = "create" => \/ op[w].kind = "create" /\ op[w].row = p.row
                                \/ \A v \in Writers : Active(v) => op[v].row # p.row
    PROVE  IInv'
<1>1. \A v \in Writers : op'[v] = IF v = w THEN p ELSE op[v]
  BY DEF IInv, TypeOK
<1>2. TypeOK'
  BY DEF IInv, TypeOK, data, history
<1>3. p.kind = "none" => p = Idle
  BY DEF Operations
<1>4. OpInv'
  <2>. SUFFICES ASSUME NEW v \in Writers, Active(v)'
                PROVE  (OpShape(op[v]) /\ NoCells(op[v]) /\ CreateOK(op[v]) /\ ArchiveOK(op[v]))'
    BY DEF OpInv
  <2>1. OpShape(op'[v]) /\ NoCells(op'[v]) /\ CreateOK(op'[v]) /\ ArchiveOK(op'[v])
    BY <1>1 DEF IInv, OpInv, Active, Idle
  <2> QED
    BY <2>1 DEF OpShape, NoCells, CreateOK, ArchiveOK, Archiving, Writing, Links, HasColumn, data
<1>5. RowsApart'
  BY <1>1 DEF IInv, RowsApart, Active, Idle
<1>6. NoColumnInv'
  BY DEF IInv, NoColumnInv, HasColumn, data
<1>7. ReferencesHold'
  BY DEF IInv, ReferencesHold, HasColumn, Live, data, history
<1>8. MetInv'
  <2>. SUFFICES ASSUME ~met', NEW v \in Writers, Active(v)' PROVE Current(op[v])'
    BY DEF MetInv
  <2>1. Current(op'[v])
    BY <1>1 DEF IInv, MetInv, Active, Idle, history
  <2> QED
    BY <2>1 DEF Current, RowsLive, PatchCurrent, SyncCurrent, PlanCurrent, Planned, Refused, Patched, Held,
       Wanted, Cleared, Live, Archiving, Writing, Links, HasColumn, data
<1> QED
  BY <1>2, <1>4, <1>5, <1>6, <1>7, <1>8 DEF IInv

-----------------------------------------------------------------------------
(* The steps that read. *)

LEMMA CreateKeeps ==
    ASSUME IInv, NEW w \in Writers, NEW x \in Rows, NEW r \in Relations, NEW to \in SUBSET Rows,
           Create(w, x, r, to)
    PROVE  IInv'
<1>. DEFINE cells == [s \in Relations |-> IF s = r THEN to ELSE {}]
            write == [y \in {x} |-> cells]
<1>1. PICK p : p = [kind |-> "create", at |-> "flushed", row |-> x, rel |-> r, to |-> to,
                    write |-> write, cut |-> {}, new |-> {},
                    todo |-> {}, visited |-> {}, clear |-> {}]
  OBVIOUS
<1>2. cells \in Cells /\ write \in [{x} -> Cells]
  BY DEF Cells
<1>3. write \in UNION {[D -> Cells] : D \in SUBSET Rows}
  BY <1>2
<1>4. p \in Operations /\ p # Idle
  BY <1>1, <1>3 DEF Operations, Idle
<1>5. /\ op' = [op EXCEPT ![w] = p] /\ begun' = begun + 1 /\ begun < MaxOps
      /\ UNCHANGED <<schema, data, history>>
      /\ HasColumn(r) /\ status[x] = "absent"
      /\ \A v \in Writers : Active(v) => op[v].row # x
  BY <1>1 DEF Create, Begin, Fresh
<1>6. begun' \in 0..MaxOps
  BY <1>5, BoundsAssumption DEF IInv, TypeOK
<1>7. OpShape(p) /\ NoCells(p) /\ CreateOK(p) /\ ArchiveOK(p)
  BY <1>1, <1>5 DEF OpShape, NoCells, CreateOK, ArchiveOK, Archiving, Writing, Links
<1>8. Current(p)
  BY <1>1 DEF Current, RowsLive, PatchCurrent, SyncCurrent, PlanCurrent, Archiving, Writing, Links
<1> QED
  BY <1>1, <1>4, <1>5, <1>6, <1>7, <1>8, OneOperation

LEMMA PatchKeeps ==
    ASSUME IInv, NEW w \in Writers, NEW x \in Rows, NEW r \in Relations, NEW to \in SUBSET Rows,
           Patch(w, x, r, to)
    PROVE  IInv'
<1>. DEFINE write == [y \in {x} |-> Patched(x, r, to)]
<1>1. PICK p : p = [kind |-> "patch", at |-> "read", row |-> x, rel |-> r, to |-> to,
                    write |-> write, cut |-> {}, new |-> {},
                    todo |-> {}, visited |-> {}, clear |-> {}]
  OBVIOUS
<1>2. payload[x] \in Cells /\ Patched(x, r, to) \in Cells /\ write \in [{x} -> Cells]
  BY DEF IInv, TypeOK, Cells, Patched
<1>3. write \in UNION {[D -> Cells] : D \in SUBSET Rows}
  BY <1>2
<1>4. p \in Operations /\ p # Idle
  BY <1>1, <1>3 DEF Operations, Idle
<1>5. /\ op' = [op EXCEPT ![w] = p] /\ begun' = begun + 1 /\ begun < MaxOps
      /\ UNCHANGED <<schema, data, history>>
      /\ HasColumn(r) /\ status[x] = "live"
  BY <1>1 DEF Patch, Begin
<1>6. begun' \in 0..MaxOps
  BY <1>5, BoundsAssumption DEF IInv, TypeOK
<1>7. OpShape(p) /\ CreateOK(p) /\ ArchiveOK(p)
  BY <1>1, <1>5 DEF OpShape, CreateOK, ArchiveOK, Archiving, Writing, Links
<1>8. NoCells(p)
  BY <1>1, <1>2, <1>5 DEF NoCells, Patched, IInv, NoColumnInv, Cells
<1>9. Current(p)
  BY <1>1, <1>5 DEF Current, RowsLive, PatchCurrent, SyncCurrent, PlanCurrent, Archiving, Writing, Links, Live
<1> QED
  BY <1>1, <1>4, <1>5, <1>6, <1>7, <1>8, <1>9, OneOperation

LEMMA LinkKeeps ==
    ASSUME IInv, NEW w \in Writers, NEW x \in Rows, NEW r \in Relations, NEW y \in Rows,
           Relate(w, x, r, y) \/ Unrelate(w, x, r, y)
    PROVE  IInv'
<1>1. PICK kind \in {"relate", "unrelate"} :
          Begin(w, kind, "flushed", x, r, {y}, [z \in {} |-> {}]) /\ status[x] = "live" /\ status[y] = "live"
  BY DEF Relate, Unrelate
<1>2. PICK p : p = [kind |-> kind, at |-> "flushed", row |-> x, rel |-> r, to |-> {y},
                    write |-> [z \in {} |-> {}], cut |-> {}, new |-> {},
                    todo |-> {}, visited |-> {}, clear |-> {}]
  OBVIOUS
<1>3. [z \in {} |-> {}] \in [{} -> Cells]
  OBVIOUS
<1>4. p \in Operations /\ p # Idle
  BY <1>2, <1>3 DEF Operations, Idle
<1>5. /\ op' = [op EXCEPT ![w] = p] /\ begun' = begun + 1 /\ begun < MaxOps
      /\ UNCHANGED <<schema, data, history>>
  BY <1>1, <1>2 DEF Begin
<1>6. begun' \in 0..MaxOps
  BY <1>5, BoundsAssumption DEF IInv, TypeOK
<1>7. OpShape(p) /\ NoCells(p) /\ CreateOK(p) /\ ArchiveOK(p)
  BY <1>2, <1>5 DEF OpShape, NoCells, CreateOK, ArchiveOK, Archiving, Writing, Links
<1>8. Current(p)
  BY <1>1, <1>2 DEF Current, RowsLive, PatchCurrent, SyncCurrent, PlanCurrent, Archiving, Writing, Links, Live
<1> QED
  BY <1>2, <1>4, <1>5, <1>6, <1>7, <1>8, OneOperation

LEMMA ArchiveKeeps ==
    ASSUME IInv, NEW w \in Writers, NEW x \in Rows, Archive(w, x)
    PROVE  IInv'
<1>1. PICK p : p = [kind |-> "archive", at |-> "planning", row |-> x, rel |-> AnyRelation, to |-> {},
                    write |-> [z \in {} |-> {}], cut |-> {}, new |-> {},
                    todo |-> {x}, visited |-> {}, clear |-> {}]
  OBVIOUS
<1>2. [z \in {} |-> {}] \in [{} -> Cells]
  OBVIOUS
<1>3. p \in Operations /\ p # Idle
  BY <1>1, <1>2 DEF Operations, Idle
<1>4. /\ op' = [op EXCEPT ![w] = p] /\ begun' = begun + 1 /\ begun < MaxOps
      /\ UNCHANGED <<schema, data, history>>
      /\ status[x] = "live"
  BY <1>1 DEF Archive, Begin
<1>5. begun' \in 0..MaxOps
  BY <1>4, BoundsAssumption DEF IInv, TypeOK
<1>6. OpShape(p) /\ NoCells(p) /\ CreateOK(p) /\ ArchiveOK(p)
  BY <1>1, <1>4 DEF OpShape, NoCells, CreateOK, ArchiveOK, Archiving, Writing, Links
<1>7. Current(p)
  BY <1>1 DEF Current, RowsLive, PatchCurrent, SyncCurrent, PlanCurrent, Archiving, Writing, Links
<1> QED
  BY <1>1, <1>3, <1>4, <1>5, <1>6, <1>7, OneOperation

(* The rows a visit adds to the plan are covered by it as they are now.    *)
LEMMA VisitKeeps ==
    ASSUME IInv, NEW w \in Writers, NEW y \in Rows, Visit(w, y)
    PROVE  IInv'
<1>. DEFINE o == op[w]
            inbound == {e \in edges : e[3] = y}
            seen == o.visited \cup {y}
            sources == {e[2] : e \in {f \in inbound : Cascades(f)}}
            cleared == {<<e[1], e[2]>> : e \in
                           {f \in inbound : schema[f[1]].on_delete = "set_null" /\ HasColumn(f[1])}}
            cut == o.cut \cup {e \in inbound : ~Cascades(e)} \cup {e \in edges : e[2] = y}
<1>1. PICK p : p = [o EXCEPT !.visited = seen, !.todo = (o.todo \cup sources) \ seen,
                             !.cut = cut, !.clear = o.clear \cup cleared]
  OBVIOUS
<1>2. /\ Active(w) /\ o.at = "planning" /\ y \in o.todo
      /\ \A e \in inbound : ~Refused(e)
      /\ op' = [op EXCEPT ![w] = p]
      /\ UNCHANGED <<schema, data, begun, history>>
  BY <1>1 DEF Visit
<1>3. o \in Operations /\ OpShape(o) /\ NoCells(o) /\ CreateOK(o) /\ ArchiveOK(o)
  BY <1>2, OpTypes DEF IInv, OpInv
<1>4. o.kind = "archive" /\ Archiving(o)
  BY <1>2, <1>3 DEF OpShape, Archiving
<1>5. edges \subseteq Edges
  BY DEF IInv, TypeOK
<1>6. seen \in SUBSET Rows /\ (o.todo \cup sources) \ seen \in SUBSET Rows
      /\ cut \in SUBSET Edges /\ o.clear \cup cleared \in SUBSET (Relations \X Rows)
  BY <1>3, <1>5 DEF Operations, Edges
<1>7. p \in Operations
  BY <1>1, <1>3, <1>6 DEF Operations
<1>8. /\ p.kind = "archive" /\ p.at = "planning" /\ p.write = o.write /\ p.new = o.new
      /\ p.visited = seen /\ p.todo = (o.todo \cup sources) \ seen /\ p.cut = cut
      /\ p.clear = o.clear \cup cleared
  BY <1>1, <1>2, <1>3, <1>4 DEF Operations
<1>9. OpShape(p) /\ NoCells(p) /\ CreateOK(p)
  BY <1>2, <1>3, <1>4, <1>8 DEF OpShape, NoCells, CreateOK, Archiving, Writing, Links
<1>10. ArchiveOK(p)
  <2>1. \A x \in sources : status[x] # "absent"
    BY DEF Cascades
  <2> QED
    BY <2>1, <1>2, <1>3, <1>4, <1>8 DEF ArchiveOK, Archiving
<1>11. ASSUME ~met PROVE Current(p)
  <2>1. PlanCurrent(o) /\ \A e \in edges : Live(e[2])
    BY <1>2, <1>11 DEF IInv, MetInv, Current, ReferencesHold
  <2>2. ASSUME NEW e \in edges, e[3] \in p.visited PROVE Planned(p, e)
    <3>1. CASE e[3] = y
      <4>1. ~Refused(e)
        BY <1>2, <3>1
      <4>2. schema[e[1]].on_delete = "cascade" <=> Cascades(e)
        BY <2>1 DEF Cascades, Live
      <4>3. schema[e[1]].on_delete = "cascade" => e[2] \in p.visited \cup p.todo
        BY <1>8, <3>1, <4>2
      <4>4. schema[e[1]].on_delete # "cascade" => schema[e[1]].on_delete = "set_null"
        BY <1>5, <4>1 DEF Refused, IInv, TypeOK, GridSchema, Policies, Edges
      <4>5. schema[e[1]].on_delete # "cascade" =>
                e \in p.cut /\ (HasColumn(e[1]) => <<e[1], e[2]>> \in p.clear)
        BY <1>8, <3>1, <4>2, <4>4
      <4> QED
        BY <4>1, <4>3, <4>5 DEF Planned
    <3>2. CASE e[3] # y
      BY <1>4, <1>8, <2>1, <2>2, <3>2 DEF PlanCurrent, Planned
    <3> QED
      BY <3>1, <3>2
  <2>3. ASSUME NEW e \in edges, e[2] \in p.visited PROVE e \in p.cut
    BY <1>4, <1>8, <2>1, <2>3 DEF PlanCurrent
  <2>4. ASSUME NEW e \in p.cut PROVE e[2] \in p.visited \/ (HasColumn(e[1]) => <<e[1], e[2]>> \in p.clear)
    <3>1. CASE e \in o.cut
      BY <1>4, <1>8, <2>1, <3>1 DEF PlanCurrent
    <3>2. CASE e \in inbound /\ ~Cascades(e)
      BY <1>8, <2>2, <2>1, <3>2 DEF Planned, Cascades, Live
    <3> QED
      BY <1>8, <2>4, <3>1, <3>2
  <2>5. PlanCurrent(p)
    BY <1>8, <2>2, <2>3, <2>4 DEF PlanCurrent
  <2> QED
    BY <1>3, <1>4, <1>8, <2>5 DEF Current, RowsLive, PatchCurrent, SyncCurrent, Links, Writing, OpShape
<1> QED
  BY <1>2, <1>7, <1>8, <1>9, <1>10, <1>11, OneOperation DEF IInv, TypeOK

LEMMA ReadClearedKeeps ==
    ASSUME IInv, NEW w \in Writers, ReadCleared(w)
    PROVE  IInv'
<1>. DEFINE o == op[w]
            sources == {c[2] : c \in o.clear}
            write == [x \in sources |-> Cleared(x, o.clear)]
<1>1. PICK p : p = [o EXCEPT !.at = "read", !.write = write]
  OBVIOUS
<1>2. /\ Active(w) /\ o.at = "planning" /\ o.todo = {}
      /\ op' = [op EXCEPT ![w] = p]
      /\ UNCHANGED <<schema, data, begun, history>>
  BY <1>1 DEF ReadCleared
<1>3. o \in Operations /\ OpShape(o) /\ NoCells(o) /\ CreateOK(o) /\ ArchiveOK(o)
  BY <1>2, OpTypes DEF IInv, OpInv
<1>4. o.kind = "archive" /\ Archiving(o)
  BY <1>2, <1>3 DEF OpShape, Archiving
<1>5. sources \in SUBSET Rows /\ \A x \in sources : Cleared(x, o.clear) \in Cells
  BY <1>3 DEF Operations, Cleared, Cells, IInv, TypeOK
<1>6. write \in [sources -> Cells]
  BY <1>5
<1>7. write \in UNION {[D -> Cells] : D \in SUBSET Rows}
  BY <1>5, <1>6
<1>8. p \in Operations
  BY <1>1, <1>3, <1>7 DEF Operations
<1>9. /\ p.kind = "archive" /\ p.at = "read" /\ p.write = write /\ p.new = o.new
      /\ p.visited = o.visited /\ p.todo = {} /\ p.cut = o.cut /\ p.clear = o.clear
  BY <1>1, <1>2, <1>3, <1>4 DEF Operations
<1>10. OpShape(p) /\ CreateOK(p)
  BY <1>3, <1>4, <1>9 DEF OpShape, CreateOK, Archiving, Writing, Links
<1>11. NoCells(p)
  BY <1>5, <1>9 DEF NoCells, Cleared, IInv, NoColumnInv
<1>12. ArchiveOK(p)
  <2>1. \A c \in o.clear : write[c[2]][c[1]] = {}
    BY <1>3 DEF Cleared, Operations
  <2> QED
    BY <2>1, <1>3, <1>4, <1>9 DEF ArchiveOK, Archiving
<1>13. ASSUME ~met PROVE Current(p)
  <2>1. PlanCurrent(o)
    BY <1>2, <1>13 DEF IInv, MetInv, Current
  <2>2. PlanCurrent(p)
    BY <1>2, <1>4, <1>9, <2>1 DEF PlanCurrent, Planned
  <2> QED
    BY <1>3, <1>4, <1>9, <2>2 DEF Current, RowsLive, PatchCurrent, SyncCurrent, Links, Writing, OpShape
<1> QED
  BY <1>2, <1>8, <1>9, <1>10, <1>11, <1>12, <1>13, OneOperation DEF IInv, TypeOK

LEMMA FlushKeeps ==
    ASSUME IInv, NEW w \in Writers, Flush(w)
    PROVE  IInv'
<1>. DEFINE o == op[w]
<1>1. PICK p : p = [o EXCEPT !.at = IF o.kind = "archive" THEN "ready" ELSE "flushed"]
  OBVIOUS
<1>2. /\ Active(w) /\ o.at = "read"
      /\ op' = [op EXCEPT ![w] = p]
      /\ UNCHANGED <<schema, data, begun, history>>
  BY <1>1 DEF Flush
<1>3. o \in Operations /\ OpShape(o) /\ NoCells(o) /\ CreateOK(o) /\ ArchiveOK(o)
  BY <1>2, OpTypes DEF IInv, OpInv
<1>4. p \in Operations
  BY <1>1, <1>3 DEF Operations
<1>5. /\ p.kind = o.kind /\ p.row = o.row /\ p.rel = o.rel /\ p.to = o.to
      /\ p.write = o.write /\ p.new = o.new
      /\ p.visited = o.visited /\ p.todo = o.todo /\ p.cut = o.cut /\ p.clear = o.clear
      /\ p.at = IF o.kind = "archive" THEN "ready" ELSE "flushed"
  BY <1>1, <1>3 DEF Operations
<1>6. OpShape(p) /\ NoCells(p) /\ CreateOK(p) /\ ArchiveOK(p)
  BY <1>2, <1>3, <1>5 DEF OpShape, NoCells, CreateOK, ArchiveOK, Archiving, Writing, Links
<1>7. ASSUME ~met PROVE Current(p)
  <2>1. Current(o)
    BY <1>2, <1>7 DEF IInv, MetInv
  <2> QED
    BY <1>2, <1>5, <2>1 DEF Current, RowsLive, PatchCurrent, SyncCurrent, PlanCurrent, Planned, Links, Writing, Archiving
<1>8. p.kind = "create" => o.kind = "create" /\ o.row = p.row
  BY <1>5
<1> QED
  BY <1>2, <1>4, <1>6, <1>7, <1>8, OneOperation DEF IInv, TypeOK

(* A sync reads the edges and the targets it then adds to.                 *)
LEMMA SyncKeeps ==
    ASSUME IInv, NEW w \in Writers, Sync(w)
    PROVE  IInv'
<1>. DEFINE o == op[w]
            cut == CASE o.kind = "unrelate" -> Wanted(o)
                     [] o.kind = "relate" -> {}
                     [] OTHER -> Held(o) \ Wanted(o)
            new == CASE o.kind = "unrelate" -> {}
                     [] o.kind = "relate" -> Wanted(o)
                     [] OTHER -> Wanted(o) \ Held(o)
<1>1. PICK p : p = [o EXCEPT !.at = "ready", !.cut = cut, !.new = new]
  OBVIOUS
<1>2. /\ Active(w) /\ o.at = "flushed"
      /\ o.kind \in {"create", "patch"} => TargetsLive(o)
      /\ op' = [op EXCEPT ![w] = p]
      /\ UNCHANGED <<schema, data, begun, history>>
  BY <1>1 DEF Sync
<1>3. o \in Operations /\ OpShape(o) /\ NoCells(o) /\ CreateOK(o) /\ ArchiveOK(o)
  BY <1>2, OpTypes DEF IInv, OpInv
<1>4. ~Archiving(o) /\ o.kind \in {"create", "patch", "relate", "unrelate"} /\ o.rel \in Relations
  BY <1>2, <1>3 DEF OpShape, Archiving, Operations
<1>5. edges \subseteq Edges
  BY DEF IInv, TypeOK
<1>6. /\ Wanted(o) \in SUBSET Edges /\ Held(o) \in SUBSET Edges
      /\ \A e \in Wanted(o) \cup Held(o) : e[1] = o.rel /\ e[2] = o.row
      /\ \A e \in Wanted(o) : e[3] \in o.to
  BY <1>3, <1>4, <1>5 DEF Wanted, Held, Edges, Operations
<1>7. /\ cut \in SUBSET Edges /\ new \in SUBSET Edges /\ new \subseteq Wanted(o)
      /\ cut \subseteq Wanted(o) \cup Held(o)
      /\ o.kind = "unrelate" => new = {}
      /\ Writing(o) => cut = Held(o) \ Wanted(o) /\ new = Wanted(o) \ Held(o)
  BY <1>4, <1>6 DEF Writing
<1>. HIDE DEF cut, new
<1>8. p \in Operations
  BY <1>1, <1>3, <1>7 DEF Operations
<1>9. /\ p.kind = o.kind /\ p.row = o.row /\ p.rel = o.rel /\ p.to = o.to
      /\ p.write = o.write /\ p.new = new
      /\ p.visited = o.visited /\ p.todo = o.todo /\ p.cut = cut /\ p.clear = o.clear
      /\ p.at = "ready"
  BY <1>1, <1>3 DEF Operations
<1>10. OpShape(p) /\ NoCells(p) /\ CreateOK(p) /\ ArchiveOK(p)
  BY <1>3, <1>4, <1>6, <1>7, <1>9 DEF OpShape, NoCells, CreateOK, ArchiveOK, Archiving, Writing, Links
<1>11. ASSUME ~met PROVE Current(p)
  <2>1. Current(o)
    BY <1>2, <1>11 DEF IInv, MetInv
  <2>2. RowsLive(p)
    BY <1>2, <1>4, <1>6, <1>7, <1>9, <2>1 DEF Current, RowsLive, Links, TargetsLive, Live
  <2>3. SyncCurrent(p)
    BY <1>7, <1>9 DEF SyncCurrent, Writing, Held, Wanted
  <2>4. PatchCurrent(p) /\ PlanCurrent(p)
    BY <1>4, <1>9, <2>1 DEF Current, PatchCurrent, PlanCurrent, Archiving
  <2> QED
    BY <2>2, <2>3, <2>4 DEF Current
<1>12. p.kind = "create" => o.kind = "create" /\ o.row = p.row
  BY <1>9
<1> QED
  BY <1>2, <1>8, <1>10, <1>11, <1>12, OneOperation DEF IInv, TypeOK

LEMMA AbortKeeps ==
    ASSUME IInv, NEW w \in Writers, Abort(w)
    PROVE  IInv'
<1>1. Idle.kind # "create" /\ UNCHANGED <<schema, data, begun, history>> /\ op' = [op EXCEPT ![w] = Idle]
  BY DEF Abort, Idle
<1>2. begun' \in 0..MaxOps
  BY <1>1 DEF IInv, TypeOK
<1> QED
  BY <1>1, <1>2, OneOperation

-----------------------------------------------------------------------------
(* A commit. *)

(* What a commit that met nobody leaves alone.                             *)
LEMMA CommitElsewhere ==
    ASSUME IInv, NEW w \in Writers, Commit(w), ~met', NEW v \in Writers, v # w, Active(v),
           NEW x \in Footprint(op[v])
    PROVE  /\ ~met
           /\ x \in Rows => payload'[x] = payload[x] /\ status'[x] = status[x]
           /\ \A e : e[2] = x \/ e[3] = x => (e \in edges' <=> e \in edges)
<1>. DEFINE o == op[w]
<1>1. ~met /\ Footprint(op[v]) \cap Footprint(o) = {}
  BY DEF Commit
<1>2. x \notin Footprint(o)
  BY <1>1
<1>3. x # o.row /\ x \notin o.visited /\ x \notin DOMAIN o.write
  BY <1>2 DEF Footprint
<1>4. \A e \in o.cut \cup o.new : e[2] # x /\ e[3] # x
  BY <1>2 DEF Footprint
<1> QED
  BY <1>1, <1>3, <1>4 DEF Commit

(* So whoever it did not meet may still believe what it read.              *)
LEMMA CommitKeepsOthers ==
    ASSUME IInv, NEW w \in Writers, Commit(w), ~met', NEW v \in Writers, v # w, Active(v)
    PROVE  Current(op[v])'
<1>. DEFINE q == op[v]
<1>1. op'[v] = q /\ schema' = schema
  BY DEF Commit, IInv, TypeOK
<1>2. ~met /\ Current(q)
  BY DEF Commit, IInv, MetInv
<1>3. q \in Operations /\ OpShape(q)
  BY OpTypes DEF IInv, OpInv
<1>4. /\ q.row \in Footprint(q) /\ q.visited \subseteq Footprint(q) /\ DOMAIN q.write \subseteq Footprint(q)
      /\ Links(q) => q.to \subseteq Footprint(q)
      /\ \A e \in q.new : e[3] \in Footprint(q)
  BY DEF Footprint, Links
<1>5. /\ q.row \in Rows /\ q.to \subseteq Rows /\ q.visited \subseteq Rows /\ DOMAIN q.write \subseteq Rows
      /\ \A e \in q.new : e[3] \in Rows
  BY <1>3 DEF Operations, Edges
<1>6. RowsLive(q)'
  BY <1>1, <1>2, <1>4, <1>5, CommitElsewhere DEF Current, RowsLive, Live, Links
<1>7. PatchCurrent(q)'
  BY <1>1, <1>2, <1>4, <1>5, CommitElsewhere DEF Current, PatchCurrent, Patched
<1>8. SyncCurrent(q)'
  <2>1. \A e : e[2] = q.row => (e \in edges' <=> e \in edges)
    BY <1>4, CommitElsewhere
  <2>2. Held(q)' = Held(q)
    BY <1>1, <2>1 DEF Held
  <2> QED
    BY <1>1, <1>2, <2>2 DEF Current, SyncCurrent, Writing, Wanted
<1>9. PlanCurrent(q)'
  <2>1. \A e : e[2] \in q.visited \/ e[3] \in q.visited => (e \in edges' <=> e \in edges)
    BY <1>4, CommitElsewhere
  <2>2. \A x \in DOMAIN q.write : Cleared(x, q.clear)' = Cleared(x, q.clear)
    BY <1>1, <1>4, <1>5, CommitElsewhere DEF Cleared
  <2>3. \A e : Planned(q, e)' <=> Planned(q, e)
    BY <1>1 DEF Planned, Refused, HasColumn
  <2> QED
    BY <1>1, <1>2, <2>1, <2>2, <2>3 DEF Current, PlanCurrent, Archiving, HasColumn
<1> QED
  BY <1>6, <1>7, <1>8, <1>9 DEF Current

(* The parts of the invariant that hold whatever the sessions do.          *)
LEMMA CommitKeepsShape ==
    ASSUME IInv, NEW w \in Writers, Commit(w)
    PROVE  TypeOK' /\ OpInv' /\ RowsApart' /\ NoColumnInv'
<1>. DEFINE o == op[w]
<1>1. o \in Operations /\ OpShape(o) /\ NoCells(o) /\ CreateOK(o) /\ ArchiveOK(o)
  BY OpTypes DEF IInv, OpInv, Commit
<1>2. \A v \in Writers : op'[v] = IF v = w THEN Idle ELSE op[v]
  BY DEF Commit, IInv, TypeOK
<1>3. schema' = schema /\ begun' = begun
  BY DEF Commit
<1>4. TypeOK'
  <2>1. edges' \subseteq Edges
    BY <1>1 DEF Commit, Operations, IInv, TypeOK
  <2>2. \A x \in DOMAIN o.write : o.write[x] \in Cells
    BY <1>1 DEF Operations
  <2>3. payload' \in [Rows -> Cells]
    BY <2>2 DEF Commit, IInv, TypeOK
  <2>4. status' \in [Rows -> {"absent", "live", "archived"}]
    BY DEF Commit, IInv, TypeOK
  <2>5. met' \in BOOLEAN
    BY DEF Commit, IInv, TypeOK
  <2>6. op' \in [Writers -> {Idle} \cup Operations]
    BY DEF Commit, IInv, TypeOK
  <2>7. bypassed' \subseteq Relations
    BY <1>1 DEF Commit, IInv, TypeOK, OpShape, Archiving
  <2>8. blanked' \subseteq Relations
    BY <1>1 DEF Commit, IInv, TypeOK, Lost, Operations
  <2> QED
    BY <1>3, <2>1, <2>3, <2>4, <2>5, <2>6, <2>7, <2>8 DEF IInv, TypeOK
<1>5. OpInv'
  <2>. SUFFICES ASSUME NEW v \in Writers, Active(v)'
                PROVE  (OpShape(op[v]) /\ NoCells(op[v]) /\ CreateOK(op[v]) /\ ArchiveOK(op[v]))'
    BY DEF OpInv
  <2>1. v # w /\ Active(v) /\ op'[v] = op[v]
    BY <1>2 DEF Active, Idle
  <2>2. op[v] \in Operations /\ OpShape(op[v]) /\ NoCells(op[v]) /\ CreateOK(op[v]) /\ ArchiveOK(op[v])
    BY <2>1, OpTypes DEF IInv, OpInv
  <2>3. OpShape(op[v])' /\ NoCells(op[v])'
    BY <1>3, <2>1, <2>2 DEF OpShape, NoCells, Archiving, Writing, Links, HasColumn
  <2>4. CreateOK(op[v])'
    <3>1. ASSUME op[v].kind = "create" PROVE status'[op[v].row] = "absent"
      <4>1. op[v].row \in Rows /\ status[op[v].row] = "absent"
        BY <2>2, <3>1 DEF CreateOK, Operations
      <4>2. op[v].row \notin o.visited
        BY <1>1, <4>1 DEF ArchiveOK, OpShape, Archiving
      <4>3. o.kind = "create" => o.row # op[v].row
        BY <2>1, <3>1 DEF IInv, RowsApart
      <4> QED
        BY <4>1, <4>2, <4>3 DEF Commit
    <3> QED
      BY <2>1, <2>2, <3>1 DEF CreateOK
  <2>5. ArchiveOK(op[v])'
    <3>1. \A x \in Rows : status[x] # "absent" => status'[x] # "absent"
      BY DEF Commit
    <3> QED
      BY <2>1, <2>2, <3>1 DEF ArchiveOK, Archiving, Operations
  <2> QED
    BY <2>3, <2>4, <2>5
<1>6. RowsApart'
  BY <1>2 DEF IInv, RowsApart, Idle
<1>7. NoColumnInv'
  BY <1>1, <1>3 DEF Commit, IInv, NoColumnInv, NoCells, HasColumn
<1> QED
  BY <1>4, <1>5, <1>6, <1>7

(* A create, patch, relate or unrelate: the cells of its row and the edges *)
(* it syncs change together.                                               *)
LEMMA WriteKeepsReferences ==
    ASSUME IInv, NEW w \in Writers, Commit(w), ~Archiving(op[w])
    PROVE  ReferencesHold'
<1>. SUFFICES ASSUME ~met'
              PROVE  /\ \A e \in edges' : status'[e[2]] = "live" /\ status'[e[3]] = "live"
                     /\ \A x \in Rows, r \in Relations :
                            /\ status'[x] = "live" /\ HasColumn(r)
                            /\ r \notin bypassed' \cup blanked'
                            => payload'[x][r] = {y \in Rows : <<r, x, y>> \in edges'}
  BY DEF ReferencesHold, Live, HasColumn, Commit
<1>. DEFINE o == op[w]
<1>1. o \in Operations /\ OpShape(o) /\ NoCells(o) /\ CreateOK(o)
  BY OpTypes DEF IInv, OpInv, Commit
<1>2. ~met /\ Current(o)
  BY DEF Commit, IInv, MetInv
<1>3. /\ o.rel \in Relations /\ o.row \in Rows /\ o.to \subseteq Rows
      /\ o.visited = {} /\ o.at = "ready"
      /\ \A e \in o.cut \cup o.new : e[1] = o.rel /\ e[2] = o.row
  BY <1>1 DEF OpShape, Operations, Commit
<1>4. /\ edges' = (edges \ o.cut) \cup o.new
      /\ payload' = [x \in Rows |-> IF x \in DOMAIN o.write THEN o.write[x] ELSE payload[x]]
      /\ status' = [x \in Rows |-> IF o.kind = "create" /\ x = o.row THEN "live" ELSE status[x]]
      /\ bypassed \subseteq bypassed' /\ blanked \subseteq blanked'
  BY <1>3 DEF Commit
<1>5. /\ \A e \in edges : Live(e[2]) /\ Live(e[3])
      /\ \A x \in Rows, r \in Relations :
             Live(x) /\ HasColumn(r) /\ r \notin bypassed \cup blanked =>
                 payload[x][r] = {y \in Rows : <<r, x, y>> \in edges}
  BY <1>2 DEF IInv, ReferencesHold
<1>6. edges \subseteq Edges /\ o.new \subseteq Edges
  BY <1>1 DEF IInv, TypeOK, Operations
<1>7. \A x \in Rows : status[x] = "live" => status'[x] = "live"
  BY <1>4
<1>8. status'[o.row] = "live" \/ o.new = {}
  BY <1>1, <1>2, <1>3, <1>4 DEF Current, RowsLive, Live, Operations, Archiving
<1>9. \A e \in edges' : status'[e[2]] = "live" /\ status'[e[3]] = "live"
  BY <1>2, <1>3, <1>4, <1>5, <1>6, <1>7, <1>8 DEF Current, RowsLive, Live, Edges
<1>10. ASSUME NEW x \in Rows, NEW r \in Relations,
              status'[x] = "live", HasColumn(r), r \notin bypassed' \cup blanked'
       PROVE  payload'[x][r] = {y \in Rows : <<r, x, y>> \in edges'}
  <2>1. CASE Writing(o) /\ x = o.row
    <3>1. o.cut = Held(o) \ Wanted(o) /\ o.new = Wanted(o) \ Held(o)
      BY <1>2, <1>3, <2>1 DEF Current, SyncCurrent
    <3>2. \A y \in Rows : <<r, x, y>> \in edges' <=> IF r = o.rel THEN y \in o.to ELSE <<r, x, y>> \in edges
      BY <1>4, <2>1, <3>1 DEF Held, Wanted
    <3>3. payload'[x] = o.write[x]
      BY <1>1, <1>4, <2>1 DEF OpShape
    <3>4. CASE o.kind = "create"
      <4>1. o.write[x][r] = IF r = o.rel THEN o.to ELSE {}
        BY <1>1, <1>3, <2>1, <3>4 DEF CreateOK
      <4>2. \A y \in Rows : <<r, x, y>> \notin edges
        BY <1>1, <1>5, <2>1, <3>4 DEF CreateOK, Live
      <4> QED
        BY <1>3, <3>2, <3>3, <4>1, <4>2
    <3>5. CASE o.kind = "patch"
      <4>1. o.write[x] = [payload[x] EXCEPT ![o.rel] = o.to] /\ Live(x)
        BY <1>2, <2>1, <3>5 DEF Current, PatchCurrent, Patched, RowsLive
      <4>2. payload[x] \in [Relations -> SUBSET Rows]
        BY DEF IInv, TypeOK, Cells
      <4>3. o.write[x][r] = IF r = o.rel THEN o.to ELSE payload[x][r]
        BY <4>1, <4>2
      <4>4. payload[x][r] = {y \in Rows : <<r, x, y>> \in edges}
        BY <1>4, <1>5, <1>10, <4>1
      <4> QED
        BY <1>3, <3>2, <3>3, <4>3, <4>4
    <3> QED
      BY <2>1, <3>4, <3>5 DEF Writing
  <2>2. CASE ~(Writing(o) /\ x = o.row)
    <3>1. x \notin DOMAIN o.write
      BY <1>1, <2>2 DEF OpShape, Writing, Links, Operations, Archiving
    <3>2. payload'[x] = payload[x] /\ Live(x)
      BY <1>4, <1>10, <2>2, <3>1 DEF Writing, Live
    <3>3. Links(o) => r # o.rel
      BY <1>10 DEF Commit, Links
    <3>4. Writing(o) \/ Links(o)
      BY <1>1 DEF Writing, Links, Operations, Archiving
    <3>5. \A y \in Rows : <<r, x, y>> \in edges' <=> <<r, x, y>> \in edges
      BY <1>3, <1>4, <2>2, <3>3, <3>4
    <3> QED
      BY <1>4, <1>5, <1>10, <3>2, <3>5
  <2> QED
    BY <2>1, <2>2
<1> QED
  BY <1>9, <1>10

(* An archive: the edges of the rows it takes go, and the cells that named *)
(* them are cleared.                                                       *)
LEMMA ArchiveKeepsReferences ==
    ASSUME IInv, NEW w \in Writers, Commit(w), Archiving(op[w])
    PROVE  ReferencesHold'
<1>. SUFFICES ASSUME ~met'
              PROVE  /\ \A e \in edges' : status'[e[2]] = "live" /\ status'[e[3]] = "live"
                     /\ \A x \in Rows, r \in Relations :
                            /\ status'[x] = "live" /\ HasColumn(r)
                            /\ r \notin bypassed' \cup blanked'
                            => payload'[x][r] = {y \in Rows : <<r, x, y>> \in edges'}
  BY DEF ReferencesHold, Live, HasColumn, Commit
<1>. DEFINE o == op[w]
<1>1. o \in Operations /\ OpShape(o) /\ ArchiveOK(o)
  BY OpTypes DEF IInv, OpInv, Commit
<1>2. ~met /\ PlanCurrent(o)
  BY DEF Commit, IInv, MetInv, Current
<1>3. o.at = "ready" /\ o.todo = {} /\ o.new = {} /\ o.kind = "archive" /\ DOMAIN o.write = {c[2] : c \in o.clear}
  BY <1>1 DEF OpShape, Commit, Archiving
<1>4. /\ edges' = edges \ o.cut
      /\ payload' = [x \in Rows |-> IF x \in DOMAIN o.write THEN o.write[x] ELSE payload[x]]
      /\ status' = [x \in Rows |-> IF x \in o.visited THEN "archived" ELSE status[x]]
      /\ bypassed \subseteq bypassed' /\ blanked' = blanked \cup Lost(o)
  BY <1>3 DEF Commit
<1>5. /\ \A e \in edges : Live(e[2]) /\ Live(e[3])
      /\ \A x \in Rows, r \in Relations :
             Live(x) /\ HasColumn(r) /\ r \notin bypassed \cup blanked =>
                 payload[x][r] = {y \in Rows : <<r, x, y>> \in edges}
  BY <1>2 DEF IInv, ReferencesHold
<1>6. edges \subseteq Edges
  BY DEF IInv, TypeOK
<1>7. \A e \in edges' : e[2] \notin o.visited /\ e[3] \notin o.visited
  BY <1>2, <1>3, <1>4 DEF PlanCurrent, Planned, Archiving
<1>8. \A e \in edges' : status'[e[2]] = "live" /\ status'[e[3]] = "live"
  BY <1>4, <1>5, <1>6, <1>7 DEF Live, Edges
<1>9. ASSUME NEW x \in Rows, NEW r \in Relations,
             status'[x] = "live", HasColumn(r), r \notin bypassed' \cup blanked'
      PROVE  payload'[x][r] = {y \in Rows : <<r, x, y>> \in edges'}
  <2>1. x \notin o.visited /\ Live(x)
    BY <1>4, <1>9 DEF Live
  <2>2. payload[x][r] = {y \in Rows : <<r, x, y>> \in edges}
    BY <1>4, <1>5, <1>9, <2>1
  <2>3. CASE <<r, x>> \in o.clear
    <3>1. x \in DOMAIN o.write /\ o.write[x][r] = {}
      BY <1>1, <1>3, <2>3 DEF ArchiveOK
    <3>2. \A y \in payload[x][r] : y \in o.visited
      BY <1>4, <1>9, <2>3 DEF Lost
    <3>3. \A y \in Rows : <<r, x, y>> \notin edges'
      BY <1>4, <1>7, <2>2, <3>2
    <3> QED
      BY <1>4, <3>1, <3>3
  <2>4. CASE <<r, x>> \notin o.clear
    <3>1. payload'[x][r] = payload[x][r]
      <4>1. \A z \in DOMAIN o.write : o.write[z] = Cleared(z, o.clear)
        BY <1>2, <1>3 DEF PlanCurrent, Archiving
      <4>2. Cleared(x, o.clear)[r] = payload[x][r]
        BY <2>4 DEF Cleared
      <4> QED
        BY <1>4, <4>1, <4>2
    <3>2. \A y \in Rows : <<r, x, y>> \notin o.cut
      BY <1>2, <1>9, <2>1, <2>4 DEF PlanCurrent, Archiving
    <3> QED
      BY <1>4, <2>2, <3>1, <3>2
  <2> QED
    BY <2>3, <2>4
<1> QED
  BY <1>8, <1>9

LEMMA CommitKeeps ==
    ASSUME IInv, NEW w \in Writers, Commit(w)
    PROVE  IInv'
<1>1. MetInv'
  <2>. SUFFICES ASSUME ~met', NEW v \in Writers, Active(v)' PROVE Current(op[v])'
    BY DEF MetInv
  <2>1. op'[v] = IF v = w THEN Idle ELSE op[v]
    BY DEF Commit, IInv, TypeOK
  <2>2. v # w /\ Active(v)
    BY <2>1 DEF Active, Idle
  <2> QED
    BY <2>2, CommitKeepsOthers
<1>2. ReferencesHold'
  BY WriteKeepsReferences, ArchiveKeepsReferences
<1> QED
  BY <1>1, <1>2, CommitKeepsShape DEF IInv

-----------------------------------------------------------------------------
(* The inductive invariant holds in every reachable state.                 *)
THEOREM Invariance == Spec => []IInv
<1>1. IInv /\ [Next]_vars => IInv'
  <2>. SUFFICES ASSUME IInv, [Next]_vars PROVE IInv'
    OBVIOUS
  <2>1. ASSUME NEW w \in Writers, NEW x \in Rows, NEW r \in Relations, NEW to \in SUBSET Rows,
               Create(w, x, r, to) \/ Patch(w, x, r, to)
        PROVE  IInv'
    BY <2>1, CreateKeeps, PatchKeeps
  <2>2. ASSUME NEW w \in Writers, NEW x \in Rows, NEW r \in Relations, NEW y \in Rows,
               Relate(w, x, r, y) \/ Unrelate(w, x, r, y)
        PROVE  IInv'
    BY <2>2, LinkKeeps
  <2>3. ASSUME NEW w \in Writers, NEW x \in Rows, Archive(w, x) \/ Visit(w, x)
        PROVE  IInv'
    BY <2>3, ArchiveKeeps, VisitKeeps
  <2>4. ASSUME NEW w \in Writers, ReadCleared(w) \/ Flush(w) \/ Sync(w) \/ Commit(w) \/ Abort(w)
        PROVE  IInv'
    BY <2>4, ReadClearedKeeps, FlushKeeps, SyncKeeps, CommitKeeps, AbortKeeps
  <2>5. CASE UNCHANGED vars
    <3>1. UNCHANGED <<schema, status, payload, edges, op, begun, met, bypassed, blanked>>
      BY <2>5 DEF vars, data, history
    <3>2. TypeOK' /\ RowsApart' /\ NoColumnInv' /\ ReferencesHold'
      BY <3>1 DEF IInv, TypeOK, RowsApart, NoColumnInv, ReferencesHold, HasColumn, Live
    <3>3. ASSUME NEW w \in Writers, Active(w)'
          PROVE  (OpShape(op[w]) /\ NoCells(op[w]) /\ CreateOK(op[w]) /\ ArchiveOK(op[w]))'
      <4>1. OpShape(op'[w]) /\ NoCells(op'[w]) /\ CreateOK(op'[w]) /\ ArchiveOK(op'[w])
        BY <3>1, <3>3 DEF IInv, OpInv, Active
      <4> QED
        BY <3>1, <4>1 DEF OpShape, NoCells, CreateOK, ArchiveOK, Archiving, Writing, Links, HasColumn
    <3>4. ASSUME NEW w \in Writers, Active(w)', ~met' PROVE Current(op[w])'
      BY <3>1, <3>4 DEF IInv, MetInv, Active, Current, RowsLive, PatchCurrent, SyncCurrent, PlanCurrent,
         Planned, Refused, Patched, Held, Wanted, Cleared, Live, Archiving, Writing, Links, HasColumn
    <3> QED
      BY <3>2, <3>3, <3>4 DEF IInv, OpInv, MetInv
  <2> QED
    BY <2>1, <2>2, <2>3, <2>4, <2>5 DEF Next
<1> QED
  BY <1>1, InitIInv, PTL DEF Spec

(* Every variable keeps its type.                                          *)
THEOREM TypeCorrectness == Spec => []TypeOK
<1>1. IInv => TypeOK
  BY DEF IInv
<1> QED
  BY <1>1, Invariance, PTL

(* rows.py sync_ref_edges and _plan_archive: while no two operations met,  *)
(* every edge joins live rows and a relation's edges are what its ref      *)
(* cells say.                                                              *)
THEOREM ReferencesAreKept == Spec => []ReferencesHold
<1>1. IInv => ReferencesHold
  BY DEF IInv
<1> QED
  BY <1>1, Invariance, PTL

(* rows.py archive_row: a row leaves its table as the on_delete policies   *)
(* of its references ask, in the same commit.                              *)
THEOREM PoliciesAreHonoured == Spec => OnDeleteHonoured
<1>. DEFINE Honoured(e) ==
         Live(e[3]) /\ status[e[3]]' = "archived" =>
             CASE schema[e[1]].on_delete = "restrict" -> FALSE
               [] schema[e[1]].on_delete = "cascade" -> ~Live(e[2])'
               [] schema[e[1]].on_delete = "set_null" -> e[3] \notin payload[e[2]][e[1]]'
<1>1. IInv /\ [Next]_vars => [met' \/ \A e \in edges : Honoured(e)]_vars
  <2>. SUFFICES ASSUME IInv, [Next]_vars, ~met', NEW e \in edges, Live(e[3]), status[e[3]]' = "archived"
                PROVE  Honoured(e)
    OBVIOUS
  <2>1. PICK w \in Writers : Commit(w)
    BY OnlyCommitsWrite DEF data, Live
  <2>. DEFINE o == op[w]
  <2>2. o \in Operations /\ OpShape(o) /\ ArchiveOK(o)
    BY <2>1, OpTypes DEF IInv, OpInv, Commit
  <2>3. e \in Edges
    BY DEF IInv, TypeOK
  <2>4. e[3] \in o.visited
    BY <2>1, <2>3 DEF Commit, Edges, Live
  <2>5. Archiving(o) /\ o.at = "ready" /\ o.todo = {} /\ DOMAIN o.write = {c[2] : c \in o.clear}
    BY <2>1, <2>2, <2>4 DEF OpShape, Commit
  <2>6. Planned(o, e)
    BY <2>1, <2>4, <2>5 DEF Commit, IInv, MetInv, Current, PlanCurrent
  <2>7. schema[e[1]].on_delete # "restrict"
    BY <2>6 DEF Planned, Refused
  <2>8. schema[e[1]].on_delete = "cascade" => ~Live(e[2])'
    BY <2>1, <2>3, <2>5, <2>6 DEF Planned, Commit, Live, Edges
  <2>9. ASSUME schema[e[1]].on_delete = "set_null" PROVE e[3] \notin payload[e[2]][e[1]]'
    <3>1. payload'[e[2]][e[1]] = {}
      <4>1. CASE HasColumn(e[1])
        BY <2>1, <2>2, <2>3, <2>5, <2>6, <2>9, <4>1 DEF Planned, ArchiveOK, Commit, Edges
      <4>2. CASE ~HasColumn(e[1])
        BY <2>1, <2>3, <4>2, CommitKeepsShape DEF NoColumnInv, Edges, Commit, HasColumn
      <4> QED
        BY <4>1, <4>2
    <3> QED
      BY <3>1
  <2>10. schema[e[1]].on_delete \in Policies
    BY <2>3 DEF IInv, TypeOK, GridSchema, Edges
  <2> QED
    BY <2>7, <2>8, <2>9, <2>10 DEF Policies
<1> QED
  BY <1>1, Invariance, PTL DEF Spec, OnDeleteHonoured
=============================================================================
