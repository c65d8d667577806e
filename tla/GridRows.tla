------------------------------ MODULE GridRows ------------------------------
(***************************************************************************)
(* Rows of a grid table that refer to one another: create, patch, relate,  *)
(* unrelate and archive by several sessions at once                        *)
(* (backlog/core/grid/write/write.py, rows.py, relations.py).              *)
(*                                                                         *)
(* A reference is kept twice: as the value of a ref column in the row's    *)
(* payload, and as an edge <<relation, source, target>> that cardinality   *)
(* and on_delete act on.  Every operation is one transaction at READ       *)
(* COMMITTED: it reads what others have committed, keeps what it read in   *)
(* its session, and its own writes appear at its commit.  One table, whose *)
(* relations lead from it to itself.                                       *)
(***************************************************************************)
EXTENDS Naturals, FiniteSets, FiniteSetsExt

CONSTANTS
    Rows, Relations, Writers,
    Schemas,      \* declared schemas to choose from
    MaxEdges,     \* bound: edges there at first
    MaxOps        \* bound: operations begun

VARIABLES
    schema,       \* per relation: on_delete, shape, and the ref column that projects it
    status,       \* per row: "absent", "live", "archived" (archived_at)
    payload,      \* per row and relation: the rows its ref cell names
    edges,        \* grid_edge
    op,           \* the operation of each session
    begun,        \* operations begun so far
    met,          \* two operations overlapped on a row, and one of them committed
    bypassed,     \* relations with a ref column that relate or unrelate was used on
    blanked       \* relations whose ref cells lost a list for one archived target

data == <<status, payload, edges>>
history == <<met, bypassed, blanked>>
vars == <<schema, data, op, begun, history>>

Shapes == {"one_to_one", "one_to_many", "many_to_one", "many_to_many"}
Policies == {"restrict", "cascade", "set_null"}
Columns == {"none", "one", "many"}        \* no ref column, or one of that cardinality
GridSchema == [Relations -> [on_delete : Policies, shape : Shapes, column : Columns, required : BOOLEAN]]

ASSUME SchemasAssumption == Schemas \subseteq GridSchema
ASSUME BoundsAssumption == MaxEdges \in Nat /\ MaxOps \in Nat

Edges == Relations \X Rows \X Rows
Cells == [Relations -> SUBSET Rows]

Idle == [kind |-> "none"]
Active(w) == op[w].kind # "none"
HasColumn(r) == schema[r].column # "none"
AnyRelation == CHOOSE r \in Relations : TRUE    \* of an archive, which is about none

(* What a ref cell of the relation can name. *)
Values(r) == {to \in SUBSET Rows :
    \/ to = {}
    \/ schema[r].column = "one" /\ Cardinality(to) = 1
    \/ schema[r].column = "many"}

-----------------------------------------------------------------------------
(* RelationShape.unique_endpoints: the ends that occur in one edge only. *)
UniqueEndpoints(shape) ==
    CASE shape = "one_to_one" -> {"source", "target"}
      [] shape = "one_to_many" -> {"target"}
      [] shape = "many_to_one" -> {"source"}
      [] shape = "many_to_many" -> {}

Clash(e, f) ==
    /\ e # f
    /\ e[1] = f[1]
    /\ \/ "source" \in UniqueEndpoints(schema[e[1]].shape) /\ e[2] = f[2]
       \/ "target" \in UniqueEndpoints(schema[e[1]].shape) /\ e[3] = f[3]

(* Mutant: only the triple is unique. *)
FitsAsTriple(new, there) == new \cap there = {}

(* The counts of _enforce_cardinality for each edge in turn; the unique    *)
(* indexes on grid_edge are the same test.                                 *)
Fits(new, there) ==
    /\ new \cap there = {}
    /\ \A e \in new, f \in there \cup new : ~Clash(e, f)

Projected(g) == [x \in Rows |-> [r \in Relations |->
    IF HasColumn(r) THEN {y \in Rows : <<r, x, y>> \in g} ELSE {}]]

Init ==
    /\ schema \in Schemas
    /\ status \in [Rows -> {"absent", "live"}]
    /\ edges \in UNION {kSubset(n, Edges) : n \in 0..MaxEdges}
    /\ \A e \in edges : status[e[2]] = "live" /\ status[e[3]] = "live"
    /\ \A e, f \in edges : ~Clash(e, f)
    /\ payload = Projected(edges)
    /\ \A x \in Rows, r \in Relations : HasColumn(r) => payload[x][r] \in Values(r)
    /\ op = [w \in Writers |-> Idle]
    /\ begun = 0
    /\ met = FALSE
    /\ bypassed = {}
    /\ blanked = {}

-----------------------------------------------------------------------------
(* One operation: write is the payload it will store per row, cut and new  *)
(* are edges it removes and adds; an archive also visits rows.             *)
Begin(w, kind, at, x, r, to, write) ==
    /\ ~Active(w)
    /\ begun < MaxOps
    /\ begun' = begun + 1
    /\ op' = [op EXCEPT ![w] = [kind |-> kind, at |-> at, row |-> x, rel |-> r, to |-> to,
           write |-> write, cut |-> {}, new |-> {},
           todo |-> IF kind = "archive" THEN {x} ELSE {}, visited |-> {}, clear |-> {}]]
    /\ UNCHANGED <<schema, data, history>>

Fresh(x) == status[x] = "absent" /\ \A w \in Writers : Active(w) => op[w].row # x

(* RowWriter.create: the row is flushed, then its refs are synced. *)
Create(w, x, r, to) ==
    /\ Fresh(x)
    /\ HasColumn(r) /\ to \in Values(r) /\ x \notin to
    /\ Begin(w, "create", "flushed", x, r, to,
             [y \in {x} |-> [s \in Relations |-> IF s = r THEN to ELSE {}]])

(* RowWriter.patch: the whole payload as read, with one cell replaced. *)
Patched(x, r, to) == [payload[x] EXCEPT ![r] = to]
Patch(w, x, r, to) ==
    /\ status[x] = "live"
    /\ HasColumn(r) /\ to \in Values(r)
    /\ Begin(w, "patch", "read", x, r, to, [y \in {x} |-> Patched(x, r, to)])

Relate(w, x, r, y) ==
    /\ status[x] = "live" /\ status[y] = "live"
    /\ Begin(w, "relate", "flushed", x, r, {y}, [z \in {} |-> {}])

Unrelate(w, x, r, y) ==
    /\ status[x] = "live" /\ status[y] = "live"
    /\ Begin(w, "unrelate", "flushed", x, r, {y}, [z \in {} |-> {}])

Archive(w, x) ==
    /\ status[x] = "live"
    /\ Begin(w, "archive", "planning", x, AnyRelation, {}, [z \in {} |-> {}])

-----------------------------------------------------------------------------
(* Mutant: restrict protects no more than set_null does. *)
RefusedIfRequired(e) == HasColumn(e[1]) /\ schema[e[1]].required

(* _plan_archive, one row: refused for a restrict relation, or a set_null  *)
(* that would null a required ref; otherwise the sources of a cascade are  *)
(* next and the refs of a set_null are to be cleared.                      *)
Refused(e) ==
    \/ schema[e[1]].on_delete = "restrict"
    \/ schema[e[1]].on_delete = "set_null" /\ HasColumn(e[1]) /\ schema[e[1]].required

Cascades(e) == schema[e[1]].on_delete = "cascade" /\ status[e[2]] = "live"

Visit(w, y) ==
    LET o == op[w]
        inbound == {e \in edges : e[3] = y}
        seen == o.visited \cup {y}
    IN
    /\ Active(w) /\ o.at = "planning" /\ y \in o.todo
    /\ ~\E e \in inbound : Refused(e)
    /\ op' = [op EXCEPT ![w].visited = seen,
           ![w].todo = (@ \cup {e[2] : e \in {f \in inbound : Cascades(f)}}) \ seen,
           ![w].cut = @ \cup {e \in inbound : ~Cascades(e)} \cup {e \in edges : e[2] = y},
           ![w].clear = @ \cup {<<e[1], e[2]>> : e \in
               {f \in inbound : schema[f[1]].on_delete = "set_null" /\ HasColumn(f[1])}}]
    /\ UNCHANGED <<schema, data, begun, history>>

(* _clear_ref: the source's payload as read now, without the cell. *)
Cleared(x, cells) == [r \in Relations |-> IF <<r, x>> \in cells THEN {} ELSE payload[x][r]]
ReadCleared(w) ==
    LET o == op[w] IN
    /\ Active(w) /\ o.at = "planning" /\ o.todo = {}
    /\ op' = [op EXCEPT ![w].at = "read",
           ![w].write = [x \in {c[2] : c \in o.clear} |-> Cleared(x, o.clear)]]
    /\ UNCHANGED <<schema, data, begun, history>>

(* The UPDATEs: the rows stay locked until the transaction ends. *)
Locked(w) == IF Active(w) /\ op[w].at \in {"flushed", "ready"}
             THEN DOMAIN op[w].write \cup op[w].visited ELSE {}
Flush(w) ==
    LET o == op[w] IN
    /\ Active(w) /\ o.at = "read"
    /\ \A v \in Writers \ {w} : Locked(v) \cap (DOMAIN o.write \cup o.visited) = {}
    /\ op' = [op EXCEPT ![w].at = IF o.kind = "archive" THEN "ready" ELSE "flushed"]
    /\ UNCHANGED <<schema, data, begun, history>>

(* sync_ref_edges after a create or a patch, relate_rows, unrelate_rows. *)
(* Mutant: a target that exists will do. *)
TargetsThere(o) == \A y \in o.to : status[y] # "absent"
TargetsLive(o) == \A y \in o.to : status[y] = "live"
Wanted(o) == {<<o.rel, o.row, y>> : y \in o.to}
Held(o) == {e \in edges : e[1] = o.rel /\ e[2] = o.row}
Sync(w) ==
    LET o == op[w]
        cut == CASE o.kind = "unrelate" -> Wanted(o)
                 [] o.kind = "relate" -> {}
                 [] OTHER -> Held(o) \ Wanted(o)
        new == CASE o.kind = "unrelate" -> {}
                 [] o.kind = "relate" -> Wanted(o)
                 [] OTHER -> Wanted(o) \ Held(o)
    IN
    /\ Active(w) /\ o.at = "flushed"
    /\ o.kind \in {"create", "patch"} => TargetsLive(o)
    /\ cut \subseteq edges
    /\ Fits(new, edges \ cut)
    /\ op' = [op EXCEPT ![w].at = "ready", ![w].cut = cut, ![w].new = new]
    /\ UNCHANGED <<schema, data, begun, history>>

-----------------------------------------------------------------------------
(* The rows an operation has read or is about to change. *)
Footprint(o) ==
    {o.row} \cup o.todo \cup o.visited \cup DOMAIN o.write
    \cup (IF o.kind \in {"relate", "unrelate"} THEN o.to ELSE {})
    \cup UNION {{e[2], e[3]} : e \in o.cut \cup o.new}

(* A row that was blanked by an archive lost the targets that stay. *)
Lost(o) == {c[1] : c \in {d \in o.clear :
    \E y \in payload[d[2]][d[1]] : y \notin o.visited}}

Commit(w) ==
    LET o == op[w] IN
    /\ Active(w) /\ o.at = "ready"
    /\ Fits(o.new, edges \ o.cut)
    /\ edges' = (edges \ o.cut) \cup o.new
    /\ payload' = [x \in Rows |-> IF x \in DOMAIN o.write THEN o.write[x] ELSE payload[x]]
    /\ status' = [x \in Rows |-> IF x \in o.visited THEN "archived"
                                 ELSE IF o.kind = "create" /\ x = o.row THEN "live" ELSE status[x]]
    /\ met' = (met \/ \E v \in Writers \ {w} : Active(v) /\ Footprint(op[v]) \cap Footprint(o) # {})
    /\ bypassed' = bypassed \cup {r \in {o.rel} : o.kind \in {"relate", "unrelate"} /\ HasColumn(r)}
    /\ blanked' = blanked \cup Lost(o)
    /\ op' = [op EXCEPT ![w] = Idle]
    /\ UNCHANGED <<schema, begun>>

(* A refusal, an IntegrityError, a deadlock, a cancellation: the savepoint *)
(* of atomic() and the transaction are rolled back.                        *)
Abort(w) ==
    /\ Active(w)
    /\ op' = [op EXCEPT ![w] = Idle]
    /\ UNCHANGED <<schema, data, begun, history>>

Next ==
    \E w \in Writers :
        \/ \E x \in Rows, r \in Relations :
               \/ \E to \in SUBSET Rows : Create(w, x, r, to) \/ Patch(w, x, r, to)
               \/ \E y \in Rows : Relate(w, x, r, y) \/ Unrelate(w, x, r, y)
        \/ \E x \in Rows : Archive(w, x) \/ Visit(w, x)
        \/ ReadCleared(w) \/ Flush(w) \/ Sync(w) \/ Commit(w) \/ Abort(w)

Spec == Init /\ [][Next]_vars

-----------------------------------------------------------------------------
Operations ==
    [kind : {"create", "patch", "relate", "unrelate", "archive"},
     at : {"planning", "read", "flushed", "ready"},
     row : Rows, rel : Relations \cup {AnyRelation}, to : SUBSET Rows,
     write : UNION {[D -> Cells] : D \in SUBSET Rows},
     cut : SUBSET Edges, new : SUBSET Edges,
     todo : SUBSET Rows, visited : SUBSET Rows, clear : SUBSET (Relations \X Rows)]

TypeOK ==
    /\ schema \in GridSchema
    /\ op \in [Writers -> {Idle} \cup Operations]
    /\ begun \in 0..MaxOps
    /\ met \in BOOLEAN
    /\ status \in [Rows -> {"absent", "live", "archived"}]
    /\ payload \in [Rows -> Cells]
    /\ edges \subseteq Edges
    /\ bypassed \subseteq Relations /\ blanked \subseteq Relations

Live(x) == status[x] = "live"

(* No end of an edge that must be unique occurs in two, whatever sessions  *)
(* related rows at once (the claim of relations.py's docstring).           *)
CardinalityHolds == \A e, f \in edges : ~Clash(e, f)

(* As long as no two operations met on a row, every edge joins live rows,  *)
(* a live row names live rows only, and the edges of a relation are what   *)
(* its ref cells say - but for relations written around their column, and  *)
(* for lists blanked by an archive.                                        *)
ReferencesHold ==
    ~met =>
        /\ \A e \in edges : Live(e[2]) /\ Live(e[3])
        /\ \A x \in Rows, r \in Relations :
               Live(x) /\ HasColumn(r) /\ r \notin bypassed \cup blanked =>
                   payload[x][r] = {y \in Rows : <<r, x, y>> \in edges}

(* When a row is archived, what its references' policies ask for happens   *)
(* in the same step: none of restrict is left, the sources of cascade go   *)
(* with it, those of set_null forget it.                                   *)
OnDeleteHonoured ==
    [][ met' \/ \A e \in edges :
            Live(e[3]) /\ status[e[3]]' = "archived" =>
                CASE schema[e[1]].on_delete = "restrict" -> FALSE
                  [] schema[e[1]].on_delete = "cascade" -> ~Live(e[2])'
                  [] schema[e[1]].on_delete = "set_null" ->
                         e[3] \notin payload[e[2]][e[1]]' ]_vars
=============================================================================
