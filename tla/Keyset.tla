------------------------------- MODULE Keyset -------------------------------
(***************************************************************************)
(* Scrolling through a table with a keyset cursor                          *)
(* (src/src/forktex/database/crud.py: paginate_scroll, and                 *)
(* src/src/forktex/database/pagination.py) while rows are inserted,        *)
(* changed and deleted between the pages.  Each page is one SELECT: a      *)
(* WHERE clause made from the cursor, Postgres's ORDER BY (NULL is larger  *)
(* than any value) and LIMIT limit + 1.                                    *)
(*                                                                         *)
(* A row is known by its id, the last level of its key; the levels before  *)
(* it may be NULL.                                                         *)
(***************************************************************************)
EXTENDS Integers, FiniteSets

CONSTANTS
    Ids,        \* rows that may exist
    Values,     \* of the levels before the id
    N,          \* levels of the keyset
    Queries,    \* what may be asked for
    Null,       \* NULL
    Text,       \* the text of a value, where the value itself is needed
    Absent      \* no row; no cursor

Levels == 1..N
Column(i) == IF i = N THEN Ids ELSE Values \cup {Null}
Key == {k \in [Levels -> Ids \cup Values \cup {Null}] : \A i \in Levels : k[i] \in Column(i)}

ASSUME NumbersAssumption == Ids \subseteq Int /\ Values \subseteq Int
(* What a scroll is asked for.  The type of a column is "json" (a number,  *)
(* a string), "parsed" (a timestamp, a date, a uuid, a decimal) or "other" *)
(* (a time, an interval).                                                  *)
Query == [ascending : BOOLEAN, limit : Nat \ {0}, types : [Levels -> {"json", "parsed", "other"}]]

ASSUME LevelsAssumption == N \in Nat \ {0}
ASSUME QueriesAssumption == Queries \subseteq Query
ASSUME NullAssumption == Null \notin Int /\ Text \notin Int /\ Text # Null
ASSUME AbsentAssumption == Absent \notin Key

VARIABLES
    query,   \* what the scroll is asked for, on every page
    table,   \* the key of each row, or Absent
    cursor,  \* boundary of the last page, Absent before the first
    served,  \* how often each row was on a page
    first,   \* the rows that were there at the first page
    moved,   \* the rows whose key changed since
    gone,    \* the rows deleted: an id is not used twice
    scroll   \* "ready", "more", "done", "failed"

scrollVars == <<query, table, cursor, served, first, moved, gone, scroll>>

ScrollTypeOK ==
    /\ query \in Queries
    /\ table \in [Ids -> Key \cup {Absent}]
    /\ cursor \in Key \cup {Absent}
    /\ served \in [Ids -> Nat]
    /\ first \in SUBSET Ids
    /\ moved \in SUBSET Ids
    /\ gone \in SUBSET Ids
    /\ scroll \in {"ready", "more", "done", "failed"}

KeysOf(r) == {k \in Key : k[N] = r}

ScrollInit ==
    /\ query \in Queries
    /\ table \in {t \in [Ids -> Key \cup {Absent}] : \A r \in Ids : t[r] = Absent \/ t[r] \in KeysOf(r)}
    /\ cursor = Absent
    /\ served = [r \in Ids |-> 0]
    /\ first = {}
    /\ moved = {}
    /\ gone = {}
    /\ scroll = "ready"

Present == {r \in Ids : table[r] # Absent}

-----------------------------------------------------------------------------
(* Postgres's ORDER BY. *)
Larger(x, y) ==
    \/ x = Null /\ y # Null
    \/ x # Null /\ y # Null /\ x > y
Precedes(k, l, ascending) ==
    \E i \in Levels :
        /\ \A j \in 1..(i - 1) : k[j] = l[j]
        /\ IF ascending THEN Larger(l[i], k[i]) ELSE Larger(k[i], l[i])

(* Mutant: NULLs are left out of what sorts after a value. *)
SortsAfterValuesOnly(x, value, ascending, tiebreaker) ==
    \/ /\ value = Null
       /\ ~ascending /\ x # Null
    \/ /\ value # Null
       /\ x # Null /\ (IF ascending THEN x > value ELSE x < value)

(* Mutant: the tiebreaker does not leave the cursor's own row out. *)
SortsAfterOrAt(x, value, ascending, tiebreaker) ==
    \/ /\ value = Null
       /\ ~ascending /\ x # Null
    \/ /\ value # Null
       /\ \/ x # Null /\ (IF ascending THEN x > value ELSE x < value)
          \/ tiebreaker /\ x = value
          \/ ascending /\ ~tiebreaker /\ x = Null

(* _sorts_after: a comparison with NULL is not true. *)
SortsAfter(x, value, ascending, tiebreaker) ==
    \/ /\ value = Null
       /\ ~ascending /\ x # Null
    \/ /\ value # Null
       /\ \/ x # Null /\ (IF ascending THEN x > value ELSE x < value)
          \/ ascending /\ ~tiebreaker /\ x = Null

(* keyset_predicate *)
KeysetPredicate(k, boundary, ascending) ==
    \E i \in Levels :
        /\ \A j \in 1..(i - 1) : k[j] = boundary[j]
        /\ SortsAfter(k[i], boundary[i], ascending, i = N)

(* encode_cursor and _typed_cursor_value: JSON keeps numbers, strings and  *)
(* NULL and makes text of the rest, which is read back for four types.     *)
Decoded(boundary, types) ==
    [i \in Levels |->
        IF types[i] = "other" /\ boundary[i] # Null THEN Text ELSE boundary[i]]

-----------------------------------------------------------------------------
Scrolling == scroll \in {"ready", "more"}
Resumed == cursor # Absent
Boundary == Decoded(cursor, query.types)
Fits == Resumed => \A i \in Levels : Boundary[i] # Text
Matching ==
    {r \in Present : Resumed => KeysetPredicate(table[r], Boundary, query.ascending)}

Before(q, r) == Precedes(table[q], table[r], query.ascending)

(* The rows of a SELECT with LIMIT: the first ones in order. *)
IsPage(P) ==
    /\ \A p \in P, q \in Matching \ P : Before(p, q)
    /\ \/ P = Matching /\ Cardinality(P) <= query.limit
       \/ P # Matching /\ Cardinality(P) = query.limit
IsLast(p, P) == p \in P /\ \A q \in P \ {p} : Before(q, p)

Serve(P) ==
    /\ served' = [r \in Ids |-> IF r \in P THEN served[r] + 1 ELSE served[r]]
    /\ first' = IF scroll = "ready" THEN Present ELSE first

(* limit + 1 rows came: the last one served is the next cursor. *)
Page ==
    /\ Scrolling
    /\ Fits
    /\ \E P \in SUBSET Matching, p \in Matching :
           /\ IsPage(P)
           /\ P # Matching
           /\ IsLast(p, P)
           /\ Serve(P)
           /\ cursor' = table[p]
    /\ scroll' = "more"
    /\ UNCHANGED <<query, table, moved, gone>>

LastPage ==
    /\ Scrolling
    /\ Fits
    /\ IsPage(Matching)
    /\ Serve(Matching)
    /\ scroll' = "done"
    /\ UNCHANGED <<query, table, cursor, moved, gone>>

(* The statement is refused: text where the column has another type. *)
Refused ==
    /\ Scrolling
    /\ ~Fits
    /\ scroll' = "failed"
    /\ UNCHANGED <<query, table, cursor, served, first, moved, gone>>

-----------------------------------------------------------------------------
(* Other transactions, between two pages. *)
Insert(r) ==
    /\ scroll = "more"
    /\ r \notin Present \cup gone
    /\ \E k \in KeysOf(r) : table' = [table EXCEPT ![r] = k]
    /\ UNCHANGED <<query, cursor, served, first, moved, gone, scroll>>

Delete(r) ==
    /\ scroll = "more"
    /\ r \in Present
    /\ table' = [table EXCEPT ![r] = Absent]
    /\ gone' = gone \cup {r}
    /\ UNCHANGED <<query, cursor, served, first, moved, scroll>>

Update(r) ==
    /\ scroll = "more"
    /\ r \in Present
    /\ \E k \in KeysOf(r) \ {table[r]} : table' = [table EXCEPT ![r] = k]
    /\ moved' = moved \cup {r}
    /\ UNCHANGED <<query, cursor, served, first, gone, scroll>>

ScrollNext ==
    \/ Page \/ LastPage \/ Refused
    \/ \E r \in Ids : Insert(r) \/ Delete(r) \/ Update(r)

ScrollSpec == ScrollInit /\ [][ScrollNext]_scrollVars

-----------------------------------------------------------------------------
(* No page repeats a row, unless the row itself moved: not when the row of *)
(* the cursor is deleted, nor when others come and go.                     *)
NothingTwice == \A r \in Ids \ moved : served[r] <= 1

(* A row that was there all along, and stayed where it was, has been       *)
(* served when the scroll ends.                                            *)
NothingSkipped ==
    scroll = "done" => \A r \in (first \cap Present) \ moved : served[r] = 1

(* docs/database.md:286: "hand `next_cursor` back as `cursor`": a scroll   *)
(* can go on with the cursor it was given.                                 *)
CursorResumes == scroll # "failed"
=============================================================================
