------------------------------ MODULE UnitScope ------------------------------
(***************************************************************************)
(* The scope objects transaction() returns                                 *)
(* (src/src/forktex/database/connection.py: _TransactionScope and          *)
(* _bind_session).  A scope remembers the unit of work it opened in one    *)
(* field, _opened; entering it again, which nothing prevents, overwrites   *)
(* the field, and leaving it ends whatever the field holds by then.        *)
(*                                                                         *)
(* A block is one `async with` or one call of a decorated function that    *)
(* was given no session; blocks of one task are nested, those of several   *)
(* tasks interleave, so they may end in any order, and one may be entered  *)
(* while another waits for its commit.  The unit of work a block opens is  *)
(* named after it.  A call that joins a session it was given opens         *)
(* nothing, and is no action.                                              *)
(***************************************************************************)
CONSTANTS
    Blocks,
    Kept,     \* scopes the application keeps in a variable
    Fresh,    \* scopes the decorator makes, one for each call
    Nothing   \* no scope, no unit

Scopes == Kept \cup Fresh

ASSUME NothingAssumption == Nothing \notin Blocks \cup Scopes
ASSUME ScopesAssumption == Kept \cap Fresh = {}

VARIABLES
    opened,  \* _opened of each scope
    within,  \* of each block not over yet, the scope it entered
    ending,  \* of each block, the unit its __aexit__ waits for
    unitOf,  \* of each block, its unit: "none", "open", "committed", "rolledback"
    shared   \* history: blocks that ran at once in one kept scope

scopeVars == <<opened, within, ending, unitOf, shared>>

ScopeTypeOK ==
    /\ opened \in [Scopes -> Blocks \cup {Nothing}]
    /\ within \in [Blocks -> Scopes \cup {Nothing}]
    /\ ending \in [Blocks -> Blocks \cup {Nothing}]
    /\ unitOf \in [Blocks -> {"none", "open", "committed", "rolledback"}]
    /\ shared \in SUBSET Blocks

ScopeInit ==
    /\ opened = [s \in Scopes |-> Nothing]
    /\ within = [b \in Blocks |-> Nothing]
    /\ ending = [b \in Blocks |-> Nothing]
    /\ unitOf = [b \in Blocks |-> "none"]
    /\ shared = {}

Unused(s) == opened[s] = Nothing
RunsIn(b, s) == within[b] = s /\ ending[b] = Nothing

(* The field is overwritten, and the session made, without an await.       *)
Enter(b, s) ==
    /\ unitOf[b] = "none"
    /\ opened' = [opened EXCEPT ![s] = b]
    /\ within' = [within EXCEPT ![b] = s]
    /\ unitOf' = [unitOf EXCEPT ![b] = "open"]
    /\ UNCHANGED ending

(* async with scope: one in use, left already, or never entered.           *)
EnterKept(b, s) ==
    /\ s \in Kept
    /\ Enter(b, s)
    /\ LET others == {c \in Blocks : RunsIn(c, s)}
       IN  shared' = IF others = {} THEN shared ELSE shared \cup others \cup {b}

(* Mutant: the scope made when the function was decorated serves each call. *)
CallDecoratedOnce(b, s) ==
    /\ s \in Fresh
    /\ Enter(b, s)
    /\ UNCHANGED shared

(* wrapper(): a new scope for the call. *)
CallDecorated(b, s) ==
    /\ s \in Fresh
    /\ Unused(s)
    /\ Enter(b, s)
    /\ UNCHANGED shared

Endable(u) == unitOf[u] = "open" /\ \A b \in Blocks : ending[b] # u

(* __aexit__ takes the unit the field holds and waits for its end.         *)
Exit(b) ==
    /\ \E s \in Scopes : RunsIn(b, s) /\ Endable(opened[s])
    /\ ending' = [ending EXCEPT ![b] = opened[within[b]]]
    /\ UNCHANGED <<opened, within, unitOf, shared>>

(* That unit has ended already, or is ending: nothing is done, in silence  *)
(* or with a RuntimeError from contextlib.                                 *)
ExitInVain(b) ==
    /\ \E s \in Scopes : RunsIn(b, s) /\ ~Endable(opened[s])
    /\ within' = [within EXCEPT ![b] = Nothing]
    /\ UNCHANGED <<opened, ending, unitOf, shared>>

(* The commit returns, fails, or the block had raised: the block is over.  *)
Left(b, outcome) ==
    /\ ending[b] # Nothing
    /\ unitOf' = [unitOf EXCEPT ![ending[b]] = outcome]
    /\ within' = [within EXCEPT ![b] = Nothing]
    /\ ending' = [ending EXCEPT ![b] = Nothing]
    /\ UNCHANGED <<opened, shared>>

ScopeNext ==
    \E b \in Blocks :
        \/ \E s \in Scopes : EnterKept(b, s) \/ CallDecorated(b, s)
        \/ Exit(b) \/ ExitInVain(b)
        \/ \E outcome \in {"committed", "rolledback"} : Left(b, outcome)

ScopeSpec == ScopeInit /\ [][ScopeNext]_scopeVars

-----------------------------------------------------------------------------
(* Whatever other blocks do, with scopes of their own or shared: the unit  *)
(* of a block that shares its scope with none is open exactly while the    *)
(* block runs or waits for its commit.                                     *)
OpenWhileItRuns ==
    \A b \in Blocks \ shared : unitOf[b] = "open" <=> within[b] # Nothing

(* Such a block, a decorated call or one that enters a scope again after   *)
(* an earlier block has begun to leave it, ends its own unit as it ends,   *)
(* and no other block does: none finds its session closed under it, and    *)
(* none leaves writes neither committed nor refused.                       *)
EndsItsOwn ==
    [][\A b \in Blocks \ shared :
           within[b] # Nothing /\ within'[b] = Nothing
               <=> unitOf[b] = "open" /\ unitOf'[b] # "open"]_scopeVars

(* docs/database.md:110: "A scope opens one unit of work -- entering it    *)
(* twice raises": once a scope has opened one it opens no other.           *)
OpensOneUnit ==
    [][\A s \in Scopes : opened[s] # Nothing => opened'[s] = opened[s]]_scopeVars
=============================================================================
