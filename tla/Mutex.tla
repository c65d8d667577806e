------------------------------- MODULE Mutex -------------------------------
(***************************************************************************)
(* What a Postgres advisory lock promises to the code that takes it        *)
(* (src/src/forktex/database/locks.py): a key has one holder at a time,    *)
(* and passes from one to the next only by being free in between.          *)
(***************************************************************************)
CONSTANTS
    Holders,  \* who can hold a lock
    Keys,     \* what advisory_key and key_from_uuid return
    Nobody    \* the holder of a free key

VARIABLE holder  \* [Keys -> Holders \cup {Nobody}]

Init == holder = [k \in Keys |-> Nobody]

Take(h, k) ==
    /\ holder[k] = Nobody
    /\ holder' = [holder EXCEPT ![k] = h]

(* Given up by its holder, or dropped with the holder's backend. *)
Free(k) ==
    /\ holder[k] # Nobody
    /\ holder' = [holder EXCEPT ![k] = Nobody]

Next == \E k \in Keys : Free(k) \/ \E h \in Holders : Take(h, k)

Spec == Init /\ [][Next]_holder
=============================================================================
