------------------------------- MODULE IdTable -------------------------------
(***************************************************************************)
(* What the element registry promises the rest of the mod: a table from    *)
(* ids to elements in which an id is never bound over a living binding, an *)
(* element never answers to two ids, and an id that waits to be minted is  *)
(* bound to nothing.  Element lifetime, owner maps, free stacks and        *)
(* threads are the business of ElementIds, which implements this module.   *)
(***************************************************************************)
CONSTANTS Elements, Ids, Null

VARIABLES
    table,      \* table[id]: the element id resolves to, or Null
    avail       \* the ids this process may still mint

vars == <<table, avail>>

Bound(e) == \E id \in Ids : table[id] = e

Init ==
    /\ table = [id \in Ids |-> Null]
    /\ avail \in SUBSET Ids

(* An authority mints an id of its own for a new element. *)
Mint(e, id) ==
    /\ id \in avail /\ table[id] = Null /\ ~ Bound(e)
    /\ table' = [table EXCEPT ![id] = e]
    /\ avail' = avail \ {id}

(* A mirror borrows an id that another process minted. *)
Borrow(e, id) ==
    /\ id \notin avail /\ table[id] = Null /\ ~ Bound(e)
    /\ table' = [table EXCEPT ![id] = e]
    /\ UNCHANGED avail

(* The element dies: a minted id can be minted again, a borrowed one not. *)
Recycle(id) ==
    /\ table[id] # Null
    /\ table' = [table EXCEPT ![id] = Null]
    /\ avail' = avail \cup {id}

GiveBack(id) ==
    /\ table[id] # Null
    /\ table' = [table EXCEPT ![id] = Null]
    /\ UNCHANGED avail

(* The process is told which ids are its own. *)
Regrant ==
    /\ avail' \in SUBSET Ids
    /\ \A id \in avail' : table[id] = Null
    /\ UNCHANGED table

Next ==
    \/ \E e \in Elements, id \in Ids : Mint(e, id) \/ Borrow(e, id)
    \/ \E id \in Ids : Recycle(id) \/ GiveBack(id)
    \/ Regrant

Spec == Init /\ [][Next]_vars
=============================================================================
