----------------------------- MODULE LatestPose -----------------------------
(***************************************************************************)
(* What a pose stream promises its receiver: the pose it shows was taken,  *)
(* and while it shows poses of one process they only get newer.  How many  *)
(* hops, losses and reorderings lie in between is not its business;        *)
(* PoseStream implements this module twice, at the host and at a client    *)
(* that the host relays to.                                                *)
(***************************************************************************)
EXTENDS Naturals

CONSTANTS Origins, Nobody, Streams

VARIABLES
    taken,      \* taken[c]: how many numbers process c has used
    shown       \* shown[st]: whose pose of stream st is shown, and its number

vars == <<taken, shown>>

Nothing == [from |-> Nobody, n |-> 0]

Init ==
    /\ taken = [c \in Origins |-> 0]
    /\ shown = [st \in Streams |-> Nothing]

Take(c) ==
    /\ taken' = [taken EXCEPT ![c] = @ + 1]
    /\ UNCHANGED shown

Show(st, c, n) ==
    /\ n < taken[c]
    /\ shown[st].from = c => n > shown[st].n
    /\ shown' = [shown EXCEPT ![st] = [from |-> c, n |-> n]]
    /\ UNCHANGED taken

(* The process has left. *)
Forget ==
    /\ shown' = [st \in Streams |-> Nothing]
    /\ UNCHANGED taken

Next ==
    \/ \E c \in Origins : Take(c)
    \/ \E st \in Streams, c \in Origins : \E n \in 0 .. taken[c] - 1 : Show(st, c, n)
    \/ Forget

Spec == Init /\ [][Next]_vars
=============================================================================
