------------------------------ MODULE MCProps ------------------------------
(***************************************************************************)
(* Two sides of the props, which share no state here: a behaviour is one   *)
(* of HeldProp's or one of PropSync's.                                     *)
(***************************************************************************)
EXTENDS HeldProp, PropSync

VARIABLE part       \* which

PropsInit == part \in {"held", "sync"} /\ HeldInit /\ SyncInit

PropsNext ==
    /\ UNCHANGED part
    /\ \/ part = "held" /\ HeldNext /\ UNCHANGED syncVars
       \/ part = "sync" /\ SyncNext /\ UNCHANGED heldVars

PropsSpec ==
    /\ PropsInit
    /\ [][PropsNext]_<<part, heldVars, syncVars>>
    /\ HeldFairness         \* in an initial state it asks for nothing
=============================================================================
