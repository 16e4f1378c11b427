------------------------------ MODULE MCProcess -----------------------------
(***************************************************************************)
(* One process: its element layer, its dispatcher and the installation of  *)
(* its hooks. They share no state; a behaviour is one of one of them.      *)
(*                                                                         *)
(* Three elements of two types, two host ids, and a peer range of four ids *)
(* cut into three bands: {3} before a client knows its slot, {4} for slot  *)
(* 1 and {5, 6}, which absorbs the remainder, for slot 2. Drains that      *)
(* treat the elements alike make no difference between them, but the       *)
(* temporal properties forbid symmetry reduction.                          *)
(***************************************************************************)
EXTENDS ElementIds, Dispatcher, Installs

VARIABLE part       \* which

(* Tables with room for all, and with too little for the last to come.     *)
Ample == [pre |-> 8, post |-> 16, cancel |-> 8]
Scarce == [pre |-> 3, post |-> 4, cancel |-> 2]
BuildRooms == {Ample, Scarce}
BuildsMissing == {{}, {"takeObj", "updateFlashlight", "K2_DestroyActor"}}

ProcessInit ==
    /\ part \in {"elements", "dispatcher", "installs"}
    /\ Init /\ DispatcherInit /\ InstallInit
    /\ part # "installs" => role = "host" /\ room = Ample /\ missing = {}

ProcessNext ==
    /\ UNCHANGED part
    /\ \/ part = "elements" /\ Next /\ UNCHANGED <<dispatcherVars, installVars>>
       \/ part = "dispatcher" /\ DispatcherNext /\ UNCHANGED <<vars, installVars>>
       \/ part = "installs" /\ InstallNext /\ UNCHANGED <<vars, dispatcherVars>>

(* What one part's fairness asks for is never enabled in another: no       *)
(* operation is under way, and no hook is installed; the installers are    *)
(* always enabled, and are asked for in their own part only.               *)
ProcessSpec ==
    /\ ProcessInit
    /\ [][ProcessNext]_<<part, vars, dispatcherVars, installVars>>
    /\ Fairness /\ DispatcherFairness /\ WF_installVars(part = "installs" /\ InstallStep)

(* HookedInTheEnd, where the installers run at all: whatever order the     *)
(* classes come in, what an installer owes is hooked in the end            *)
(* (net_pump.cpp:208-230).                                                 *)
InstallsHooked == part = "installs" => HookedInTheEnd
=============================================================================
