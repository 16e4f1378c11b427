------------------------------ MODULE MCPeers ------------------------------
(***************************************************************************)
(* Peers on small bands.  A behaviour has puppets, and dropped props, on    *)
(* one process only, chosen at the start, and either many arrivals or      *)
(* props.                                                                   *)
(***************************************************************************)
EXTENDS Peers

ASSUME MCEnoughIds == EnoughIds

VARIABLES
    who,        \* the process that spawns puppets and drops props
    withProps   \* props are dropped, and at most two clients arrive

(* Cut to four characters and trimmed, this name loses both ends.          *)
MCRawNicks == {<<Dash, Blank, "a", Dash, Dash, Dash, "a">>}

Narrow ==
    /\ \A p \in Processes \ {who} :
         label[p] = [s \in PeerSlotIds |-> NoPuppet] /\ drops[p] = 0
    /\ IF withProps THEN arrivals <= 2 ELSE \A p \in Processes : drops[p] = 0

MCInit ==
    /\ PeersInit
    /\ who \in Processes /\ withProps \in BOOLEAN
    /\ who = HostSlot => ~ withProps

WideNext == UNCHANGED <<who, withProps>> /\ PeersNext
NarrowNext == WideNext /\ Narrow'

MCSpec == MCInit /\ [][NarrowNext]_<<peersVars, who, withProps>>

(* Puppets and props on all processes.                                      *)
WideSpec == MCInit /\ [][WideNext]_<<peersVars, who, withProps>>
=============================================================================
