------------------------------ MODULE HeldProp ------------------------------
(***************************************************************************)
(* The props that remote players carry (coop/remote_prop.cpp), and where   *)
(* their poses and releases come from (coop/net_pump.cpp).                 *)
(*                                                                         *)
(* The receiver has a drive per slot it reads: the prop of the slot's last *)
(* pose, with its physics off, which is moved to every new pose.  A drive  *)
(* ends with the release message, with a pose of another prop, with the    *)
(* prop's destruction, with the slot, or half a second after its last pose.*)
(* Poses come as datagrams, releases and destroys on two lanes of the      *)
(* reliable channel.  Of what is in flight only props and order matter:    *)
(* sequence numbers (PoseStream) make a pose useless once a later one has  *)
(* been taken.                                                             *)
(***************************************************************************)
EXTENDS Naturals, SequencesExt

CONSTANTS
    Slots,          \* that the receiver reads: 1..3 on the host, 0 on a client
    Props, NoProp,
    MaxFlight       \* bound: messages of a kind in flight per slot

ASSUME HeldPropAssumption == NoProp \notin Props /\ MaxFlight \in Nat

VARIABLES
    (* the peer on the slot *)
    hand,           \* what its player holds
    lastHeld,       \* g_lastHeldProp
    localPose,      \* hasLocalProp_ and localPropPose_: what the net thread sends
    (* the network *)
    poses, releases, destroys,
    (* the receiver *)
    ready,          \* the slot has a peer
    wasReady,       \* g_wasConnectedBySlot
    stored,         \* remotePropPoses_
    isNew,          \* its stamp is not the last one read
    drive,          \* g_drives: the prop
    gone,           \* the driven actor no longer lives
    overdue,        \* lastApplyMs is more than 500 ms ago
    alive, simulates

peerVars == <<hand, lastHeld, localPose>>
wireVars == <<poses, releases, destroys>>
storeVars == <<ready, wasReady, stored, isNew>>
driveVars == <<drive, gone, overdue>>
worldVars == <<alive, simulates>>
heldVars == <<peerVars, wireVars, storeVars, driveVars, worldVars>>

HeldInit ==
    /\ hand = [s \in Slots |-> NoProp]
    /\ lastHeld = [s \in Slots |-> NoProp]
    /\ localPose = [s \in Slots |-> NoProp]
    /\ poses = [s \in Slots |-> <<>>]
    /\ releases = [s \in Slots |-> <<>>]
    /\ destroys = [s \in Slots |-> <<>>]
    /\ ready = [s \in Slots |-> FALSE]
    /\ wasReady = [s \in Slots |-> FALSE]
    /\ stored = [s \in Slots |-> NoProp]
    /\ isNew = [s \in Slots |-> FALSE]
    /\ drive = [s \in Slots |-> NoProp]
    /\ gone = [s \in Slots |-> FALSE]
    /\ overdue = [s \in Slots |-> FALSE]
    /\ alive = [p \in Props |-> TRUE]
    /\ simulates = [p \in Props |-> TRUE]

-----------------------------------------------------------------------------
(* The peer.                                                               *)

(* Its player grabs a prop, takes another one in its place, or lets go. *)
Hold(s, p) ==
    /\ ready[s] /\ hand[s] # p
    /\ p # NoProp => alive[p] /\ \A t \in Slots : ~ Contains(destroys[t], p)
    /\ hand' = [hand EXCEPT ![s] = p]
    /\ UNCHANGED <<lastHeld, localPose, wireVars, storeVars, driveVars, worldVars>>

(* Its tick: the pose of the held prop to the net thread, and on the edge  *)
(* from held to not held a stop and the release message. *)
EmitHeld(s) ==
    /\ hand[s] # NoProp /\ lastHeld[s] # hand[s]
    /\ localPose' = [localPose EXCEPT ![s] = hand[s]]
    /\ lastHeld' = [lastHeld EXCEPT ![s] = hand[s]]
    /\ UNCHANGED <<hand, wireVars, storeVars, driveVars, worldVars>>

(* Mutant: what was held does not matter. *)
EmitReleaseAnyway(s) ==
    /\ hand[s] = NoProp
    /\ Len(releases[s]) < MaxFlight
    /\ localPose' = [localPose EXCEPT ![s] = NoProp]
    /\ releases' = [releases EXCEPT ![s] = Append(@, lastHeld[s])]
    /\ lastHeld' = [lastHeld EXCEPT ![s] = NoProp]
    /\ UNCHANGED <<hand, poses, destroys, storeVars, driveVars, worldVars>>

EmitRelease(s) ==
    /\ hand[s] = NoProp /\ lastHeld[s] # NoProp
    /\ Len(releases[s]) < MaxFlight
    /\ localPose' = [localPose EXCEPT ![s] = NoProp]
    /\ releases' = [releases EXCEPT ![s] = Append(@, lastHeld[s])]
    /\ lastHeld' = [lastHeld EXCEPT ![s] = NoProp]
    /\ UNCHANGED <<hand, poses, destroys, storeVars, driveVars, worldVars>>

(* The net thread sends what it last was given, again and again. *)
SendPropPose(s) ==
    /\ localPose[s] # NoProp /\ Len(poses[s]) < MaxFlight
    /\ poses' = [poses EXCEPT ![s] = Append(@, localPose[s])]
    /\ UNCHANGED <<peerVars, releases, destroys, storeVars, driveVars, worldVars>>

(* The peer's game destroys what its player holds. *)
PeerDestroys(s) ==
    /\ hand[s] # NoProp /\ Len(destroys[s]) < MaxFlight
    /\ destroys' = [destroys EXCEPT ![s] = Append(@, hand[s])]
    /\ hand' = [hand EXCEPT ![s] = NoProp]
    /\ UNCHANGED <<lastHeld, localPose, poses, releases, storeVars, driveVars, worldVars>>

-----------------------------------------------------------------------------
(* The receiver's net thread.                                              *)

(* A pose arrives, and those sent before it are stale from now on; all may *)
(* be lost. *)
ReceivePropPose(s, i) ==
    /\ stored' = [stored EXCEPT ![s] = poses[s][i]]
    /\ isNew' = [isNew EXCEPT ![s] = TRUE]
    /\ poses' = [poses EXCEPT ![s] = SubSeq(@, i + 1, Len(@))]
    /\ UNCHANGED <<peerVars, releases, destroys, ready, wasReady, driveVars, worldVars>>

LosePropPoses(s) ==
    /\ poses[s] # <<>>
    /\ poses' = [poses EXCEPT ![s] = <<>>]
    /\ UNCHANGED <<peerVars, releases, destroys, storeVars, driveVars, worldVars>>

(* A peer takes the slot, or leaves it: the session forgets its pose, and  *)
(* nothing of what it sent arrives any more. *)
Open(s) ==
    /\ ~ ready[s]
    /\ ready' = [ready EXCEPT ![s] = TRUE]
    /\ UNCHANGED <<peerVars, wireVars, wasReady, stored, isNew, driveVars, worldVars>>

Close(s) ==
    /\ ready[s]
    /\ ready' = [ready EXCEPT ![s] = FALSE]
    /\ hand' = [hand EXCEPT ![s] = NoProp]
    /\ lastHeld' = [lastHeld EXCEPT ![s] = NoProp]
    /\ localPose' = [localPose EXCEPT ![s] = NoProp]
    /\ poses' = [poses EXCEPT ![s] = <<>>]
    /\ releases' = [releases EXCEPT ![s] = <<>>]
    /\ destroys' = [destroys EXCEPT ![s] = <<>>]
    /\ stored' = [stored EXCEPT ![s] = NoProp]
    /\ isNew' = [isNew EXCEPT ![s] = FALSE]
    /\ UNCHANGED <<wasReady, driveVars, worldVars>>

-----------------------------------------------------------------------------
(* The receiver's game thread.                                             *)

(* DriveSimulate(mesh, true) on the prop of a drive, if it is one and it   *)
(* lives. *)
FreedBy(s) == IF drive[s] = NoProp \/ gone[s] THEN {} ELSE {drive[s]}
Simulating(freed) == [p \in Props |-> simulates[p] \/ p \in freed]

(* The drives of the slots in cleared end. *)
Undriven(cleared) ==
    /\ drive' = [s \in Slots |-> IF s \in cleared THEN NoProp ELSE drive[s]]
    /\ gone' = [s \in Slots |-> gone[s] /\ s \notin cleared]
    /\ overdue' = [s \in Slots |-> overdue[s] /\ s \notin cleared]

(* Mutant: a slot that empties only loses its drive. *)
SlotEdgeLeavesProp(s) ==
    /\ wasReady[s] # ready[s]
    /\ wasReady' = [wasReady EXCEPT ![s] = ready[s]]
    /\ Undriven(IF ready[s] THEN {} ELSE {s})
    /\ UNCHANGED <<peerVars, wireVars, ready, stored, isNew, worldVars>>

(* The edges of the tick; OnDisconnectForSlot on the falling one. *)
SlotEdge(s) ==
    /\ wasReady[s] # ready[s]
    /\ wasReady' = [wasReady EXCEPT ![s] = ready[s]]
    /\ simulates' = Simulating(IF ready[s] THEN {} ELSE FreedBy(s))
    /\ Undriven(IF ready[s] THEN {} ELSE {s})
    /\ UNCHANGED <<peerVars, wireVars, ready, stored, isNew, alive>>

(* remote_prop::Tick without a session: ForceRelease. *)
ForceRelease ==
    /\ \A s \in Slots : ~ ready[s]
    /\ \E s \in Slots : drive[s] # NoProp
    /\ simulates' = Simulating(UNION {FreedBy(s) : s \in Slots})
    /\ Undriven(Slots)
    /\ UNCHANGED <<peerVars, wireVars, storeVars, alive>>

Connected == \E s \in Slots : ready[s]

(* A new pose of the prop the slot drives, which is moved, or whose drive  *)
(* is dropped because it no longer lives. *)
MoveDriven(s) ==
    /\ Connected /\ isNew[s] /\ stored[s] = drive[s]
    /\ isNew' = [isNew EXCEPT ![s] = FALSE]
    /\ IF gone[s] THEN Undriven({s})
       ELSE overdue' = [overdue EXCEPT ![s] = FALSE] /\ UNCHANGED <<drive, gone>>
    /\ UNCHANGED <<peerVars, wireVars, ready, wasReady, stored, worldVars>>

(* ResolveAndStartDrive: the prop is looked for by its key, and its        *)
(* physics turned off. *)
StartDrive(s, freed) ==
    IF alive[stored[s]]
    THEN /\ simulates' = [Simulating(freed) EXCEPT ![stored[s]] = FALSE]
         /\ drive' = [drive EXCEPT ![s] = stored[s]]
         /\ gone' = [gone EXCEPT ![s] = FALSE]
         /\ overdue' = [overdue EXCEPT ![s] = FALSE]
    ELSE /\ simulates' = Simulating(freed)
         /\ Undriven({s})

(* Mutant: the prop the slot drove so far is forgotten. *)
SwitchForgetsOld(s) ==
    /\ Connected /\ isNew[s] /\ stored[s] # drive[s]
    /\ isNew' = [isNew EXCEPT ![s] = FALSE]
    /\ StartDrive(s, {})
    /\ UNCHANGED <<peerVars, wireVars, ready, wasReady, stored, alive>>

(* A new pose of another prop: an implicit release of the one driven. *)
SwitchDriven(s) ==
    /\ Connected /\ isNew[s] /\ stored[s] # drive[s]
    /\ isNew' = [isNew EXCEPT ![s] = FALSE]
    /\ StartDrive(s, FreedBy(s))
    /\ UNCHANGED <<peerVars, wireVars, ready, wasReady, stored, alive>>

(* No new pose, and none for half a second: an implicit release. *)
TimeOut(s) ==
    /\ Connected /\ ~ isNew[s] /\ overdue[s]
    /\ simulates' = Simulating(FreedBy(s))
    /\ Undriven({s})
    /\ UNCHANGED <<peerVars, wireVars, storeVars, alive>>

(* Mutant: the clock of a drive starts when it is first moved again. *)
NeverElapses(s) ==
    /\ FALSE
    /\ UNCHANGED heldVars

(* 500 ms pass since the last pose was applied. *)
Elapse(s) ==
    /\ drive[s] # NoProp /\ ~ overdue[s]
    /\ overdue' = [overdue EXCEPT ![s] = TRUE]
    /\ UNCHANGED <<peerVars, wireVars, storeVars, drive, gone, worldVars>>

(* OnRelease, from event_feed: the sender's own drive, if it is of this    *)
(* prop, ends; if not, the prop is looked for by its key. *)
OnRelease(s) ==
    /\ releases[s] # <<>>
    /\ releases' = [releases EXCEPT ![s] = Tail(@)]
    /\ LET k == Head(releases[s]) IN
       IF drive[s] = k
       THEN simulates' = Simulating(FreedBy(s)) /\ Undriven({s})
       ELSE /\ simulates' = Simulating({k} \cap {p \in Props : alive[p]})
            /\ UNCHANGED driveVars
    /\ UNCHANGED <<peerVars, poses, destroys, storeVars, alive>>

(* OnDestroy: every drive of the actor ends, and the actor with it. *)
OnDestroy(s) ==
    /\ destroys[s] # <<>>
    /\ destroys' = [destroys EXCEPT ![s] = Tail(@)]
    /\ LET k == Head(destroys[s]) IN
       IF alive[k]
       THEN /\ alive' = [alive EXCEPT ![k] = FALSE]
            /\ Undriven({t \in Slots : drive[t] = k /\ ~ gone[t]})
       ELSE UNCHANGED <<alive, driveVars>>
    /\ UNCHANGED <<peerVars, poses, releases, storeVars, simulates>>

(* The receiver's own game destroys a prop, and any drive of it is not     *)
(* told; later a prop with its key may be spawned again (OnSpawn), with    *)
(* its physics on. *)
OwnDestroy(p) ==
    /\ alive[p]
    /\ alive' = [alive EXCEPT ![p] = FALSE]
    /\ gone' = [s \in Slots |-> gone[s] \/ drive[s] = p]
    /\ UNCHANGED <<peerVars, wireVars, storeVars, drive, overdue, simulates>>

SpawnAgain(p) ==
    /\ ~ alive[p]
    /\ alive' = [alive EXCEPT ![p] = TRUE]
    /\ simulates' = [simulates EXCEPT ![p] = TRUE]
    /\ UNCHANGED <<peerVars, wireVars, storeVars, driveVars>>

-----------------------------------------------------------------------------
HeldNext ==
    \/ \E s \in Slots :
          \/ \E p \in Props \cup {NoProp} : Hold(s, p)
          \/ EmitHeld(s) \/ EmitRelease(s) \/ SendPropPose(s) \/ PeerDestroys(s)
          \/ \E i \in 1 .. Len(poses[s]) : ReceivePropPose(s, i)
          \/ LosePropPoses(s) \/ Open(s) \/ Close(s)
          \/ SlotEdge(s) \/ MoveDriven(s) \/ SwitchDriven(s) \/ TimeOut(s) \/ Elapse(s)
          \/ OnRelease(s) \/ OnDestroy(s)
    \/ ForceRelease
    \/ \E p \in Props : OwnDestroy(p) \/ SpawnAgain(p)

(* Both ends tick, whatever a tick finds to do, and the clock runs.  The   *)
(* network owes a release, however late, and no pose. *)
HeldFairness ==
    /\ \A s \in Slots :
          /\ WF_heldVars(EmitHeld(s) \/ EmitRelease(s)) /\ WF_heldVars(OnRelease(s))
          /\ WF_heldVars(Elapse(s))
          /\ WF_heldVars(SlotEdge(s) \/ ForceRelease \/ MoveDriven(s) \/ SwitchDriven(s) \/ TimeOut(s))

HeldSpec == HeldInit /\ [][HeldNext]_heldVars /\ HeldFairness

-----------------------------------------------------------------------------
HeldTypeOK ==
    /\ \A v \in {hand, lastHeld, localPose, stored, drive} : v \in [Slots -> Props \cup {NoProp}]
    /\ \A v \in {poses, releases, destroys} : \A s \in Slots :
          v[s] \in Seq(Props) /\ Len(v[s]) <= MaxFlight
    /\ \A v \in {ready, wasReady, isNew, gone, overdue} : v \in [Slots -> BOOLEAN]
    /\ alive \in [Props -> BOOLEAN] /\ simulates \in [Props -> BOOLEAN]

(* No prop is left hanging in the air: one whose physics is off is driven  *)
(* by some slot, through key switches, timeouts, lost peers, destroys and  *)
(* respawns (remote_prop.cpp:336-347, :375-382, :721-727). *)
LimpIsDriven ==
    \A p \in Props :
        alive[p] /\ ~ simulates[p] => \E s \in Slots : drive[s] = p /\ ~ gone[s]

(* Once nobody holds a prop it falls again, though every pose and the      *)
(* release message may be lost or late (remote_prop.h:14, net_pump.cpp:    *)
(* 460-464). *)
LetGoFalls ==
    \A p \in Props :
        (alive[p] /\ ~ simulates[p] /\ \A s \in Slots : hand[s] # p)
            ~> (~ alive[p] \/ simulates[p] \/ \E s \in Slots : hand[s] = p)

(* "Clear only the matching slot's drive state -- other slots' active      *)
(* drives (if any) stay intact" (remote_prop.cpp:449-450): what one slot's *)
(* release does leaves the props that others drive driven, and their       *)
(* physics off. *)
OtherDrivesIntact ==
    [][\A s, t \in Slots :
        OnRelease(s) /\ t # s /\ drive[t] # NoProp
            => drive'[t] = drive[t] /\ simulates'[drive[t]] = simulates[drive[t]]]_heldVars
=============================================================================
