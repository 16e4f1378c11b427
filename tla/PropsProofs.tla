---------------------------- MODULE PropsProofs ----------------------------
(***************************************************************************)
(* Proofs about HeldProp, for any set of slots and of props and any number *)
(* of messages in flight, and about PropSync, for any set of clients and   *)
(* of props and any length of its channels.                                *)
(***************************************************************************)
EXTENDS HeldProp, PropSync, QueueLemmas

-----------------------------------------------------------------------------
(* HeldProp.                                                               *)

(* Where the messages come from: what a peer holds, was holding when its   *)
(* tick looked, and told its net thread.                                   *)
SenderTyped ==
    /\ hand \in [Slots -> Props \cup {NoProp}]
    /\ lastHeld \in [Slots -> Props \cup {NoProp}]
    /\ localPose \in [Slots -> Props \cup {NoProp}]

WireTyped ==
    /\ poses \in [Slots -> Seq(Props)]
    /\ releases \in [Slots -> Seq(Props)]
    /\ destroys \in [Slots -> Seq(Props)]

(* A pose that has not been read is one of a prop.                         *)
StoreTyped ==
    /\ ready \in [Slots -> BOOLEAN] /\ wasReady \in [Slots -> BOOLEAN]
    /\ isNew \in [Slots -> BOOLEAN]
    /\ stored \in [Slots -> Props \cup {NoProp}]
    /\ \A s \in Slots : isNew[s] => stored[s] \in Props

DrivesTyped ==
    /\ drive \in [Slots -> Props \cup {NoProp}]
    /\ gone \in [Slots -> BOOLEAN] /\ overdue \in [Slots -> BOOLEAN]

WorldTyped ==
    /\ alive \in [Props -> BOOLEAN]
    /\ simulates \in [Props -> BOOLEAN]

HeldInv ==
    /\ SenderTyped /\ WireTyped /\ StoreTyped /\ DrivesTyped /\ WorldTyped
    /\ LimpIsDriven

-----------------------------------------------------------------------------
LEMMA HeldInitially == HeldInit => HeldInv
BY HeldPropAssumption
DEF HeldInit, HeldInv, SenderTyped, WireTyped, StoreTyped, DrivesTyped, WorldTyped, LimpIsDriven

(* What ends drives and frees their props keeps every prop that hangs in   *)
(* the air driven: the drives that end are of props that are freed, gone   *)
(* or destroyed.                                                           *)
LEMMA EndingDrives ==
    ASSUME HeldInv, NEW cleared \in SUBSET Slots,
           Undriven(cleared),
           alive' \in [Props -> BOOLEAN], simulates' \in [Props -> BOOLEAN],
           \A p \in Props : alive'[p] => alive[p],
           \A p \in Props : simulates[p] => simulates'[p],
           \A s \in cleared : drive[s] # NoProp /\ ~ gone[s] =>
                simulates'[drive[s]] \/ ~ alive'[drive[s]]
    PROVE  DrivesTyped' /\ LimpIsDriven'
<1>1. DrivesTyped'
  BY DEF HeldInv, DrivesTyped, Undriven
<1>2. ASSUME NEW p \in Props, alive'[p], ~ simulates'[p]
      PROVE  \E s \in Slots : drive'[s] = p /\ ~ gone'[s]
  <2>1. PICK s \in Slots : drive[s] = p /\ ~ gone[s]
    BY <1>2 DEF HeldInv, LimpIsDriven
  <2>2. s \notin cleared
    BY <1>2, <2>1, HeldPropAssumption
  <2> QED
    BY <2>1, <2>2 DEF Undriven
<1> QED
  BY <1>1, <1>2 DEF LimpIsDriven

LEMMA SimulatingTyped ==
    ASSUME HeldInv, NEW freed
    PROVE  /\ Simulating(freed) \in [Props -> BOOLEAN]
           /\ \A p \in Props : simulates[p] => Simulating(freed)[p]
           /\ \A p \in Props : p \in freed => Simulating(freed)[p]
BY DEF HeldInv, WorldTyped, Simulating

-----------------------------------------------------------------------------
(* The peer and the net threads leave drives and world alone.              *)
LEMMA RestStays ==
    ASSUME HeldInv, UNCHANGED <<driveVars, worldVars>>
    PROVE  DrivesTyped' /\ WorldTyped' /\ LimpIsDriven'
BY DEF HeldInv, DrivesTyped, WorldTyped, LimpIsDriven, driveVars, worldVars

LEMMA PeerStep ==
    ASSUME HeldInv, NEW s \in Slots,
           \/ \E p \in Props \cup {NoProp} : Hold(s, p)
           \/ EmitHeld(s) \/ EmitRelease(s) \/ SendPropPose(s) \/ PeerDestroys(s)
    PROVE  HeldInv'
<1>1. DrivesTyped' /\ WorldTyped' /\ LimpIsDriven'
  BY RestStays DEF Hold, EmitHeld, EmitRelease, SendPropPose, PeerDestroys
<1>2. StoreTyped'
  BY DEF HeldInv, StoreTyped, storeVars, Hold, EmitHeld, EmitRelease, SendPropPose, PeerDestroys
<1>3. SenderTyped' /\ WireTyped'
  <2> USE DEF HeldInv, SenderTyped, WireTyped, wireVars, peerVars
  <2>1. CASE \E p \in Props \cup {NoProp} : Hold(s, p)
    BY <2>1 DEF Hold
  <2>2. CASE EmitHeld(s)
    BY <2>2 DEF EmitHeld
  <2>3. CASE EmitRelease(s)
    <3>1. lastHeld[s] \in Props
      BY <2>3 DEF EmitRelease
    <3> QED BY <2>3, <3>1 DEF EmitRelease
  <2>4. CASE SendPropPose(s)
    <3>1. localPose[s] \in Props
      BY <2>4 DEF SendPropPose
    <3> QED BY <2>4, <3>1 DEF SendPropPose
  <2>5. CASE PeerDestroys(s)
    <3>1. hand[s] \in Props
      BY <2>5 DEF PeerDestroys
    <3> QED BY <2>5, <3>1 DEF PeerDestroys
  <2> QED BY <2>1, <2>2, <2>3, <2>4, <2>5
<1> QED BY <1>1, <1>2, <1>3 DEF HeldInv

LEMMA NetStep ==
    ASSUME HeldInv, NEW s \in Slots,
           \/ \E i \in 1 .. Len(poses[s]) : ReceivePropPose(s, i)
           \/ LosePropPoses(s) \/ Open(s) \/ Close(s)
    PROVE  HeldInv'
<1>1. DrivesTyped' /\ WorldTyped' /\ LimpIsDriven'
  BY RestStays DEF ReceivePropPose, LosePropPoses, Open, Close
<1>2. SenderTyped' /\ WireTyped' /\ StoreTyped'
  <2> USE DEF HeldInv, SenderTyped, WireTyped, StoreTyped, wireVars, peerVars, storeVars
  <2>1. CASE \E i \in 1 .. Len(poses[s]) : ReceivePropPose(s, i)
    <3>1. PICK i \in 1 .. Len(poses[s]) : ReceivePropPose(s, i)
      BY <2>1
    <3>2. poses[s][i] \in Props /\ SubSeq(poses[s], i + 1, Len(poses[s])) \in Seq(Props)
      BY <3>1
    <3> QED BY <3>1, <3>2 DEF ReceivePropPose
  <2>2. CASE LosePropPoses(s)
    BY <2>2 DEF LosePropPoses
  <2>3. CASE Open(s)
    BY <2>3 DEF Open
  <2>4. CASE Close(s)
    BY <2>4 DEF Close
  <2> QED BY <2>1, <2>2, <2>3, <2>4
<1> QED BY <1>1, <1>2 DEF HeldInv

-----------------------------------------------------------------------------
(* The receiver's game thread: the steps that only end drives.             *)
LEMMA EndingStep ==
    ASSUME HeldInv, NEW s \in Slots,
           SlotEdge(s) \/ ForceRelease \/ TimeOut(s)
    PROVE  HeldInv'
<1>1. SenderTyped' /\ WireTyped' /\ StoreTyped'
  BY DEF HeldInv, SenderTyped, WireTyped, StoreTyped, wireVars, peerVars, storeVars,
         SlotEdge, ForceRelease, TimeOut
<1>2. PICK cleared \in SUBSET Slots :
        /\ Undriven(cleared) /\ alive' = alive
        /\ \E freed : simulates' = Simulating(freed) /\ \A t \in cleared : FreedBy(t) \subseteq freed
  <2>1. CASE SlotEdge(s)
    <3>1. CASE ready[s]
      BY <2>1, <3>1 DEF SlotEdge
    <3>2. CASE ~ ready[s]
      BY <2>1, <3>2 DEF SlotEdge
    <3> QED BY <3>1, <3>2
  <2>2. CASE ForceRelease
    BY <2>2 DEF ForceRelease
  <2>3. CASE TimeOut(s)
    BY <2>3 DEF TimeOut, worldVars
  <2> QED BY <2>1, <2>2, <2>3
<1>3. PICK freed : simulates' = Simulating(freed) /\ \A t \in cleared : FreedBy(t) \subseteq freed
  BY <1>2
<1>4. /\ simulates' \in [Props -> BOOLEAN]
      /\ \A p \in Props : simulates[p] => simulates'[p]
      /\ \A p \in Props : p \in freed => simulates'[p]
  BY <1>3, SimulatingTyped
<1>5. \A t \in cleared : drive[t] # NoProp /\ ~ gone[t] => simulates'[drive[t]]
  BY <1>2, <1>3, <1>4 DEF FreedBy, HeldInv, DrivesTyped
<1>6. alive' \in [Props -> BOOLEAN]
  BY <1>2 DEF HeldInv, WorldTyped
<1>7. DrivesTyped' /\ LimpIsDriven'
  BY <1>2, <1>4, <1>5, <1>6, EndingDrives
<1> QED BY <1>1, <1>4, <1>6, <1>7 DEF HeldInv, WorldTyped

(* A new pose of the prop that is driven.                                  *)
LEMMA MoveStep ==
    ASSUME HeldInv, NEW s \in Slots, MoveDriven(s)
    PROVE  HeldInv'
<1>1. SenderTyped' /\ WireTyped' /\ StoreTyped' /\ WorldTyped'
  BY DEF HeldInv, SenderTyped, WireTyped, StoreTyped, WorldTyped, wireVars, peerVars, worldVars,
         MoveDriven
<1>2. DrivesTyped' /\ LimpIsDriven'
  <2>1. CASE gone[s]
    <3>1. Undriven({s}) /\ alive' = alive /\ simulates' = simulates
      BY <2>1 DEF MoveDriven, worldVars
    <3> QED BY <2>1, <3>1, EndingDrives DEF HeldInv, WorldTyped
  <2>2. CASE ~ gone[s]
    <3>1. UNCHANGED <<drive, gone, alive, simulates>> /\ overdue' = [overdue EXCEPT ![s] = FALSE]
      BY <2>2 DEF MoveDriven, worldVars
    <3>2. DrivesTyped'
      BY <3>1 DEF HeldInv, DrivesTyped
    <3>3. LimpIsDriven'
      BY <3>1 DEF HeldInv, LimpIsDriven
    <3> QED BY <3>2, <3>3
  <2> QED BY <2>1, <2>2
<1> QED BY <1>1, <1>2 DEF HeldInv

(* A new pose of another prop: the old one falls before the new one is     *)
(* taken.                                                                  *)
LEMMA SwitchStep ==
    ASSUME HeldInv, NEW s \in Slots, SwitchDriven(s)
    PROVE  HeldInv'
<1>1. SenderTyped' /\ WireTyped' /\ StoreTyped' /\ alive' = alive
  BY DEF HeldInv, SenderTyped, WireTyped, StoreTyped, wireVars, peerVars, SwitchDriven
<1>2. stored[s] \in Props
  BY DEF HeldInv, StoreTyped, SwitchDriven
<1>3. /\ Simulating(FreedBy(s)) \in [Props -> BOOLEAN]
      /\ \A p \in Props : simulates[p] => Simulating(FreedBy(s))[p]
      /\ \A p \in Props : p \in FreedBy(s) => Simulating(FreedBy(s))[p]
  BY SimulatingTyped
<1>4. CASE ~ alive[stored[s]]
  <2>1. simulates' = Simulating(FreedBy(s)) /\ Undriven({s})
    BY <1>4 DEF SwitchDriven, StartDrive
  <2>2. drive[s] # NoProp /\ ~ gone[s] => simulates'[drive[s]]
    BY <1>3, <2>1 DEF FreedBy, HeldInv, DrivesTyped
  <2>3. DrivesTyped' /\ LimpIsDriven'
    BY <1>1, <1>3, <2>1, <2>2, EndingDrives DEF HeldInv, WorldTyped
  <2> QED BY <1>1, <1>3, <2>1, <2>3 DEF HeldInv, WorldTyped
<1>5. CASE alive[stored[s]]
  <2>1. /\ simulates' = [Simulating(FreedBy(s)) EXCEPT ![stored[s]] = FALSE]
        /\ drive' = [drive EXCEPT ![s] = stored[s]]
        /\ gone' = [gone EXCEPT ![s] = FALSE]
        /\ overdue' = [overdue EXCEPT ![s] = FALSE]
    BY <1>5 DEF SwitchDriven, StartDrive
  <2>2. DrivesTyped' /\ WorldTyped'
    BY <1>1, <1>2, <1>3, <2>1 DEF HeldInv, DrivesTyped, WorldTyped
  <2>3. ASSUME NEW p \in Props, alive'[p], ~ simulates'[p]
        PROVE  \E t \in Slots : drive'[t] = p /\ ~ gone'[t]
    <3>1. CASE p = stored[s]
      BY <1>2, <2>1, <3>1 DEF HeldInv, DrivesTyped
    <3>2. CASE p # stored[s]
      <4>1. ~ Simulating(FreedBy(s))[p]
        BY <1>2, <1>3, <2>1, <2>3, <3>2
      <4>2. PICK t \in Slots : drive[t] = p /\ ~ gone[t]
        BY <1>1, <1>3, <2>3, <4>1 DEF HeldInv, LimpIsDriven
      <4>3. t # s
        BY <1>3, <4>1, <4>2, HeldPropAssumption DEF FreedBy
      <4> QED BY <2>1, <4>2, <4>3 DEF HeldInv, DrivesTyped
    <3> QED BY <3>1, <3>2
  <2> QED BY <1>1, <2>2, <2>3 DEF HeldInv, LimpIsDriven
<1> QED BY <1>4, <1>5

LEMMA ClockStep ==
    ASSUME HeldInv, NEW s \in Slots, Elapse(s)
    PROVE  HeldInv'
BY DEF HeldInv, SenderTyped, WireTyped, StoreTyped, DrivesTyped, WorldTyped, LimpIsDriven,
       peerVars, wireVars, storeVars, worldVars, Elapse

(* A release: of the prop the slot drives, or of whatever has the key.     *)
LEMMA ReleaseStep ==
    ASSUME HeldInv, NEW s \in Slots, OnRelease(s)
    PROVE  HeldInv'
<1> DEFINE k == Head(releases[s])
<1>1. SenderTyped' /\ StoreTyped' /\ alive' = alive
  BY DEF HeldInv, SenderTyped, StoreTyped, peerVars, storeVars, OnRelease
<1>2. WireTyped'
  BY DEF HeldInv, WireTyped, OnRelease
<1>3. CASE drive[s] = k
  <2>1. simulates' = Simulating(FreedBy(s)) /\ Undriven({s})
    BY <1>3 DEF OnRelease
  <2>2. /\ simulates' \in [Props -> BOOLEAN]
        /\ \A p \in Props : simulates[p] => simulates'[p]
        /\ \A p \in Props : p \in FreedBy(s) => simulates'[p]
    BY <2>1, SimulatingTyped
  <2>3. drive[s] # NoProp /\ ~ gone[s] => simulates'[drive[s]]
    BY <2>2 DEF FreedBy, HeldInv, DrivesTyped
  <2>4. DrivesTyped' /\ LimpIsDriven'
    BY <1>1, <2>1, <2>2, <2>3, EndingDrives DEF HeldInv, WorldTyped
  <2> QED BY <1>1, <1>2, <2>2, <2>4 DEF HeldInv, WorldTyped
<1>4. CASE drive[s] # k
  <2>1. simulates' = Simulating({k} \cap {p \in Props : alive[p]}) /\ UNCHANGED driveVars
    BY <1>4 DEF OnRelease
  <2>2. /\ simulates' \in [Props -> BOOLEAN]
        /\ \A p \in Props : simulates[p] => simulates'[p]
    BY <2>1, SimulatingTyped
  <2>3. DrivesTyped' /\ LimpIsDriven'
    BY <1>1, <2>1, <2>2 DEF HeldInv, DrivesTyped, WorldTyped, LimpIsDriven, driveVars
  <2> QED BY <1>1, <1>2, <2>2, <2>3 DEF HeldInv, WorldTyped
<1> QED BY <1>3, <1>4

(* A destroy ends every drive of its prop, whichever slot it came from.    *)
LEMMA DestroyStep ==
    ASSUME HeldInv, NEW s \in Slots, OnDestroy(s)
    PROVE  HeldInv'
<1> DEFINE k == Head(destroys[s])
           cleared == {t \in Slots : drive[t] = k /\ ~ gone[t]}
<1>1. SenderTyped' /\ StoreTyped' /\ simulates' = simulates
  BY DEF HeldInv, SenderTyped, StoreTyped, peerVars, storeVars, OnDestroy
<1>2. WireTyped' /\ k \in Props
  BY DEF HeldInv, WireTyped, OnDestroy
<1>3. CASE alive[k]
  <2>1. alive' = [alive EXCEPT ![k] = FALSE] /\ Undriven(cleared)
    BY <1>3 DEF OnDestroy
  <2>2. WorldTyped'
    BY <1>1, <1>2, <2>1 DEF HeldInv, WorldTyped
  <2>3. \A p \in Props : alive'[p] => alive[p]
    BY <1>2, <2>1 DEF HeldInv, WorldTyped
  <2>4. \A t \in cleared : ~ alive'[drive[t]]
    BY <1>2, <2>1 DEF HeldInv, WorldTyped
  <2>5. cleared \in SUBSET Slots
    OBVIOUS
  <2>6. DrivesTyped' /\ LimpIsDriven'
    <3> HIDE DEF cleared
    <3> QED BY <1>1, <2>1, <2>2, <2>3, <2>4, <2>5, EndingDrives DEF WorldTyped
  <2> QED BY <1>1, <1>2, <2>2, <2>6 DEF HeldInv
<1>4. CASE ~ alive[k]
  <2>1. UNCHANGED <<driveVars, worldVars>>
    BY <1>1, <1>4 DEF OnDestroy, worldVars
  <2> QED BY <1>1, <1>2, <2>1, RestStays DEF HeldInv
<1> QED BY <1>3, <1>4

(* The receiver's own game takes props away and brings them back.          *)
LEMMA OwnStep ==
    ASSUME HeldInv, NEW p \in Props, OwnDestroy(p) \/ SpawnAgain(p)
    PROVE  HeldInv'
<1>1. SenderTyped' /\ WireTyped' /\ StoreTyped'
  BY DEF HeldInv, SenderTyped, WireTyped, StoreTyped, wireVars, peerVars, storeVars,
         OwnDestroy, SpawnAgain
<1>2. DrivesTyped' /\ WorldTyped' /\ LimpIsDriven'
  <2>1. CASE OwnDestroy(p)
    BY <2>1 DEF HeldInv, DrivesTyped, WorldTyped, LimpIsDriven, OwnDestroy
  <2>2. CASE SpawnAgain(p)
    BY <2>2 DEF HeldInv, DrivesTyped, WorldTyped, LimpIsDriven, SpawnAgain, driveVars
  <2> QED BY <2>1, <2>2
<1> QED BY <1>1, <1>2 DEF HeldInv

-----------------------------------------------------------------------------
LEMMA HeldStep == HeldInv /\ [HeldNext]_heldVars => HeldInv'
<1> SUFFICES ASSUME HeldInv, [HeldNext]_heldVars PROVE HeldInv'
  OBVIOUS
<1>1. CASE UNCHANGED heldVars
  BY <1>1 DEF HeldInv, SenderTyped, WireTyped, StoreTyped, DrivesTyped, WorldTyped, LimpIsDriven,
       heldVars, peerVars, wireVars, storeVars, driveVars, worldVars
<1>2. CASE ForceRelease
  <2>1. PICK s \in Slots : drive[s] # NoProp
    BY <1>2 DEF ForceRelease
  <2> QED BY <1>2, <2>1, EndingStep
<1>3. CASE \E p \in Props : OwnDestroy(p) \/ SpawnAgain(p)
  BY <1>3, OwnStep
<1>4. ASSUME NEW s \in Slots,
             \/ \E p \in Props \cup {NoProp} : Hold(s, p)
             \/ EmitHeld(s) \/ EmitRelease(s) \/ SendPropPose(s) \/ PeerDestroys(s)
      PROVE  HeldInv'
  BY <1>4, PeerStep
<1>5. ASSUME NEW s \in Slots,
             \/ \E i \in 1 .. Len(poses[s]) : ReceivePropPose(s, i)
             \/ LosePropPoses(s) \/ Open(s) \/ Close(s)
      PROVE  HeldInv'
  BY <1>5, NetStep
<1>6. ASSUME NEW s \in Slots,
             \/ SlotEdge(s) \/ MoveDriven(s) \/ SwitchDriven(s) \/ TimeOut(s) \/ Elapse(s)
             \/ OnRelease(s) \/ OnDestroy(s)
      PROVE  HeldInv'
  BY <1>6, EndingStep, MoveStep, SwitchStep, ClockStep, ReleaseStep, DestroyStep
<1> QED BY <1>1, <1>2, <1>3, <1>4, <1>5, <1>6 DEF HeldNext

(* No prop is left hanging in the air, however many slots drive props at   *)
(* once, the same one among them, and whatever messages are lost or late   *)
(* (remote_prop.cpp:336-347, :375-382, :721-727).                          *)
THEOREM LimpAlwaysDriven == HeldSpec => []LimpIsDriven
<1>1. HeldInv => LimpIsDriven
  BY DEF HeldInv
<1> QED BY <1>1, HeldInitially, HeldStep, PTL DEF HeldSpec

-----------------------------------------------------------------------------
(* PropSync.  Players leave alone what has no id with them, and no client  *)
(* drops a prop while another one has still to join.                       *)

Messages == [kind : {"spawn", "destroy"}, key : Keys, id : {"host", "peer"}, from : Peers]

SyncTyped ==
    /\ joined \subseteq SyncClients /\ fresh \subseteq Keys
    /\ world \in [Peers -> SUBSET Keys]
    /\ own \in [Peers -> SUBSET Keys]
    /\ \A p \in Peers : own[p] \subseteq world[p]
    /\ mirrored \in [Peers -> [Keys \cup {TempKey} -> {NoId, "host", "peer"}]]
    /\ inventory \in [Peers -> SUBSET Keys]
    /\ up \in [SyncClients -> Seq(Messages)]
    /\ down \in [SyncClients -> Seq(Messages)]
    /\ inbox \in Seq(Messages)
    /\ IsFiniteSet(world[Host])

(* What is under way passes the receiver's range check, and is about a     *)
(* prop that there is or was. *)
UnderWayAllowed == \A m \in InFlight : Allowed(m) /\ m.key \notin fresh

(* A client is not sent its own news. *)
Senders ==
    /\ \A c \in SyncClients :
          /\ \A m \in ToSet(up[c]) : m.from = c
          /\ \A m \in ToSet(down[c]) : m.from # c
    /\ \A m \in ToSet(inbox) : m.from \in SyncClients

(* All news of a prop that are under way come from one player.             *)
OneOrigin == \A m, n \in InFlight : m.key = n.key => m.from = n.from

(* Until all have joined, every prop of the host's world is its own.       *)
HostsAlone ==
    joined # SyncClients =>
        /\ own[Host] = world[Host]
        /\ \A m \in InFlight : m.kind = "spawn" => m.from = Host

InOneHand ==
    /\ \A k \in Keys, p, q \in Peers : k \in inventory[p] /\ k \in inventory[q] => p = q
    /\ \A p \in Peers, k \in fresh : k \notin inventory[p]

(* What a channel says of a key in the end: the kind of its last message.  *)
Silent(q, k) == \A m \in ToSet(q) : m.key # k
Says(q, k, kind) ==
    \E i \in 1 .. Len(q) :
        /\ q[i].key = k /\ q[i].kind = kind
        /\ \A j \in i + 1 .. Len(q) : q[j].key # k

(* Handling all of q leaves the receiver, where the last that was done to  *)
(* k is `first', with `last'. *)
Settles(q, k, first, last) == Says(q, k, last) \/ (Silent(q, k) /\ first = last)

(* A prop has been spawned, or destroyed, last: in the world of a process, *)
(* and in truth. *)
Done(p, k) == IF k \in world[p] THEN "spawn" ELSE "destroy"
InHand(k) == \E p \in Peers : k \in inventory[p]
Truth(k) == IF k \in fresh \/ InHand(k) THEN "destroy" ELSE "spawn"

UpSilent(k) == \A c \in SyncClients : Silent(up[c], k)

(* The truth of a prop is known to who made it, is the last that was sent  *)
(* of it, and is what every world comes to. *)
KeyInv(k) ==
    /\ \A c \in SyncClients : Settles(up[c], k, Truth(k), Truth(k))
    /\ UpSilent(k) => Settles(inbox, k, Done(Host, k), Truth(k))
    /\ UpSilent(k) => \A d \in joined : Settles(down[d], k, Done(d, k), Truth(k))
    /\ \A d \in joined, m \in InFlight : m.key = k /\ m.from = d => Done(d, k) = Truth(k)

SyncInv ==
    /\ SyncTyped /\ UnderWayAllowed /\ Senders /\ OneOrigin /\ HostsAlone /\ InOneHand
    /\ \A k \in Keys : KeyInv(k)

-----------------------------------------------------------------------------
(* Channels.                                                               *)

(* A message that is appended has the last word.                           *)
LEMMA AppendSettles ==
    ASSUME NEW q \in Seq(Messages), NEW m \in Messages
    PROVE  \A k, first, last :
              /\ m.key = k /\ m.kind = last => Settles(Append(q, m), k, first, last)
              /\ m.key # k /\ Settles(q, k, first, last) =>
                    Settles(Append(q, m), k, first, last)
              /\ Silent(Append(q, m), k) <=> Silent(q, k) /\ m.key # k
<1> DEFINE a == Append(q, m)
           n == Len(q)
<1>1. /\ n \in Nat /\ a \in Seq(Messages) /\ Len(a) = n + 1
      /\ \A i \in 1 .. n : a[i] = q[i]
      /\ a[n + 1] = m
  BY AppendProperties, LenProperties
<1>2. ToSet(a) = ToSet(q) \cup {m}
  BY AppendElements
<1> HIDE DEF a
<1> TAKE k, first, last
<1>3. Silent(a, k) <=> Silent(q, k) /\ m.key # k
  BY <1>2 DEF Silent
<1>4. m.key = k /\ m.kind = last => Says(a, k, last)
  BY <1>1 DEF Says
<1>5. m.key # k /\ Says(q, k, last) => Says(a, k, last)
  <2> SUFFICES ASSUME m.key # k, Says(q, k, last) PROVE Says(a, k, last)
    OBVIOUS
  <2>1. PICK i \in 1 .. n : /\ q[i].key = k /\ q[i].kind = last
                            /\ \A j \in i + 1 .. n : q[j].key # k
    BY DEF Says
  <2>2. a[i].key = k /\ a[i].kind = last
    BY <1>1, <2>1
  <2>3. \A j \in i + 1 .. n + 1 : a[j].key # k
    <3> TAKE j \in i + 1 .. n + 1
    <3>1. CASE j = n + 1
      BY <1>1, <3>1
    <3>2. CASE j # n + 1
      BY <1>1, <2>1, <3>2
    <3>3. QED
      BY <3>1, <3>2
  <2>4. i \in 1 .. n + 1
    BY <1>1, <2>1
  <2>5. QED
    BY <1>1, <2>2, <2>3, <2>4 DEF Says
<1>6. QED
  BY <1>3, <1>4, <1>5 DEF Settles, a

LEMMA TailSettles ==
    ASSUME NEW q \in Seq(Messages), q # <<>>
    PROVE  \A k, first, last :
              /\ Head(q).key = k /\ Settles(q, k, first, last) =>
                    Settles(Tail(q), k, Head(q).kind, last)
              /\ Head(q).key # k /\ Settles(q, k, first, last) =>
                    Settles(Tail(q), k, first, last)
              /\ Silent(q, k) <=> Silent(Tail(q), k) /\ Head(q).key # k
<1> DEFINE t == Tail(q)
           n == Len(q)
<1>1. /\ n \in Nat \ {0} /\ t \in Seq(Messages) /\ Len(t) = n - 1
      /\ \A i \in 1 .. n - 1 : t[i] = q[i + 1]
      /\ Head(q) = q[1]
  BY HeadTailProperties, EmptySeq
<1>2. ToSet(q) = {Head(q)} \cup ToSet(t)
  BY TailElements
<1> HIDE DEF t
<1> TAKE k, first, last
<1>3. Silent(q, k) <=> Silent(t, k) /\ Head(q).key # k
  BY <1>2 DEF Silent
<1>4. ASSUME Says(q, k, last)
      PROVE  Says(t, k, last) \/ (Silent(t, k) /\ Head(q).key = k /\ Head(q).kind = last)
  <2>1. PICK i \in 1 .. n : /\ q[i].key = k /\ q[i].kind = last
                            /\ \A j \in i + 1 .. n : q[j].key # k
    BY <1>4 DEF Says
  <2>2. CASE i = 1
    <3>1. \A j \in 1 .. n - 1 : t[j].key # k
      BY <1>1, <2>1, <2>2
    <3>2. \A m \in ToSet(t) : \E j \in 1 .. n - 1 : m = t[j]
      BY <1>1, LenProperties DEF ToSet
    <3>3. QED
      BY <1>1, <2>1, <2>2, <3>1, <3>2 DEF Silent
  <2>3. CASE i # 1
    <3>1. i - 1 \in 1 .. n - 1 /\ t[i - 1] = q[i]
      BY <1>1, <2>1, <2>3
    <3>2. \A j \in i .. n - 1 : t[j].key # k
      BY <1>1, <2>1, <2>3
    <3>3. QED
      BY <1>1, <2>1, <3>1, <3>2 DEF Says
  <2>4. QED
    BY <2>2, <2>3
<1>5. QED
  BY <1>3, <1>4 DEF Settles, t

LEMMA SilentSettles ==
    ASSUME NEW q \in Seq(Messages), NEW k, NEW first, NEW last, Silent(q, k)
    PROVE  Settles(q, k, first, last) <=> first = last
<1>1. ASSUME NEW i \in 1 .. Len(q) PROVE q[i] \in ToSet(q)
  BY LenProperties DEF ToSet
<1>2. QED
  BY <1>1 DEF Settles, Says, Silent

(* All reliable kinds that matter here share a lane: what is next is the   *)
(* first. *)
LEMMA LanesKeepOrder ==
    ASSUME NEW q \in Seq(Messages), NEW i \in FirstOfLane(q)
    PROVE  /\ q # <<>> /\ Head(q) \in Messages /\ Tail(q) \in Seq(Messages)
           /\ q[i] = Head(q)
           /\ RemoveAt(q, i) = Tail(q)
<1>1. i \in 1 .. Len(q) /\ \A j \in 1 .. i - 1 : LaneForKind(q[j]) # LaneForKind(q[i])
  BY DEF FirstOfLane
<1>2. Len(q) \in Nat
  BY LenProperties
<1>3. i = 1
  <2>1. ASSUME i # 1 PROVE FALSE
    <3>1. 1 \in 1 .. i - 1
      BY <1>1, <1>2, <2>1
    <3>2. QED
      BY <1>1, <3>1 DEF LaneForKind
  <2>2. QED
    BY <2>1
<1>4. q # <<>>
  BY <1>1, <1>2, <1>3, EmptySeq
<1>5. /\ Head(q) \in Messages /\ Tail(q) \in Seq(Messages)
      /\ Tail(q) = SubSeq(q, 2, Len(q)) /\ Head(q) = q[1]
  BY <1>4, HeadTailProperties, TailIsSubSeq
<1>6. SubSeq(q, 1, 1 - 1) = <<>>
  BY SubSeqEmpty
<1>7. RemoveAt(q, 1) = Tail(q)
  BY <1>5, <1>6, ConcatEmptySeq DEF RemoveAt
<1>8. QED
  BY <1>3, <1>4, <1>5, <1>7

LEMMA InFlightIs ==
    \A m : m \in InFlight <=>
        \/ \E c \in SyncClients : m \in ToSet(up[c]) \/ m \in ToSet(down[c])
        \/ m \in ToSet(inbox)
<1> DEFINE Here(c) == ToSet(up[c]) \cup ToSet(down[c])
           There == {Here(c) : c \in SyncClients}
<1>1. InFlight = UNION (There \cup {ToSet(inbox)})
  BY DEF InFlight
<1>2. \A S : S \in There <=> \E c \in SyncClients : S = Here(c)
  OBVIOUS
<1> HIDE DEF Here, There
<1>3. \A m : m \in InFlight <=> m \in ToSet(inbox) \/ \E c \in SyncClients : m \in Here(c)
  BY <1>1, <1>2
<1>4. QED
  BY <1>3 DEF Here

LEMMA InFlightNext ==
    \A m : m \in InFlight' <=>
        \/ \E c \in SyncClients : m \in ToSet(up'[c]) \/ m \in ToSet(down'[c])
        \/ m \in ToSet(inbox')
<1> DEFINE Here(c) == ToSet(up'[c]) \cup ToSet(down'[c])
           There == {Here(c) : c \in SyncClients}
<1>1. InFlight' = UNION (There \cup {ToSet(inbox')})
  BY DEF InFlight
<1>2. \A S : S \in There <=> \E c \in SyncClients : S = Here(c)
  OBVIOUS
<1> HIDE DEF Here, There
<1>3. \A m : m \in InFlight' <=> m \in ToSet(inbox') \/ \E c \in SyncClients : m \in Here(c)
  BY <1>1, <1>2
<1>4. QED
  BY <1>3 DEF Here

LEMMA MessageIn ==
    ASSUME NEW kind \in {"spawn", "destroy"}, NEW k \in Keys, NEW p \in Peers
    PROVE  LET m == Message(kind, k, RangeOf(p), p) IN
           /\ m \in Messages /\ Allowed(m)
           /\ m.kind = kind /\ m.key = k /\ m.from = p
BY DEF Message, Messages, Allowed, RangeOf

LEMMA PeersAre ==
    /\ Host \in Peers /\ Host \notin SyncClients
    /\ \A c \in SyncClients : c \in Peers /\ c # Host
    /\ \A p \in Peers : p = Host \/ p \in SyncClients
BY PropSyncAssumption DEF Peers, Host

LEMMA BroadcastOne ==
    ASSUME SyncTyped, NEW p \in Peers, NEW m \in Messages, Broadcast(p, <<m>>)
    PROVE  /\ up' \in [SyncClients -> Seq(Messages)]
           /\ down' \in [SyncClients -> Seq(Messages)]
           /\ \A c \in SyncClients :
                /\ c = p => up'[c] = Append(up[c], m)
                /\ c # p => up'[c] = up[c]
                /\ p = Host /\ c \in joined => down'[c] = Append(down[c], m)
                /\ ~ (p = Host /\ c \in joined) => down'[c] = down[c]
<1>1. \A q \in Seq(Messages) : q \o <<m>> = Append(q, m) /\ Append(q, m) \in Seq(Messages)
  BY AppendAsConcat, AppendProperties
<1>2. \A c \in SyncClients : up[c] \in Seq(Messages) /\ down[c] \in Seq(Messages)
  BY DEF SyncTyped
<1>3. CASE p = Host
  <2>1. /\ down' = [c \in SyncClients |->
                      IF c \in joined THEN down[c] \o <<m>> ELSE down[c]]
        /\ up' = up
    BY <1>3 DEF Broadcast
  <2>2. QED
    BY <1>1, <1>2, <1>3, <2>1, PeersAre DEF SyncTyped
<1>4. CASE p # Host
  <2>1. up' = [up EXCEPT ![p] = up[p] \o <<m>>] /\ down' = down
    BY <1>4 DEF Broadcast
  <2>2. p \in SyncClients
    BY <1>4, PeersAre
  <2>3. QED
    BY <1>1, <1>2, <1>4, <2>1, <2>2 DEF SyncTyped
<1>5. QED
  BY <1>3, <1>4

LEMMA BroadcastNothing ==
    ASSUME SyncTyped, Broadcast(Host, <<>>)
    PROVE  up' = up /\ down' = down
<1>1. /\ down' = [c \in SyncClients |-> IF c \in joined THEN down[c] \o <<>> ELSE down[c]]
      /\ up' = up
  BY DEF Broadcast
<1>2. \A c \in SyncClients : down[c] \o <<>> = down[c]
  BY ConcatEmptySeq DEF SyncTyped
<1>3. QED
  BY <1>1, <1>2 DEF SyncTyped

-----------------------------------------------------------------------------
(* What somebody does to a prop.                                           *)

(* What has been last done to a prop, as far as its maker p can tell.      *)
LEMMA MakerKnows ==
    ASSUME SyncInv, NEW k \in Keys, NEW p \in joined \cup {Host}, Undisputed(p, k)
    PROVE  Done(p, k) = Truth(k)
<1> USE PeersAre
<1>1. \A m \in InFlight : m.key = k => m.from = p
  BY DEF Undisputed
<1>2. joined \subseteq SyncClients
  BY DEF SyncInv, SyncTyped
<1>3. CASE p # Host /\ \E m \in InFlight : m.key = k
  BY <1>1, <1>3 DEF SyncInv, KeyInv
<1>4. CASE p = Host \/ \A m \in InFlight : m.key # k
  <2>1. UpSilent(k)
    BY <1>1, <1>4, InFlightIs DEF SyncInv, Senders, UpSilent, Silent
  <2>2. CASE p = Host
    <3>1. Silent(inbox, k)
      BY <1>1, <2>2, InFlightIs DEF SyncInv, Senders, Silent
    <3>2. Settles(inbox, k, Done(Host, k), Truth(k))
      BY <2>1 DEF SyncInv, KeyInv
    <3>3. QED
      BY <2>2, <3>1, <3>2, SilentSettles DEF SyncInv, SyncTyped
  <2>3. CASE p # Host
    <3>1. p \in SyncClients /\ p \in joined
      BY <1>2, <2>3
    <3>2. Silent(down[p], k)
      BY <1>4, <2>3, <3>1, InFlightIs DEF Silent
    <3>3. Settles(down[p], k, Done(p, k), Truth(k))
      BY <2>1, <3>1 DEF SyncInv, KeyInv
    <3>4. down[p] \in Seq(Messages)
      BY <3>1 DEF SyncInv, SyncTyped
    <3>5. QED
      BY <3>2, <3>3, <3>4, SilentSettles
  <2>4. QED
    BY <2>2, <2>3
<1>5. QED
  BY <1>3, <1>4

(* News of a prop, sent by the one who made it true.                       *)
LEMMA TellingKeeps ==
    ASSUME SyncInv, NEW k \in Keys, NEW p \in joined \cup {Host}, Undisputed(p, k),
           NEW kind \in {"spawn", "destroy"},
           Broadcast(p, <<Message(kind, k, RangeOf(p), p)>>),
           joined' = joined, inbox' = inbox,
           fresh' \subseteq fresh, k \notin fresh',
           \A q \in Peers, j \in Keys : q # p \/ j # k => Done(q, j)' = Done(q, j),
           \A j \in Keys : j # k => Truth(j)' = Truth(j),
           Done(p, k)' = kind, Truth(k)' = kind
    PROVE  /\ up' \in [SyncClients -> Seq(Messages)]
           /\ down' \in [SyncClients -> Seq(Messages)]
           /\ \A m \in InFlight' : m \in InFlight \/ m = Message(kind, k, RangeOf(p), p)
           /\ UnderWayAllowed' /\ Senders' /\ OneOrigin'
           /\ \A j \in Keys : KeyInv(j)'
<1> DEFINE msg == Message(kind, k, RangeOf(p), p)
           With(q) == Append(q, msg)
<1> USE PeersAre
<1>1. SyncTyped /\ UnderWayAllowed /\ Senders /\ OneOrigin
  BY DEF SyncInv
<1>2. joined \subseteq SyncClients /\ p \in Peers
  BY <1>1 DEF SyncTyped
<1>3. /\ msg \in Messages /\ Allowed(msg)
      /\ msg.kind = kind /\ msg.key = k /\ msg.from = p
  BY <1>2, MessageIn
<1>4. Broadcast(p, <<msg>>)
  OBVIOUS
<1> HIDE DEF msg
<1>5. /\ up' \in [SyncClients -> Seq(Messages)]
      /\ down' \in [SyncClients -> Seq(Messages)]
      /\ \A c \in SyncClients :
           /\ c = p => up'[c] = With(up[c])
           /\ c # p => up'[c] = up[c]
           /\ p = Host /\ c \in joined => down'[c] = With(down[c])
           /\ ~ (p = Host /\ c \in joined) => down'[c] = down[c]
  BY <1>1, <1>2, <1>3, <1>4, BroadcastOne
<1>6. \A c \in SyncClients : up[c] \in Seq(Messages) /\ down[c] \in Seq(Messages)
  BY <1>1 DEF SyncTyped
<1>7. \A q \in Seq(Messages) : ToSet(With(q)) = ToSet(q) \cup {msg}
  BY <1>3, AppendElements
<1> HIDE DEF With
<1>8. /\ \A c \in SyncClients : \A m : m \in ToSet(up'[c]) <=>
            m \in ToSet(up[c]) \/ (c = p /\ m = msg)
      /\ \A c \in SyncClients : \A m : m \in ToSet(down'[c]) <=>
            m \in ToSet(down[c]) \/ (p = Host /\ c \in joined /\ m = msg)
  BY <1>5, <1>6, <1>7
<1>9. ASSUME NEW m \in InFlight' PROVE m \in InFlight \/ m = msg
  BY <1>8, <1>9, InFlightIs, InFlightNext
<1>10. UnderWayAllowed'
  <2>1. \A m : Allowed(m)' <=> Allowed(m)
    BY DEF Allowed
  <2>2. QED
    BY <1>1, <1>3, <1>9, <2>1 DEF UnderWayAllowed
<1>11. Senders'
  BY <1>1, <1>3, <1>8 DEF Senders
<1>12. \A m \in InFlight : m.key = k => m.from = p
  BY DEF Undisputed
<1>13. OneOrigin'
  BY <1>1, <1>3, <1>9, <1>12 DEF OneOrigin
<1>14. ASSUME NEW j \in Keys PROVE KeyInv(j)'
  <2>1. KeyInv(j)
    BY DEF SyncInv
  <2>2. CASE j # k
    <3>1. Truth(j)' = Truth(j) /\ \A q \in Peers : Done(q, j)' = Done(q, j)
      BY <2>2
    <3>2. \A q \in Seq(Messages) :
            /\ \A first, last : Settles(q, j, first, last) => Settles(With(q), j, first, last)
            /\ Silent(With(q), j) <=> Silent(q, j)
      BY <1>3, <2>2, AppendSettles DEF With
    <3>3. ASSUME NEW c \in SyncClients PROVE Silent(up'[c], j) <=> Silent(up[c], j)
      <4>1. CASE c = p
        BY <1>5, <1>6, <3>2, <4>1
      <4>2. CASE c # p
        BY <1>5, <4>2
      <4>3. QED
        BY <4>1, <4>2
    <3>4. UpSilent(j)' <=> UpSilent(j)
      BY <3>3 DEF UpSilent
    <3>5. ASSUME NEW c \in SyncClients, NEW first, NEW last
          PROVE  /\ Settles(up[c], j, first, last) => Settles(up'[c], j, first, last)
                 /\ Settles(down[c], j, first, last) => Settles(down'[c], j, first, last)
      <4>1. up'[c] = up[c] \/ up'[c] = With(up[c])
        BY <1>5
      <4>2. down'[c] = down[c] \/ down'[c] = With(down[c])
        BY <1>5
      <4>3. QED
        BY <1>6, <3>2, <4>1, <4>2
    <3>6. \A m \in InFlight' : m.key = j => m \in InFlight
      BY <1>3, <1>9, <2>2
    <3>7. QED
      BY <1>2, <2>1, <3>1, <3>4, <3>5, <3>6 DEF KeyInv
  <2>3. CASE j = k
    <3>1. \A q \in Seq(Messages) : \A first, last :
            /\ last = kind => Settles(With(q), j, first, last)
            /\ ~ Silent(With(q), j)
      BY <1>3, <2>3, AppendSettles DEF With
    <3>2. \A c \in SyncClients : c # p => Silent(up[c], j)
      BY <1>1, <1>12, <2>3, InFlightIs DEF Senders, Silent
    <3>3. \A q \in Seq(Messages) : Silent(q, j) => Settles(q, j, kind, kind)
      BY DEF Settles
    <3>4. \A c \in SyncClients : Settles(up'[c], j, kind, kind)
      BY <1>5, <1>6, <3>1, <3>2, <3>3
    <3>5. ASSUME UpSilent(j)'
          PROVE  /\ Settles(inbox', j, kind, kind)
                 /\ \A d \in joined : Settles(down'[d], j, Done(d, j)', kind)
      <4>1. p = Host
        BY <1>2, <1>5, <1>6, <3>1, <3>5 DEF UpSilent
      <4>2. Silent(inbox, j)
        BY <1>1, <1>12, <2>3, <4>1, InFlightIs DEF Senders, Silent
      <4>3. ASSUME NEW d \in joined PROVE Settles(down'[d], j, Done(d, j)', kind)
        <5>1. down'[d] = With(down[d]) /\ down[d] \in Seq(Messages)
          BY <1>2, <1>5, <1>6, <4>1
        <5>2. QED
          BY <3>1, <5>1
      <4>4. inbox' \in Seq(Messages)
        BY <1>1 DEF SyncTyped
      <4>5. QED
        BY <3>3, <4>2, <4>3, <4>4
    <3>6. ASSUME NEW d \in joined, NEW m \in InFlight', m.key = j, m.from = d
          PROVE  d = p
      BY <1>3, <1>9, <1>12, <2>3, <3>6
    <3>7. Truth(j)' = kind /\ Done(p, j)' = kind
      BY <2>3
    <3>8. UpSilent(j)' => Settles(inbox', j, Done(Host, j)', kind)
      <4>1. UpSilent(j)' => p = Host
        BY <1>2, <1>5, <1>6, <3>1 DEF UpSilent
      <4>2. QED
        BY <3>5, <3>7, <4>1
    <3>9. QED
      BY <3>4, <3>5, <3>6, <3>7, <3>8 DEF KeyInv
  <2>4. QED
    BY <2>2, <2>3
<1>15. QED
  BY <1>5, <1>9, <1>10, <1>11, <1>13, <1>14 DEF msg

-----------------------------------------------------------------------------
(* The steps.                                                              *)

LEMMA SyncInitially == SyncInit => SyncInv
<1> SUFFICES ASSUME SyncInit PROVE SyncInv
  OBVIOUS
<1> USE PeersAre DEF SyncInit
<1>1. <<>> \in Seq(Messages) /\ ToSet(<<>>) = {}
  BY EmptySeq DEF ToSet
<1>2. SyncTyped
  BY <1>1, PropSyncAssumption, FS_EmptySet DEF SyncTyped
<1>3. \A m : m \notin InFlight
  BY <1>1, InFlightIs
<1>4. UnderWayAllowed /\ Senders /\ OneOrigin /\ HostsAlone /\ InOneHand
  BY <1>1, <1>3 DEF UnderWayAllowed, Senders, OneOrigin, HostsAlone, InOneHand
<1>5. ASSUME NEW k \in Keys PROVE KeyInv(k)
  <2>1. Silent(inbox, k) /\ \A c \in SyncClients : Silent(up[c], k)
    BY <1>1 DEF Silent
  <2>2. Done(Host, k) = Truth(k)
    BY DEF Done, Truth, InHand
  <2>3. QED
    BY <1>3, <2>1, <2>2 DEF KeyInv, Settles
<1>6. QED
  BY <1>2, <1>4, <1>5 DEF SyncInv

LEMMA SpawnKeeps ==
    ASSUME SyncInv, ~ DropsBeforeJoin, NEW p \in Peers, NEW k \in Keys, Spawn(p, k)
    PROVE  SyncInv'
<1> USE PeersAre
<1>1. SyncTyped /\ UnderWayAllowed /\ HostsAlone /\ InOneHand
  BY DEF SyncInv
<1>2. /\ k \in fresh /\ fresh' = fresh \ {k}
      /\ p \in joined \cup {Host} /\ (p # Host => joined = SyncClients)
      /\ world' = [world EXCEPT ![p] = world[p] \cup {k}]
      /\ own' = [own EXCEPT ![p] = own[p] \cup {k}]
      /\ UNCHANGED <<joined, mirrored, inventory, inbox>>
      /\ Broadcast(p, <<Message("spawn", k, RangeOf(p), p)>>)
  BY DEF Spawn, InitSends
<1>3. Undisputed(p, k)
  BY <1>1, <1>2 DEF Undisputed, UnderWayAllowed
<1>4. \A q \in Peers, j \in Keys : q # p \/ j # k => Done(q, j)' = Done(q, j)
  BY <1>1, <1>2 DEF SyncTyped, Done
<1>5. \A j \in Keys : j # k => Truth(j)' = Truth(j)
  BY <1>2 DEF Truth, InHand
<1>6. Done(p, k)' = "spawn" /\ Truth(k)' = "spawn"
  BY <1>1, <1>2 DEF SyncTyped, Done, Truth, InHand, InOneHand
<1>7. /\ up' \in [SyncClients -> Seq(Messages)]
      /\ down' \in [SyncClients -> Seq(Messages)]
      /\ \A m \in InFlight' : m \in InFlight \/ m = Message("spawn", k, RangeOf(p), p)
      /\ UnderWayAllowed' /\ Senders' /\ OneOrigin'
      /\ \A j \in Keys : KeyInv(j)'
  BY <1>2, <1>3, <1>4, <1>5, <1>6, TellingKeeps
<1>8. SyncTyped'
  <2>1. world' \in [Peers -> SUBSET Keys] /\ own' \in [Peers -> SUBSET Keys]
    BY <1>1, <1>2 DEF SyncTyped
  <2>2. \A q \in Peers : own'[q] \subseteq world'[q]
    BY <1>1, <1>2 DEF SyncTyped
  <2>3. IsFiniteSet(world'[Host])
    BY <1>1, <1>2, FS_AddElement DEF SyncTyped
  <2>4. QED
    BY <1>1, <1>2, <1>7, <2>1, <2>2, <2>3 DEF SyncTyped
<1>9. HostsAlone'
  <2>1. CASE p = Host
    <3>1. \A m \in InFlight' : m \in InFlight \/ m.from = Host
      BY <1>7, <2>1 DEF Message
    <3>2. own[Host] = world[Host] => own'[Host] = world'[Host]
      BY <1>1, <1>2 DEF SyncTyped
    <3>3. QED
      BY <1>1, <1>2, <3>1, <3>2 DEF HostsAlone
  <2>2. CASE p # Host
    BY <1>2, <2>2 DEF HostsAlone
  <2>3. QED
    BY <2>1, <2>2
<1>10. InOneHand'
  BY <1>1, <1>2 DEF InOneHand
<1>11. QED
  BY <1>7, <1>8, <1>9, <1>10 DEF SyncInv

LEMMA PickUpKeeps ==
    ASSUME SyncInv, OwnedOnly, NEW p \in Peers, NEW k \in Keys, PickUp(p, k)
    PROVE  SyncInv'
<1> USE PeersAre
<1>1. SyncTyped /\ UnderWayAllowed /\ HostsAlone /\ InOneHand
  BY DEF SyncInv
<1>2. /\ p \in joined \cup {Host} /\ k \in world[p] /\ k \in own[p]
      /\ Undisputed(p, k)
      /\ world' = [world EXCEPT ![p] = world[p] \ {k}]
      /\ own' = [own EXCEPT ![p] = own[p] \ {k}]
      /\ mirrored' = [mirrored EXCEPT ![p][k] = NoId]
      /\ inventory' = [inventory EXCEPT ![p] = inventory[p] \cup {k}]
      /\ UNCHANGED <<joined, fresh, inbox>>
      /\ Broadcast(p, <<Message("destroy", k, RangeOf(p), p)>>)
  BY DEF PickUp, DestroySends
<1>3. Truth(k) = "spawn"
  BY <1>2, MakerKnows DEF Done
<1>4. k \notin fresh /\ \A q \in Peers : k \notin inventory[q]
  BY <1>3 DEF Truth, InHand
<1>5. \A q \in Peers, j \in Keys : q # p \/ j # k => Done(q, j)' = Done(q, j)
  BY <1>1, <1>2 DEF SyncTyped, Done
<1>6. /\ \A q \in Peers, j \in Keys :
            j \in inventory'[q] <=> j \in inventory[q] \/ (q = p /\ j = k)
      /\ inventory' \in [Peers -> SUBSET Keys]
  BY <1>1, <1>2 DEF SyncTyped
<1>7. \A j \in Keys : j # k => Truth(j)' = Truth(j)
  BY <1>2, <1>6 DEF Truth, InHand
<1>8. Done(p, k)' = "destroy" /\ Truth(k)' = "destroy"
  BY <1>1, <1>2, <1>6 DEF SyncTyped, Done, Truth, InHand
<1>9. /\ up' \in [SyncClients -> Seq(Messages)]
      /\ down' \in [SyncClients -> Seq(Messages)]
      /\ \A m \in InFlight' : m \in InFlight \/ m = Message("destroy", k, RangeOf(p), p)
      /\ UnderWayAllowed' /\ Senders' /\ OneOrigin'
      /\ \A j \in Keys : KeyInv(j)'
  BY <1>2, <1>4, <1>5, <1>7, <1>8, TellingKeeps
<1>10. SyncTyped'
  <2>1. world' \in [Peers -> SUBSET Keys] /\ own' \in [Peers -> SUBSET Keys]
    BY <1>1, <1>2 DEF SyncTyped
  <2>2. \A q \in Peers : own'[q] \subseteq world'[q]
    BY <1>1, <1>2 DEF SyncTyped
  <2>3. mirrored' \in [Peers -> [Keys \cup {TempKey} -> {NoId, "host", "peer"}]]
    BY <1>1, <1>2 DEF SyncTyped
  <2>4. IsFiniteSet(world'[Host])
    BY <1>1, <1>2, FS_RemoveElement DEF SyncTyped
  <2>5. QED
    BY <1>1, <1>2, <1>6, <1>9, <2>1, <2>2, <2>3, <2>4 DEF SyncTyped
<1>11. HostsAlone'
  <2>1. \A m \in InFlight' : m.kind = "spawn" => m \in InFlight
    BY <1>9 DEF Message
  <2>2. own[Host] = world[Host] => own'[Host] = world'[Host]
    BY <1>1, <1>2 DEF SyncTyped
  <2>3. QED
    BY <1>1, <1>2, <2>1, <2>2 DEF HostsAlone
<1>12. InOneHand'
  BY <1>1, <1>2, <1>4, <1>6 DEF InOneHand
<1>13. QED
  BY <1>9, <1>10, <1>11, <1>12 DEF SyncInv

LEMMA TakeObjKeeps ==
    ASSUME SyncInv, ~ DropsBeforeJoin, NEW p \in Peers, NEW k \in Keys, TakeObj(p, k)
    PROVE  SyncInv'
<1> USE PeersAre
<1>1. SyncTyped /\ UnderWayAllowed /\ HostsAlone /\ InOneHand
  BY DEF SyncInv
<1>2. /\ k \in inventory[p] /\ Undisputed(p, k)
      /\ p # Host => joined = SyncClients
      /\ inventory' = [inventory EXCEPT ![p] = inventory[p] \ {k}]
      /\ world' = [world EXCEPT ![p] = world[p] \cup {k}]
      /\ own' = [own EXCEPT ![p] = own[p] \cup {k}]
      /\ UNCHANGED <<joined, mirrored, fresh, inbox>>
      /\ Broadcast(p, <<Message("spawn", k, RangeOf(p), p)>>)
  <2>1. Append(InitSends(p, TempKey, FALSE, TRUE), Message("spawn", k, RangeOf(p), p))
            = <<Message("spawn", k, RangeOf(p), p)>>
    BY DEF InitSends
  <2>2. QED
    BY <2>1 DEF TakeObj
<1>3. p \in joined \cup {Host}
  BY <1>2
<1>4. \A q \in Peers, j \in Keys : q # p \/ j # k => Done(q, j)' = Done(q, j)
  BY <1>1, <1>2 DEF SyncTyped, Done
<1>5. /\ \A q \in Peers, j \in Keys :
            j \in inventory'[q] <=> j \in inventory[q] /\ ~ (q = p /\ j = k)
      /\ inventory' \in [Peers -> SUBSET Keys]
  BY <1>1, <1>2 DEF SyncTyped
<1>6. k \notin fresh /\ \A q \in Peers : k \notin inventory'[q]
  BY <1>1, <1>2, <1>5 DEF InOneHand
<1>7. \A j \in Keys : j # k => Truth(j)' = Truth(j)
  BY <1>2, <1>5 DEF Truth, InHand
<1>8. Done(p, k)' = "spawn" /\ Truth(k)' = "spawn"
  BY <1>1, <1>2, <1>6 DEF SyncTyped, Done, Truth, InHand
<1>9. /\ up' \in [SyncClients -> Seq(Messages)]
      /\ down' \in [SyncClients -> Seq(Messages)]
      /\ \A m \in InFlight' : m \in InFlight \/ m = Message("spawn", k, RangeOf(p), p)
      /\ UnderWayAllowed' /\ Senders' /\ OneOrigin'
      /\ \A j \in Keys : KeyInv(j)'
  BY <1>2, <1>3, <1>4, <1>6, <1>7, <1>8, TellingKeeps
<1>10. SyncTyped'
  <2>1. world' \in [Peers -> SUBSET Keys] /\ own' \in [Peers -> SUBSET Keys]
    BY <1>1, <1>2 DEF SyncTyped
  <2>2. \A q \in Peers : own'[q] \subseteq world'[q]
    BY <1>1, <1>2 DEF SyncTyped
  <2>3. IsFiniteSet(world'[Host])
    BY <1>1, <1>2, FS_AddElement DEF SyncTyped
  <2>4. QED
    BY <1>1, <1>2, <1>5, <1>9, <2>1, <2>2, <2>3 DEF SyncTyped
<1>11. HostsAlone'
  <2>1. CASE p = Host
    <3>1. \A m \in InFlight' : m \in InFlight \/ m.from = Host
      BY <1>9, <2>1 DEF Message
    <3>2. own[Host] = world[Host] => own'[Host] = world'[Host]
      BY <1>1, <1>2 DEF SyncTyped
    <3>3. QED
      BY <1>1, <1>2, <3>1, <3>2 DEF HostsAlone
  <2>2. CASE p # Host
    BY <1>2, <2>2 DEF HostsAlone
  <2>3. QED
    BY <2>1, <2>2
<1>12. InOneHand'
  BY <1>1, <1>2, <1>5 DEF InOneHand
<1>13. QED
  BY <1>9, <1>10, <1>11, <1>12 DEF SyncInv

(* A client that joins is sent each prop of the host's world once.         *)
LEMMA SnapshotSays ==
    ASSUME NEW S \in SUBSET Keys, IsFiniteSet(S),
           NEW q, DOMAIN q = 1 .. Len(SetToSeq(S)), q = [i \in DOMAIN q |-> q[i]],
           \A i \in DOMAIN q : q[i] = Message("spawn", SetToSeq(S)[i], "host", Host)
    PROVE  /\ q \in Seq(Messages)
           /\ \A m \in ToSet(q) : m.kind = "spawn" /\ m.key \in S /\ m.id = "host" /\ m.from = Host
           /\ \A k \in S : Says(q, k, "spawn")
<1> DEFINE keys == SetToSeq(S)
<1>1. keys \in Seq(S) /\ ToSet(keys) = S /\ IsInjective(keys)
  BY SetToSeqElements
<1> HIDE DEF keys
<1>2. /\ Len(keys) \in Nat /\ DOMAIN keys = 1 .. Len(keys)
      /\ \A i \in 1 .. Len(keys) : keys[i] \in S
  BY <1>1, LenProperties, ElementOfSeq
<1>3. /\ DOMAIN q = 1 .. Len(keys)
      /\ \A i \in 1 .. Len(keys) : q[i] = Message("spawn", keys[i], "host", Host)
  BY DEF keys
<1>4. \A i \in 1 .. Len(keys) :
          /\ q[i] \in Messages /\ q[i].kind = "spawn" /\ q[i].key = keys[i]
          /\ q[i].id = "host" /\ q[i].from = Host
  <2> TAKE i \in 1 .. Len(keys)
  <2>1. keys[i] \in Keys
    BY <1>2
  <2>2. q[i] = [kind |-> "spawn", key |-> keys[i], id |-> "host", from |-> Host]
    BY <1>3 DEF Message
  <2>3. QED
    BY <2>1, <2>2, PeersAre DEF Messages
<1>5. q \in [1 .. Len(keys) -> Messages]
  BY <1>4 DEF keys
<1>6. q \in Seq(Messages) /\ Len(q) = Len(keys)
  <2>1. q \in Seq(Messages)
    BY <1>2, <1>5, SeqDef
  <2>2. QED
    BY <1>2, <1>3, <2>1, LenProperties
<1>7. \A m \in ToSet(q) : m.kind = "spawn" /\ m.key \in S /\ m.id = "host" /\ m.from = Host
  BY <1>2, <1>3, <1>4 DEF ToSet
<1>8. ASSUME NEW k \in S PROVE Says(q, k, "spawn")
  <2>1. PICK i \in 1 .. Len(keys) : keys[i] = k
    BY <1>1, <1>2 DEF ToSet
  <2>2. \A j \in 1 .. Len(keys) : keys[j] = k => j = i
    BY <1>1, <1>2, <2>1 DEF IsInjective
  <2>3. \A j \in i + 1 .. Len(q) : j \in 1 .. Len(keys) /\ j # i
    BY <1>2, <1>6
  <2>4. \A j \in i + 1 .. Len(q) : q[j].key # k
    BY <1>4, <2>2, <2>3
  <2>5. QED
    BY <1>4, <1>6, <2>1, <2>4 DEF Says
<1>9. QED
  BY <1>6, <1>7, <1>8

LEMMA JoinKeeps ==
    ASSUME SyncInv, ~ DropsBeforeJoin, NEW c \in SyncClients, Join(c)
    PROVE  SyncInv'
<1> USE PeersAre
<1>1. SyncTyped /\ UnderWayAllowed /\ Senders /\ OneOrigin /\ HostsAlone /\ InOneHand
  BY DEF SyncInv
<1>2. PICK found \in SUBSET (Seeded \cap world[Host]) :
          /\ world' = [world EXCEPT ![c] = found]
          /\ own' = [own EXCEPT ![c] = found]
  BY DEF Join
<1>3. /\ c \notin joined /\ joined' = joined \cup {c}
      /\ \A m \in InFlight : m.from = Host
      /\ UNCHANGED <<mirrored, fresh, inventory, up, inbox>>
  BY DEF Join
<1>4. own[Host] = world[Host]
  BY <1>1, <1>3 DEF HostsAlone
<1> DEFINE S == world[Host]
           q == [i \in 1 .. Len(SetToSeq(S)) |-> Message("spawn", SetToSeq(S)[i], "host", Host)]
<1>5. down' = [down EXCEPT ![c] = q]
  <2> DEFINE told == {k \in world[Host] : k \in own[Host] \/ mirrored[Host][k] # NoId}
             id(k) == IF k \in own[Host] THEN RangeOf(Host) ELSE mirrored[Host][k]
             keys == SetToSeq(told)
  <2>1. told = S
    BY <1>4
  <2>2. down' = [down EXCEPT ![c] =
                   [i \in 1 .. Len(keys) |-> Message("spawn", keys[i], id(keys[i]), Host)]]
    BY DEF Join
  <2>3. S \in SUBSET Keys /\ IsFiniteSet(S)
    BY <1>1 DEF SyncTyped
  <2>4. keys = SetToSeq(S)
    BY <2>1
  <2> HIDE DEF told, keys
  <2>5. \A i \in 1 .. Len(keys) : keys[i] \in S
    BY <2>3, <2>4, SetToSeqElements, ElementOfSeq
  <2>6. \A i \in 1 .. Len(keys) : id(keys[i]) = "host"
    BY <1>4, <2>5 DEF RangeOf
  <2> HIDE DEF id
  <2>7. QED
    BY <2>2, <2>4, <2>6
<1>6. S \in SUBSET Keys /\ IsFiniteSet(S)
  BY <1>1 DEF SyncTyped
<1>7. /\ q \in Seq(Messages)
      /\ \A m \in ToSet(q) : m.kind = "spawn" /\ m.key \in S /\ m.id = "host" /\ m.from = Host
      /\ \A k \in S : Says(q, k, "spawn")
  <2>1. /\ DOMAIN q = 1 .. Len(SetToSeq(S)) /\ q = [i \in DOMAIN q |-> q[i]]
        /\ \A i \in DOMAIN q : q[i] = Message("spawn", SetToSeq(S)[i], "host", Host)
    OBVIOUS
  <2> HIDE DEF q, S
  <2>2. QED
    BY <1>6, <2>1, SnapshotSays
<1> HIDE DEF q
<1>8. /\ down'[c] = q
      /\ \A d \in SyncClients : d # c => down'[d] = down[d]
      /\ down' \in [SyncClients -> Seq(Messages)]
  BY <1>1, <1>5, <1>7 DEF SyncTyped
<1>9. \A m \in InFlight' : m \in InFlight \/ m \in ToSet(q)
  BY <1>3, <1>8, InFlightIs, InFlightNext
<1>10. ASSUME NEW k \in Keys
       PROVE  /\ UpSilent(k) /\ Silent(inbox, k)
              /\ Done(Host, k) = Truth(k)
  <2>1. UpSilent(k) /\ Silent(inbox, k)
    BY <1>1, <1>3, InFlightIs DEF Senders, UpSilent, Silent
  <2>2. Settles(inbox, k, Done(Host, k), Truth(k)) /\ inbox \in Seq(Messages)
    BY <1>1, <2>1 DEF SyncInv, KeyInv, SyncTyped
  <2>3. QED
    BY <2>1, <2>2, SilentSettles
<1>11. \A k \in S : k \notin fresh
  BY <1>6, <1>10 DEF Done, Truth
<1>12. SyncTyped'
  <2>1. world' \in [Peers -> SUBSET Keys] /\ own' \in [Peers -> SUBSET Keys]
    BY <1>1, <1>2, <1>6 DEF SyncTyped
  <2>2. \A p \in Peers : own'[p] \subseteq world'[p]
    BY <1>1, <1>2 DEF SyncTyped
  <2>3. world'[Host] = world[Host]
    BY <1>1, <1>2 DEF SyncTyped
  <2>4. QED
    BY <1>1, <1>3, <1>8, <2>1, <2>2, <2>3 DEF SyncTyped
<1>13. UnderWayAllowed'
  <2>1. \A m : Allowed(m)' <=> Allowed(m)
    BY DEF Allowed
  <2>2. \A m \in ToSet(q) : Allowed(m) /\ m.key \notin fresh
    BY <1>7, <1>11 DEF Allowed, RangeOf
  <2>3. QED
    BY <1>1, <1>3, <1>9, <2>1, <2>2 DEF UnderWayAllowed
<1>14. Senders'
  BY <1>1, <1>3, <1>7, <1>8 DEF Senders
<1>15. OneOrigin'
  BY <1>3, <1>7, <1>9 DEF OneOrigin
<1>16. HostsAlone'
  <2>1. own'[Host] = world'[Host]
    BY <1>1, <1>2, <1>4 DEF SyncTyped
  <2>2. QED
    BY <1>3, <1>7, <1>9, <2>1 DEF HostsAlone
<1>17. InOneHand'
  BY <1>1, <1>3 DEF InOneHand
<1>18. ASSUME NEW k \in Keys PROVE KeyInv(k)'
  <2>1. Truth(k)' = Truth(k)
    BY <1>3 DEF Truth, InHand
  <2>2. \A p \in Peers : p # c => Done(p, k)' = Done(p, k)
    BY <1>1, <1>2 DEF Done, SyncTyped
  <2>3. KeyInv(k) /\ UpSilent(k)
    BY <1>10 DEF SyncInv
  <2>4. Settles(q, k, Done(c, k)', Truth(k))
    <3>1. CASE k \in S
      <4>1. Truth(k) = "spawn"
        BY <1>10, <3>1 DEF Done
      <4>2. QED
        BY <1>7, <3>1, <4>1 DEF Settles
    <3>2. CASE k \notin S
      <4>1. Truth(k) = "destroy"
        BY <1>10, <3>2 DEF Done
      <4>2. Silent(q, k)
        BY <1>7, <3>2 DEF Silent
      <4>3. Done(c, k)' = "destroy"
        BY <1>1, <1>2, <3>2 DEF Done, SyncTyped
      <4>4. QED
        BY <4>1, <4>2, <4>3 DEF Settles
    <3>3. QED
      BY <3>1, <3>2
  <2>5. joined \subseteq SyncClients
    BY <1>1 DEF SyncTyped
  <2>6. \A d \in joined' : Settles(down'[d], k, Done(d, k)', Truth(k))
    BY <1>3, <1>8, <2>2, <2>3, <2>4, <2>5 DEF KeyInv
  <2>7. \A m \in InFlight' : m.from = Host
    BY <1>3, <1>7, <1>9
  <2>8. QED
    BY <1>3, <2>1, <2>2, <2>3, <2>5, <2>6, <2>7 DEF KeyInv
<1>19. QED
  BY <1>12, <1>13, <1>14, <1>15, <1>16, <1>17, <1>18 DEF SyncInv

(* Handling a message does to the prop what it says, and sends nothing.    *)
LEMMA HandlingDoes ==
    ASSUME SyncTyped, NEW p \in Peers, NEW m \in Messages, Allowed(m), Handle(p, m)
    PROVE  /\ world' \in [Peers -> SUBSET Keys] /\ own' \in [Peers -> SUBSET Keys]
           /\ \A q \in Peers : own'[q] \subseteq world'[q]
           /\ mirrored' \in [Peers -> [Keys \cup {TempKey} -> {NoId, "host", "peer"}]]
           /\ IsFiniteSet(world'[Host])
           /\ \A q \in Peers, k \in Keys : q # p \/ k # m.key => Done(q, k)' = Done(q, k)
           /\ \A k \in Keys : k = m.key => Done(p, k)' = m.kind
           /\ own[Host] = world[Host] /\ (p = Host => m.kind # "spawn") =>
                own'[Host] = world'[Host]
<1>1. m.kind \in {"spawn", "destroy"} /\ m.key \in Keys /\ m.id \in {"host", "peer"}
  BY DEF Messages
<1>2. CASE m.kind = "spawn"
  <2>1. /\ world' = [world EXCEPT ![p] = world[p] \cup {m.key}]
        /\ mirrored' = [mirrored EXCEPT ![p][m.key] = m.id]
        /\ own' = own
    BY <1>2 DEF Handle, Spawned
  <2>2. mirrored' \in [Peers -> [Keys \cup {TempKey} -> {NoId, "host", "peer"}]]
    BY <1>1, <2>1 DEF SyncTyped
  <2>3. IsFiniteSet(world'[Host])
    BY <2>1, FS_AddElement, PeersAre DEF SyncTyped
  <2>4. QED
    BY <1>1, <1>2, <2>1, <2>2, <2>3, PeersAre DEF SyncTyped, Done
<1>3. CASE m.kind = "destroy" /\ m.key \in world[p]
  <2>1. /\ world' = [world EXCEPT ![p] = world[p] \ {m.key}]
        /\ own' = [own EXCEPT ![p] = own[p] \ {m.key}]
        /\ mirrored' = [mirrored EXCEPT ![p][m.key] = NoId]
    BY <1>3 DEF Handle, Destroyed
  <2>2. mirrored' \in [Peers -> [Keys \cup {TempKey} -> {NoId, "host", "peer"}]]
    BY <1>1, <2>1 DEF SyncTyped
  <2>3. IsFiniteSet(world'[Host])
    BY <2>1, FS_RemoveElement, PeersAre DEF SyncTyped
  <2>4. QED
    BY <1>1, <1>3, <2>1, <2>2, <2>3, PeersAre DEF SyncTyped, Done
<1>4. CASE m.kind = "destroy" /\ m.key \notin world[p]
  <2>1. UNCHANGED <<world, own, mirrored>>
    BY <1>4 DEF Handle
  <2>2. QED
    BY <1>1, <1>4, <2>1 DEF SyncTyped, Done
<1>5. QED
  BY <1>1, <1>2, <1>3, <1>4

LEMMA NoEcho == ASSUME NEW p, NEW m PROVE Echo(p, m) = <<>>
BY DEF Echo, InitSends, DestroySends

LEMMA HostHandlesKeeps ==
    ASSUME SyncInv, HostHandles
    PROVE  SyncInv'
<1> DEFINE m == Head(inbox)
<1> USE PeersAre
<1>1. SyncTyped /\ UnderWayAllowed /\ Senders /\ OneOrigin /\ HostsAlone /\ InOneHand
  BY DEF SyncInv
<1>2. /\ inbox # <<>> /\ inbox' = Tail(inbox)
      /\ Handle(Host, m)
      /\ up' = up /\ down' = down
      /\ UNCHANGED <<joined, fresh, inventory>>
  BY <1>1, NoEcho, BroadcastNothing DEF HostHandles
<1>3. inbox \in Seq(Messages)
  BY <1>1 DEF SyncTyped
<1>4. /\ m \in Messages /\ Tail(inbox) \in Seq(Messages)
      /\ ToSet(inbox) = {m} \cup ToSet(inbox')
  BY <1>2, <1>3, TailElements
<1>5. \A k, first, last :
         /\ m.key = k /\ Settles(inbox, k, first, last) => Settles(inbox', k, m.kind, last)
         /\ m.key # k /\ Settles(inbox, k, first, last) => Settles(inbox', k, first, last)
  BY <1>2, <1>3, TailSettles
<1> HIDE DEF m
<1>6. \A n \in InFlight' : n \in InFlight
  BY <1>2, <1>4, InFlightIs, InFlightNext
<1>7. m \in InFlight /\ m.from # Host
  BY <1>1, <1>4, InFlightIs DEF Senders
<1>8. Allowed(m)
  BY <1>1, <1>7 DEF UnderWayAllowed
<1>9. /\ world' \in [Peers -> SUBSET Keys] /\ own' \in [Peers -> SUBSET Keys]
      /\ \A p \in Peers : own'[p] \subseteq world'[p]
      /\ mirrored' \in [Peers -> [Keys \cup {TempKey} -> {NoId, "host", "peer"}]]
      /\ IsFiniteSet(world'[Host])
      /\ \A p \in Peers, k \in Keys : p # Host \/ k # m.key => Done(p, k)' = Done(p, k)
      /\ \A k \in Keys : k = m.key => Done(Host, k)' = m.kind
      /\ own[Host] = world[Host] /\ m.kind # "spawn" => own'[Host] = world'[Host]
  <2>1. Handle(Host, m) /\ Host \in Peers
    BY <1>2
  <2>2. QED
    BY <1>1, <1>4, <1>8, <2>1, HandlingDoes
<1>10. SyncTyped'
  BY <1>1, <1>2, <1>4, <1>9 DEF SyncTyped
<1>11. UnderWayAllowed'
  <2>1. \A n : Allowed(n)' <=> Allowed(n)
    BY DEF Allowed
  <2>2. QED
    BY <1>1, <1>2, <1>6, <2>1 DEF UnderWayAllowed
<1>12. Senders' /\ OneOrigin' /\ InOneHand'
  BY <1>1, <1>2, <1>4, <1>6 DEF Senders, OneOrigin, InOneHand
<1>13. HostsAlone'
  BY <1>1, <1>2, <1>6, <1>7, <1>9 DEF HostsAlone
<1>14. ASSUME NEW k \in Keys PROVE KeyInv(k)'
  <2>1. KeyInv(k) /\ joined \subseteq SyncClients
    BY <1>1 DEF SyncInv, SyncTyped
  <2>2. Truth(k)' = Truth(k)
    BY <1>2 DEF Truth, InHand
  <2>3. UpSilent(k)' <=> UpSilent(k)
    BY <1>2 DEF UpSilent
  <2>4. UpSilent(k) => Settles(inbox', k, Done(Host, k)', Truth(k))
    <3> SUFFICES ASSUME UpSilent(k) PROVE Settles(inbox', k, Done(Host, k)', Truth(k))
      OBVIOUS
    <3>1. Settles(inbox, k, Done(Host, k), Truth(k))
      BY <2>1 DEF KeyInv
    <3>2. CASE m.key = k
      <4>1. Done(Host, k)' = m.kind
        BY <1>9, <3>2
      <4>2. QED
        BY <1>5, <3>1, <3>2, <4>1
    <3>3. CASE m.key # k
      <4>1. Done(Host, k)' = Done(Host, k)
        BY <1>9, <3>3
      <4>2. QED
        BY <1>5, <3>1, <3>3, <4>1
    <3>4. QED
      BY <3>2, <3>3
  <2>5. \A d \in joined : Done(d, k)' = Done(d, k)
    BY <1>9, <2>1
  <2>6. QED
    BY <1>2, <1>6, <2>1, <2>2, <2>3, <2>4, <2>5 DEF KeyInv
<1>15. QED
  BY <1>10, <1>11, <1>12, <1>13, <1>14 DEF SyncInv

LEMMA ClientHandlesKeeps ==
    ASSUME SyncInv, NEW c \in SyncClients, ClientHandles(c)
    PROVE  SyncInv'
<1> USE PeersAre
<1>1. SyncTyped /\ UnderWayAllowed /\ Senders /\ OneOrigin /\ HostsAlone /\ InOneHand
  BY DEF SyncInv
<1>2. down[c] \in Seq(Messages) /\ up[c] \in Seq(Messages)
  BY <1>1 DEF SyncTyped
<1>3. PICK m \in Messages :
          /\ down[c] # <<>> /\ m = Head(down[c]) /\ Tail(down[c]) \in Seq(Messages)
          /\ down' = [down EXCEPT ![c] = Tail(down[c])]
          /\ Handle(c, m)
          /\ up' = up
  <2>1. PICK i \in FirstOfLane(down[c]) :
            /\ down' = [down EXCEPT ![c] = RemoveAt(down[c], i)]
            /\ Handle(c, down[c][i])
            /\ up' = [up EXCEPT ![c] = up[c] \o Echo(c, down[c][i])]
    BY DEF ClientHandles
  <2>2. /\ down[c] # <<>> /\ Head(down[c]) \in Messages /\ Tail(down[c]) \in Seq(Messages)
        /\ down[c][i] = Head(down[c])
        /\ RemoveAt(down[c], i) = Tail(down[c])
    BY <1>2, LanesKeepOrder
  <2>3. up[c] \o Echo(c, down[c][i]) = up[c]
    BY <1>2, NoEcho, ConcatEmptySeq
  <2>4. up' = up
    BY <1>1, <2>1, <2>3 DEF SyncTyped
  <2>5. Handle(c, Head(down[c]))
    BY <2>1, <2>2
  <2>6. down' = [down EXCEPT ![c] = Tail(down[c])]
    BY <2>1, <2>2
  <2>7. QED
    BY <2>2, <2>4, <2>5, <2>6
<1>4. UNCHANGED <<joined, fresh, inventory, inbox>>
  BY DEF ClientHandles
<1>5. /\ down' \in [SyncClients -> Seq(Messages)]
      /\ \A d \in SyncClients : d # c => down'[d] = down[d]
      /\ down'[c] = Tail(down[c])
      /\ ToSet(down[c]) = {m} \cup ToSet(down'[c])
  <2>1. ToSet(down[c]) = {m} \cup ToSet(Tail(down[c]))
    BY <1>2, <1>3, TailElements
  <2>2. QED
    BY <1>1, <1>3, <2>1 DEF SyncTyped
<1>6. \A k, first, last :
         /\ m.key = k /\ Settles(down[c], k, first, last) =>
               Settles(down'[c], k, m.kind, last)
         /\ m.key # k /\ Settles(down[c], k, first, last) =>
               Settles(down'[c], k, first, last)
  BY <1>2, <1>3, <1>5, TailSettles
<1>7. \A n \in InFlight' : n \in InFlight
  <2>1. \A d \in SyncClients : \A n : n \in ToSet(down'[d]) => n \in ToSet(down[d])
    BY <1>5
  <2>2. QED
    BY <1>3, <1>4, <2>1, InFlightIs, InFlightNext
<1>8. m \in InFlight /\ m.from # c
  BY <1>1, <1>5, InFlightIs DEF Senders
<1>9. Allowed(m)
  BY <1>1, <1>8 DEF UnderWayAllowed
<1>10. /\ world' \in [Peers -> SUBSET Keys] /\ own' \in [Peers -> SUBSET Keys]
       /\ \A p \in Peers : own'[p] \subseteq world'[p]
       /\ mirrored' \in [Peers -> [Keys \cup {TempKey} -> {NoId, "host", "peer"}]]
       /\ IsFiniteSet(world'[Host])
       /\ \A p \in Peers, k \in Keys : p # c \/ k # m.key => Done(p, k)' = Done(p, k)
       /\ \A k \in Keys : k = m.key => Done(c, k)' = m.kind
       /\ own[Host] = world[Host] => own'[Host] = world'[Host]
  <2>1. Handle(c, m) /\ c \in Peers /\ c # Host
    BY <1>3
  <2>2. QED
    BY <1>1, <1>9, <2>1, HandlingDoes
<1>11. SyncTyped'
  BY <1>1, <1>3, <1>4, <1>5, <1>10 DEF SyncTyped
<1>12. UnderWayAllowed'
  <2>1. \A n : Allowed(n)' <=> Allowed(n)
    BY DEF Allowed
  <2>2. QED
    BY <1>1, <1>4, <1>7, <2>1 DEF UnderWayAllowed
<1>13. Senders'
  BY <1>1, <1>3, <1>4, <1>5 DEF Senders
<1>14. OneOrigin' /\ InOneHand' /\ HostsAlone'
  BY <1>1, <1>4, <1>7, <1>10 DEF OneOrigin, InOneHand, HostsAlone
<1>15. ASSUME NEW k \in Keys PROVE KeyInv(k)'
  <2>1. KeyInv(k) /\ joined \subseteq SyncClients
    BY <1>1 DEF SyncInv, SyncTyped
  <2>2. Truth(k)' = Truth(k)
    BY <1>4 DEF Truth, InHand
  <2>3. UpSilent(k)' <=> UpSilent(k)
    BY <1>3 DEF UpSilent
  <2>4. Done(Host, k)' = Done(Host, k)
    BY <1>10
  <2>5. ASSUME UpSilent(k), NEW d \in joined
        PROVE  Settles(down'[d], k, Done(d, k)', Truth(k))
    <3>1. Settles(down[d], k, Done(d, k), Truth(k))
      BY <2>1, <2>5 DEF KeyInv
    <3>2. CASE d # c
      <4>1. Done(d, k)' = Done(d, k) /\ down'[d] = down[d]
        BY <1>5, <1>10, <2>1, <3>2
      <4>2. QED
        BY <3>1, <4>1
    <3>3. CASE d = c /\ m.key = k
      <4>1. Done(c, k)' = m.kind
        BY <1>10, <3>3
      <4>2. Settles(down'[c], k, m.kind, Truth(k))
        BY <1>6, <3>1, <3>3
      <4>3. QED
        BY <3>3, <4>1, <4>2
    <3>4. CASE d = c /\ m.key # k
      <4>1. Done(c, k)' = Done(c, k)
        BY <1>10, <3>4
      <4>2. Settles(down'[c], k, Done(c, k), Truth(k))
        BY <1>6, <3>1, <3>4
      <4>3. QED
        BY <3>4, <4>1, <4>2
    <3>5. QED
      BY <3>2, <3>3, <3>4
  <2>6. ASSUME NEW d \in joined, NEW n \in InFlight', n.key = k, n.from = d
        PROVE  Done(d, k)' = Truth(k)
    <3>1. n \in InFlight /\ Done(d, k) = Truth(k)
      BY <1>7, <2>1, <2>6 DEF KeyInv
    <3>2. d # c \/ k # m.key
      BY <1>1, <1>8, <2>6, <3>1 DEF OneOrigin
    <3>3. Done(d, k)' = Done(d, k)
      BY <1>10, <2>1, <3>2
    <3>4. QED
      BY <3>1, <3>3
  <2>7. QED
    BY <1>3, <1>4, <2>1, <2>2, <2>3, <2>4, <2>5, <2>6 DEF KeyInv
<1>16. QED
  BY <1>11, <1>12, <1>13, <1>14, <1>15 DEF SyncInv

LEMMA HostReceivesKeeps ==
    ASSUME SyncInv, NEW c \in SyncClients, HostReceives(c)
    PROVE  SyncInv'
<1> USE PeersAre
<1>1. SyncTyped /\ UnderWayAllowed /\ Senders /\ OneOrigin /\ HostsAlone /\ InOneHand
  BY DEF SyncInv
<1>2. /\ \A d \in SyncClients : down[d] \in Seq(Messages) /\ up[d] \in Seq(Messages)
      /\ inbox \in Seq(Messages) /\ joined \subseteq SyncClients
  BY <1>1 DEF SyncTyped
<1>3. PICK m \in Messages :
          /\ up[c] # <<>> /\ m = Head(up[c]) /\ Tail(up[c]) \in Seq(Messages)
          /\ up' = [up EXCEPT ![c] = Tail(up[c])]
          /\ down' = [d \in SyncClients |->
                        IF d \in joined \ {c} THEN Append(down[d], m) ELSE down[d]]
          /\ inbox' = Append(inbox, m)
  <2>1. PICK i \in FirstOfLane(up[c]) :
            /\ up' = [up EXCEPT ![c] = RemoveAt(up[c], i)]
            /\ down' = [d \in SyncClients |->
                          IF d \in (IF Relayable(up[c][i]) THEN joined \ {c} ELSE {})
                          THEN Append(down[d], up[c][i]) ELSE down[d]]
            /\ inbox' = Append(inbox, up[c][i])
    BY DEF HostReceives
  <2>2. /\ up[c] # <<>> /\ Head(up[c]) \in Messages /\ Tail(up[c]) \in Seq(Messages)
        /\ up[c][i] = Head(up[c])
        /\ RemoveAt(up[c], i) = Tail(up[c])
    BY <1>2, LanesKeepOrder
  <2>3. Relayable(Head(up[c]))
    BY <2>2 DEF Relayable, Messages
  <2>4. QED
    BY <2>1, <2>2, <2>3
<1>4. UNCHANGED <<joined, world, own, mirrored, fresh, inventory>>
  BY DEF HostReceives
<1> DEFINE With(q) == Append(q, m)
<1>5. /\ \A q \in Seq(Messages) : With(q) \in Seq(Messages) /\ ToSet(With(q)) = ToSet(q) \cup {m}
      /\ \A q \in Seq(Messages) : \A k, first, last :
            /\ m.key = k /\ m.kind = last => Settles(With(q), k, first, last)
            /\ m.key # k /\ Settles(q, k, first, last) => Settles(With(q), k, first, last)
  BY AppendElements, AppendSettles
<1>6. /\ \A d \in joined : d # c => down'[d] = With(down[d])
      /\ \A d \in SyncClients : d \notin joined \/ d = c => down'[d] = down[d]
      /\ inbox' = With(inbox)
  BY <1>2, <1>3
<1> HIDE DEF With
<1>7. /\ up' \in [SyncClients -> Seq(Messages)]
      /\ \A d \in SyncClients : d # c => up'[d] = up[d]
      /\ up'[c] = Tail(up[c])
      /\ ToSet(up[c]) = {m} \cup ToSet(up'[c])
  <2>1. ToSet(up[c]) = {m} \cup ToSet(Tail(up[c]))
    BY <1>2, <1>3, TailElements
  <2>2. QED
    BY <1>1, <1>3, <2>1 DEF SyncTyped
<1>8. \A k, first, last :
         /\ m.key = k /\ Settles(up[c], k, first, last) => Settles(up'[c], k, m.kind, last)
         /\ m.key # k /\ Settles(up[c], k, first, last) => Settles(up'[c], k, first, last)
         /\ Silent(up[c], k) <=> Silent(up'[c], k) /\ m.key # k
  BY <1>2, <1>3, <1>7, TailSettles
<1>9. m \in InFlight /\ m.from = c
  BY <1>1, <1>7, InFlightIs DEF Senders
<1>10. down' \in [SyncClients -> Seq(Messages)] /\ inbox' \in Seq(Messages)
  <2>1. \A d \in SyncClients : down'[d] \in Seq(Messages)
    BY <1>2, <1>5, <1>6
  <2>2. DOMAIN down' = SyncClients /\ down' = [d \in DOMAIN down' |-> down'[d]]
    BY <1>3
  <2>3. QED
    BY <1>2, <1>5, <1>6, <2>1, <2>2
<1>11. /\ \A d \in SyncClients : \A n : n \in ToSet(down'[d]) =>
              n \in ToSet(down[d]) \/ (n = m /\ d # c)
       /\ \A n \in ToSet(inbox') : n \in ToSet(inbox) \/ n = m
       /\ \A d \in SyncClients : \A n \in ToSet(up'[d]) : n \in ToSet(up[d])
  <2>1. ASSUME NEW d \in SyncClients, NEW n \in ToSet(down'[d])
        PROVE  n \in ToSet(down[d]) \/ (n = m /\ d # c)
    <3>1. CASE d \in joined /\ d # c
      BY <1>2, <1>5, <1>6, <2>1, <3>1
    <3>2. CASE d \notin joined \/ d = c
      BY <1>6, <2>1, <3>2
    <3>3. QED
      BY <3>1, <3>2
  <2>2. QED
    BY <1>2, <1>5, <1>6, <1>7, <2>1
<1>12. \A n \in InFlight' : n \in InFlight
  BY <1>9, <1>11, InFlightIs, InFlightNext
<1>13. SyncTyped'
  BY <1>1, <1>4, <1>7, <1>10 DEF SyncTyped
<1>14. UnderWayAllowed'
  <2>1. \A n : Allowed(n)' <=> Allowed(n)
    BY DEF Allowed
  <2>2. QED
    BY <1>1, <1>4, <1>12, <2>1 DEF UnderWayAllowed
<1>15. Senders'
  BY <1>1, <1>9, <1>11 DEF Senders
<1>16. OneOrigin' /\ InOneHand' /\ HostsAlone'
  BY <1>1, <1>4, <1>12 DEF OneOrigin, InOneHand, HostsAlone
<1>17. ASSUME NEW k \in Keys PROVE KeyInv(k)'
  <2>1. KeyInv(k)
    BY DEF SyncInv
  <2>2. Truth(k)' = Truth(k) /\ \A p \in Peers : Done(p, k)' = Done(p, k)
    BY <1>4 DEF Truth, InHand, Done
  <2>3. \A d \in joined, n \in InFlight' : n.key = k /\ n.from = d => Done(d, k) = Truth(k)
    BY <1>12, <2>1 DEF KeyInv
  <2>4. CASE m.key # k
    <3>1. \A d \in SyncClients : Silent(up'[d], k) <=> Silent(up[d], k)
      BY <1>7, <1>8, <2>4
    <3>2. UpSilent(k)' <=> UpSilent(k)
      BY <3>1 DEF UpSilent
    <3>3. \A d \in SyncClients : \A first, last :
              Settles(up[d], k, first, last) => Settles(up'[d], k, first, last)
      BY <1>7, <1>8, <2>4
    <3>4. ASSUME NEW d \in SyncClients, NEW first, NEW last, Settles(down[d], k, first, last)
          PROVE  Settles(down'[d], k, first, last)
      <4>1. down'[d] = With(down[d]) \/ down'[d] = down[d]
        BY <1>6
      <4>2. QED
        BY <1>2, <1>5, <2>4, <3>4, <4>1
    <3>5. \A first, last : Settles(inbox, k, first, last) => Settles(inbox', k, first, last)
      BY <1>2, <1>5, <1>6, <2>4
    <3>6. \A d \in SyncClients : Settles(up'[d], k, Truth(k), Truth(k))
      BY <2>1, <3>3 DEF KeyInv
    <3>7. UpSilent(k)' =>
            /\ Settles(inbox', k, Done(Host, k), Truth(k))
            /\ \A d \in joined : Settles(down'[d], k, Done(d, k), Truth(k))
      BY <1>2, <2>1, <3>2, <3>4, <3>5 DEF KeyInv
    <3>8. QED
      BY <1>2, <1>4, <2>2, <2>3, <3>6, <3>7 DEF KeyInv
  <2>5. CASE m.key = k
    <3>1. \A d \in SyncClients : d # c => Silent(up[d], k)
      BY <1>1, <1>9, <2>5, InFlightIs DEF Senders, OneOrigin, Silent
    <3>2. Settles(up'[c], k, m.kind, Truth(k))
      BY <1>8, <2>1, <2>5 DEF KeyInv
    <3>3. \A d \in SyncClients : Settles(up'[d], k, Truth(k), Truth(k))
      BY <1>7, <3>1, <3>2 DEF Settles
    <3>4. ASSUME UpSilent(k)'
          PROVE  /\ Settles(inbox', k, Done(Host, k), Truth(k))
                 /\ \A d \in joined : Settles(down'[d], k, Done(d, k), Truth(k))
      <4>1. m.kind = Truth(k)
        <5>1. Silent(up'[c], k) /\ up'[c] \in Seq(Messages)
          BY <1>7, <3>4 DEF UpSilent
        <5>2. QED
          BY <3>2, <5>1, SilentSettles
      <4>2. Settles(inbox', k, Done(Host, k), Truth(k))
        BY <1>2, <1>5, <1>6, <2>5, <4>1
      <4>3. ASSUME NEW d \in joined PROVE Settles(down'[d], k, Done(d, k), Truth(k))
        <5>1. CASE d # c
          <6>1. down'[d] = With(down[d]) /\ down[d] \in Seq(Messages)
            BY <1>2, <1>6, <5>1
          <6>2. QED
            BY <1>5, <2>5, <4>1, <6>1
        <5>2. CASE d = c
          <6>1. Done(d, k) = Truth(k)
            BY <1>9, <2>1, <2>5, <5>2 DEF KeyInv
          <6>2. Silent(down[c], k)
            BY <1>1, <1>9, <2>5, InFlightIs DEF Senders, OneOrigin, Silent
          <6>3. down'[d] = down[c]
            BY <1>6, <5>2
          <6>4. QED
            BY <6>1, <6>2, <6>3 DEF Settles
        <5>3. QED
          BY <5>1, <5>2
      <4>4. QED
        BY <4>2, <4>3
    <3>5. QED
      BY <1>2, <1>4, <2>2, <2>3, <3>3, <3>4 DEF KeyInv
  <2>6. QED
    BY <2>4, <2>5
<1>18. QED
  BY <1>13, <1>14, <1>15, <1>16, <1>17 DEF SyncInv

-----------------------------------------------------------------------------
LEMMA SyncStep ==
    ASSUME OwnedOnly, ~ DropsBeforeJoin, SyncInv, [SyncNext]_syncVars
    PROVE  SyncInv'
<1>1. ASSUME NEW p \in Peers, NEW k \in Keys, Spawn(p, k) PROVE SyncInv'
  BY <1>1, SpawnKeeps
<1>2. ASSUME NEW p \in Peers, NEW k \in Keys, PickUp(p, k) PROVE SyncInv'
  BY <1>2, PickUpKeeps
<1>3. ASSUME NEW p \in Peers, NEW k \in Keys, TakeObj(p, k) PROVE SyncInv'
  BY <1>3, TakeObjKeeps
<1>4. ASSUME NEW c \in SyncClients, Join(c) PROVE SyncInv'
  BY <1>4, JoinKeeps
<1>5. ASSUME NEW c \in SyncClients, HostReceives(c) PROVE SyncInv'
  BY <1>5, HostReceivesKeeps
<1>6. ASSUME NEW c \in SyncClients, ClientHandles(c) PROVE SyncInv'
  BY <1>6, ClientHandlesKeeps
<1>7. CASE HostHandles
  BY <1>7, HostHandlesKeeps
<1>8. CASE UNCHANGED syncVars
  <2>1. /\ UNCHANGED <<joined, world, own, mirrored, fresh, inventory, up, down, inbox>>
        /\ InFlight' = InFlight
    BY <1>8 DEF syncVars, InFlight
  <2>2. SyncTyped' /\ Senders' /\ OneOrigin' /\ HostsAlone' /\ InOneHand'
    BY <2>1 DEF SyncInv, SyncTyped, Senders, OneOrigin, HostsAlone, InOneHand
  <2>3. UnderWayAllowed'
    BY <2>1 DEF SyncInv, UnderWayAllowed, Allowed
  <2>4. ASSUME NEW k \in Keys PROVE KeyInv(k)'
    <3>1. /\ Truth(k)' = Truth(k) /\ \A p : Done(p, k)' = Done(p, k)
          /\ UpSilent(k)' <=> UpSilent(k)
      BY <2>1 DEF Truth, InHand, Done, UpSilent
    <3>2. QED
      BY <2>1, <3>1 DEF SyncInv, KeyInv
  <2>5. QED
    BY <2>2, <2>3, <2>4 DEF SyncInv
<1>9. QED
  BY <1>1, <1>2, <1>3, <1>4, <1>5, <1>6, <1>7, <1>8 DEF SyncNext

THEOREM SyncInvariance ==
    ASSUME OwnedOnly, ~ DropsBeforeJoin
    PROVE  SyncSpec => []SyncInv
<1>1. SyncInit => SyncInv
  BY SyncInitially
<1>2. SyncInv /\ [SyncNext]_syncVars => SyncInv'
  BY SyncStep
<1>3. QED
  BY <1>1, <1>2, PTL DEF SyncSpec

(* With nothing under way, what is last done to a prop in the world of     *)
(* anybody who has joined is what was last done to it at all. *)
LEMMA QuietWorlds ==
    ASSUME SyncInv, InFlight = {}, NEW k \in Keys
    PROVE  /\ Done(Host, k) = Truth(k)
           /\ \A c \in joined : Done(c, k) = Truth(k)
<1>1. \A p, j : Undisputed(p, j)
  BY DEF Undisputed
<1>2. QED
  BY <1>1, MakerKnows

(* When every message has been handled, all who have joined see the same   *)
(* props, for any number of players and props and any channel: joiners,    *)
(* relays and the two kinds of ids leave no trace                          *)
(* (prop_lifecycle.cpp:153-351, session_lanes.h:37-41).                    *)
THEOREM WorldsAlwaysAgree ==
    ASSUME OwnedOnly, ~ DropsBeforeJoin
    PROVE  SyncSpec => []SyncedAgree
<1>1. SyncInv => SyncedAgree
  <2> SUFFICES ASSUME SyncInv, InFlight = {}, NEW c \in joined
               PROVE  world[c] = world[Host]
    BY DEF SyncedAgree
  <2>1. world[c] \subseteq Keys /\ world[Host] \subseteq Keys
    BY PeersAre DEF SyncInv, SyncTyped
  <2>2. \A k \in Keys : k \in world[c] <=> k \in world[Host]
    BY QuietWorlds DEF Done
  <2>3. QED
    BY <2>1, <2>2
<1>2. QED
  BY <1>1, SyncInvariance, PTL

(* And a prop is in the world or in the inventory of one player, never in  *)
(* both and never in two (prop_lifecycle.cpp:336-340).                     *)
THEOREM PropsAlwaysOnce ==
    ASSUME OwnedOnly, ~ DropsBeforeJoin
    PROVE  SyncSpec => []PropsAreOnce
<1>1. SyncInv => PropsAreOnce
  <2> SUFFICES ASSUME SyncInv, InFlight = {}, NEW k \in Keys \ fresh
               PROVE  \/ k \in world[Host] /\ \A p \in Peers : k \notin inventory[p]
                      \/ k \notin world[Host] /\ \E p \in Peers : inventory[p] \cap {k} # {}
                            /\ \A q \in Peers \ {p} : k \notin inventory[q]
    BY DEF PropsAreOnce
  <2>1. k \in world[Host] <=> \A p \in Peers : k \notin inventory[p]
    BY QuietWorlds DEF Done, Truth, InHand
  <2>2. \A p, q \in Peers : k \in inventory[p] /\ k \in inventory[q] => p = q
    BY DEF SyncInv, InOneHand
  <2>3. QED
    BY <2>1, <2>2
<1>2. QED
  BY <1>1, SyncInvariance, PTL
=============================================================================
