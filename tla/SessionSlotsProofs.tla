------------------------- MODULE SessionSlotsProofs -------------------------
(***************************************************************************)
(* Proofs about SessionSlots for every set of clients and every number of  *)
(* slots.  The inductive invariant SlotInv is about the part of the state  *)
(* below, which the game thread never changes: it says where the net       *)
(* thread is in a status callback and what it has already undone there.    *)
(***************************************************************************)
EXTENDS SessionSlots, QueueLemmas

slotInvVars == <<gns, tag, peerConns, lanes, state, remote, epoch, net>>

-----------------------------------------------------------------------------
(* The lowest free slot exists and is free.                                *)
LEMMA FindFreeSlotIsFree ==
    ASSUME FreeSlots # {}
    PROVE  FindFreeSlot \in FreeSlots
<1>1. FreeSlots \in SUBSET Nat
  BY SessionAssumption DEF FreeSlots, ClientSlots
<1>2. PICK s \in FreeSlots : \A u \in FreeSlots : s =< u
  BY <1>1, LeastOfNaturals
<1>3. QED BY <1>2 DEF FindFreeSlot, Min

-----------------------------------------------------------------------------
(* The inductive invariant.                                                *)

Typed ==
    /\ gns \in [Clients -> GnsStates]
    /\ tag \in [Clients -> ClientSlots \cup {NoSlot}]
    /\ peerConns \in [ClientSlots -> Clients \cup {Nobody}]
    /\ lanes \in [ClientSlots -> BOOLEAN]
    /\ state \in {"Disconnected", "Handshaking", "Connected"}
    /\ remote \in [ClientSlots -> Clients \cup {Nobody}]
    /\ epoch \in [ClientSlots -> Clients \cup {Nobody}]
    /\ net \in [at : NetSteps, slot : ClientSlots \cup {NoSlot}]

(* The slot the net thread is at is the one it has just given up or made   *)
(* ready. *)
AtItsSlot ==
    /\ net.at \in {"unready", "reset", "purge"} =>
          net.slot \in ClientSlots /\ peerConns[net.slot] = Nobody
    /\ net.at = "publish" =>
          net.slot \in ClientSlots /\ peerConns[net.slot] # Nobody /\ lanes[net.slot]

(* A ready slot is held. *)
ReadyIsHeld ==
    \A s \in ClientSlots : lanes[s] =>
        peerConns[s] # Nobody \/ (net.at = "unready" /\ net.slot = s)

(* The aggregate state trails the slots only inside a callback. *)
StateTrails ==
    /\ net.at # "publish" /\ (\E s \in ClientSlots : lanes[s]) => state = "Connected"
    /\ net.at = "idle" /\ state = "Connected" => \E s \in ClientSlots : lanes[s]
    /\ net.at \in {"clear", "empty"} => state = "Disconnected"

SlotInv ==
    Typed /\ AtItsSlot /\ ReadyIsHeld /\ StateTrails /\ TagsMatchSlots /\ RemoteFromOccupant

(* The invariant holds of a session that has just started.                 *)
LEMMA SlotInvInit == SessionInit => SlotInv
BY SessionAssumption
   DEF SessionInit, SlotInv, Typed, AtItsSlot, ReadyIsHeld, StateTrails, TagsMatchSlots,
       RemoteFromOccupant, Leaving, GnsStates, NetSteps, NoSlot, ClientSlots

(* FindPeerSlotForConn finds the slot of a connection exactly if it has one. *)
LEMMA SlotOfHolder ==
    ASSUME NEW c \in Clients
    PROVE  /\ SlotOf(c) # NoSlot => SlotOf(c) \in ClientSlots /\ peerConns[SlotOf(c)] = c
           /\ SlotOf(c) = NoSlot => \A s \in ClientSlots : peerConns[s] # c
BY SessionAssumption DEF SlotOf, NoSlot, ClientSlots

(* A client whose message is being received holds the slot it is tagged with. *)
LEMMA ReceiverHoldsItsSlot ==
    ASSUME SlotInv, NEW c \in Clients, Receives(c)
    PROVE  NetIdle /\ tag[c] \in ClientSlots /\ peerConns[tag[c]] = c
BY SessionAssumption DEF SlotInv, TagsMatchSlots, Receives, NoSlot, ClientSlots

-----------------------------------------------------------------------------
(* Every step of the net thread and of the transport keeps the invariant.  *)

(* The transport moves a connection on; who holds what does not change. *)
LEMMA TransportKeepsSlotInv ==
    ASSUME SlotInv, NEW c \in Clients, Dial(c) \/ Establish(c) \/ Lose(c)
    PROVE  SlotInv'
<1> USE DEF SlotInv, Typed, Dial, Establish, Lose, GnsStep, gnsVars, slotVars,
       recvVars, NetAt, NetDone, NetIdle
<1>1. Typed'
  BY SessionAssumption DEF GnsStates, NetSteps, NoSlot, ClientSlots
<1>2. AtItsSlot'
  BY SessionAssumption DEF AtItsSlot, NoSlot, ClientSlots
<1>3. ReadyIsHeld'
  BY SessionAssumption DEF ReadyIsHeld, AtItsSlot, NoSlot, ClientSlots
<1>4. StateTrails'
  BY SessionAssumption DEF StateTrails, ReadyIsHeld, AtItsSlot, NoSlot,
     ClientSlots
<1>5. TagsMatchSlots'
  BY SessionAssumption DEF TagsMatchSlots, NoSlot, ClientSlots
<1>6. RemoteFromOccupant'
  BY SessionAssumption DEF RemoteFromOccupant, Leaving
<1>7. QED
  BY <1>1, <1>2, <1>3, <1>4, <1>5, <1>6

(* A refused client holds no slot. *)
LEMMA RefuseKeepsSlotInv ==
    ASSUME SlotInv, NEW c \in Clients, Refuse(c)
    PROVE  SlotInv'
<1> USE DEF SlotInv, Typed, Refuse, GnsStep, gnsVars, slotVars, recvVars,
       NetAt, NetDone, NetIdle
<1>1. Typed'
  BY SessionAssumption DEF GnsStates, NetSteps, NoSlot, ClientSlots
<1>2. AtItsSlot'
  BY SessionAssumption DEF AtItsSlot, NoSlot, ClientSlots
<1>3. ReadyIsHeld'
  BY SessionAssumption DEF ReadyIsHeld, AtItsSlot, NoSlot, ClientSlots
<1>4. StateTrails'
  BY SessionAssumption DEF StateTrails, ReadyIsHeld, AtItsSlot, NoSlot,
     ClientSlots
<1>5. TagsMatchSlots'
  BY SessionAssumption DEF TagsMatchSlots, NoSlot, ClientSlots
<1>6. RemoteFromOccupant'
  BY SessionAssumption DEF RemoteFromOccupant, Leaving
<1>7. QED
  BY <1>1, <1>2, <1>3, <1>4, <1>5, <1>6

(* A free slot is taken while the net thread is between two callbacks, so  *)
(* that nothing is stored for it yet. *)
LEMMA AcceptKeepsSlotInv ==
    ASSUME SlotInv, NEW c \in Clients, Accept(c)
    PROVE  SlotInv'
<1>0. PICK f \in ClientSlots :
        /\ peerConns[f] = Nobody
        /\ gns' = [gns EXCEPT ![c] = "accepted"]
        /\ tag' = [tag EXCEPT ![c] = f]
        /\ peerConns' = [peerConns EXCEPT ![f] = c]
  BY FindFreeSlotIsFree DEF Accept, FreeSlots
<1>a. /\ NetIdle /\ gns[c] = "dialing"
      /\ state' = IF state = "Disconnected" THEN "Handshaking" ELSE state
      /\ UNCHANGED <<lanes, remote, epoch, net>>
  BY DEF Accept, recvVars
<1> USE DEF SlotInv, Typed, NetIdle
<1>1. Typed'
  BY SessionAssumption, <1>0, <1>a DEF GnsStates, NetSteps, NoSlot,
     ClientSlots
<1>2. AtItsSlot'
  BY SessionAssumption, <1>0, <1>a DEF AtItsSlot, NoSlot, ClientSlots
<1>3. ReadyIsHeld'
  BY SessionAssumption, <1>0, <1>a DEF ReadyIsHeld, AtItsSlot, NoSlot,
     ClientSlots
<1>4. StateTrails'
  BY SessionAssumption, <1>0, <1>a DEF StateTrails, ReadyIsHeld,
     AtItsSlot, NoSlot, ClientSlots
<1>5. TagsMatchSlots'
  BY SessionAssumption, <1>0, <1>a DEF TagsMatchSlots, NoSlot, ClientSlots
<1>6. RemoteFromOccupant'
  BY SessionAssumption, <1>0, <1>a DEF RemoteFromOccupant, Leaving,
     TagsMatchSlots
<1>7. QED
  BY <1>1, <1>2, <1>3, <1>4, <1>5, <1>6

(* The slot that becomes ready is the client's own, or a free one.         *)
LEMMA ConnectedKeepsSlotInv ==
    ASSUME SlotInv, NEW c \in Clients, Connected(c)
    PROVE  SlotInv'
<1>a. NetIdle /\ gns[c] = "up" /\ UNCHANGED <<state, remote, epoch>>
  BY DEF Connected, recvVars
<1> USE DEF SlotInv, Typed, NetIdle
<1>b. CASE SlotOf(c) = NoSlot /\ FreeSlots = {}
  <2>0. /\ gns' = [gns EXCEPT ![c] = "gone"]
        /\ UNCHANGED <<tag, peerConns, lanes, net>>
        /\ \A s \in ClientSlots : peerConns[s] # c
    BY <1>b, SlotOfHolder DEF Connected
  <2>1. Typed'
    BY SessionAssumption, <1>a, <2>0 DEF GnsStates, NetSteps, NoSlot,
       ClientSlots
  <2>2. AtItsSlot'
    BY SessionAssumption, <1>a, <2>0 DEF AtItsSlot, NoSlot, ClientSlots
  <2>3. ReadyIsHeld'
    BY SessionAssumption, <1>a, <2>0 DEF ReadyIsHeld, AtItsSlot, NoSlot,
       ClientSlots
  <2>4. StateTrails'
    BY SessionAssumption, <1>a, <2>0 DEF StateTrails, ReadyIsHeld,
       AtItsSlot, NoSlot, ClientSlots
  <2>5. TagsMatchSlots'
    BY SessionAssumption, <1>a, <2>0 DEF TagsMatchSlots, NoSlot, ClientSlots
  <2>6. RemoteFromOccupant'
    BY SessionAssumption, <1>a, <2>0 DEF RemoteFromOccupant, Leaving
  <2>7. QED
    BY <2>1, <2>2, <2>3, <2>4, <2>5, <2>6
<1>c. CASE ~ (SlotOf(c) = NoSlot /\ FreeSlots = {})
  <2>0. PICK f \in ClientSlots :
          /\ \/ peerConns[f] = c
             \/ peerConns[f] = Nobody /\ (\A s \in ClientSlots : peerConns[s] # c)
          /\ gns' = [gns EXCEPT ![c] = "open"]
          /\ tag' = [tag EXCEPT ![c] = f]
          /\ peerConns' = [peerConns EXCEPT ![f] = c]
          /\ lanes' = [lanes EXCEPT ![f] = TRUE]
          /\ net' = [at |-> "publish", slot |-> f]
    <3>1. CASE SlotOf(c) # NoSlot
      BY <3>1, SlotOfHolder DEF Connected, NetAt
    <3>2. CASE SlotOf(c) = NoSlot
      <4>1. FindFreeSlot \in ClientSlots /\ peerConns[FindFreeSlot] = Nobody
        BY <1>c, <3>2, FindFreeSlotIsFree DEF FreeSlots
      <4>2. QED
        BY <1>c, <3>2, <4>1, SlotOfHolder DEF Connected, NetAt
    <3>3. QED
      BY <3>1, <3>2
  <2>1. Typed'
    BY SessionAssumption, <1>a, <2>0 DEF GnsStates, NetSteps, NoSlot,
       ClientSlots
  <2>2. AtItsSlot'
    BY SessionAssumption, <1>a, <2>0 DEF AtItsSlot, NoSlot, ClientSlots
  <2>3. ReadyIsHeld'
    BY SessionAssumption, <1>a, <2>0 DEF ReadyIsHeld, AtItsSlot, NoSlot,
       ClientSlots
  <2>4. StateTrails'
    BY SessionAssumption, <1>a, <2>0 DEF StateTrails, ReadyIsHeld,
       AtItsSlot, NoSlot, ClientSlots
  <2>5. TagsMatchSlots'
    BY SessionAssumption, <1>a, <2>0 DEF TagsMatchSlots, NoSlot, ClientSlots
  <2>6. RemoteFromOccupant'
    BY SessionAssumption, <1>a, <2>0 DEF RemoteFromOccupant, Leaving,
       TagsMatchSlots
  <2>7. QED
    BY <2>1, <2>2, <2>3, <2>4, <2>5, <2>6
<1>d. QED
  BY <1>b, <1>c

(* A slot that is given up stays ready until the next store.               *)
LEMMA ClosedKeepsSlotInv ==
    ASSUME SlotInv, NEW c \in Clients, Closed(c)
    PROVE  SlotInv'
<1>a. /\ NetIdle /\ gns[c] = "lost"
      /\ gns' = [gns EXCEPT ![c] = "gone"]
      /\ UNCHANGED <<tag, lanes, state, remote, epoch>>
  BY DEF Closed, recvVars
<1> USE DEF SlotInv, Typed, NetIdle
<1>b. CASE SlotOf(c) = NoSlot
  <2>0. /\ net' = [at |-> "aggregate", slot |-> NoSlot]
        /\ UNCHANGED peerConns
        /\ \A s \in ClientSlots : peerConns[s] # c
    BY <1>b, SlotOfHolder DEF Closed, NetAt
  <2>1. Typed'
    BY SessionAssumption, <1>a, <2>0 DEF GnsStates, NetSteps, NoSlot,
       ClientSlots
  <2>2. AtItsSlot'
    BY SessionAssumption, <1>a, <2>0 DEF AtItsSlot, NoSlot, ClientSlots
  <2>3. ReadyIsHeld'
    BY SessionAssumption, <1>a, <2>0 DEF ReadyIsHeld, AtItsSlot, NoSlot,
       ClientSlots
  <2>4. StateTrails'
    BY SessionAssumption, <1>a, <2>0 DEF StateTrails, ReadyIsHeld,
       AtItsSlot, NoSlot, ClientSlots
  <2>5. TagsMatchSlots'
    BY SessionAssumption, <1>a, <2>0 DEF TagsMatchSlots, NoSlot, ClientSlots
  <2>6. RemoteFromOccupant'
    BY SessionAssumption, <1>a, <2>0 DEF RemoteFromOccupant, Leaving
  <2>7. QED
    BY <2>1, <2>2, <2>3, <2>4, <2>5, <2>6
<1>c. CASE SlotOf(c) # NoSlot
  <2>0. PICK f \in ClientSlots :
          /\ peerConns[f] = c
          /\ peerConns' = [peerConns EXCEPT ![f] = Nobody]
          /\ net' = [at |-> "unready", slot |-> f]
    BY <1>c, SlotOfHolder DEF Closed, NetAt
  <2>1. Typed'
    BY SessionAssumption, <1>a, <2>0 DEF GnsStates, NetSteps, NoSlot,
       ClientSlots
  <2>2. AtItsSlot'
    BY SessionAssumption, <1>a, <2>0 DEF AtItsSlot, NoSlot, ClientSlots
  <2>3. ReadyIsHeld'
    BY SessionAssumption, <1>a, <2>0 DEF ReadyIsHeld, AtItsSlot, NoSlot,
       ClientSlots
  <2>4. StateTrails'
    BY SessionAssumption, <1>a, <2>0 DEF StateTrails, ReadyIsHeld,
       AtItsSlot, NoSlot, ClientSlots
  <2>5. TagsMatchSlots'
    BY SessionAssumption, <1>a, <2>0 DEF TagsMatchSlots, NoSlot, ClientSlots
  <2>6. RemoteFromOccupant'
    BY SessionAssumption, <1>a, <2>0 DEF RemoteFromOccupant, Leaving,
       TagsMatchSlots
  <2>7. QED
    BY <2>1, <2>2, <2>3, <2>4, <2>5, <2>6
<1>d. QED
  BY <1>b, <1>c

(* The aggregate state catches up with the slot that is ready. *)
LEMMA PublishConnectedKeepsSlotInv ==
    ASSUME SlotInv, PublishConnected
    PROVE  SlotInv'
<1> USE DEF SlotInv, Typed, PublishConnected, gnsVars, slotVars, recvVars,
       NetAt, NetDone, NetIdle
<1>1. Typed'
  BY SessionAssumption DEF GnsStates, NetSteps, NoSlot, ClientSlots
<1>2. AtItsSlot'
  BY SessionAssumption DEF AtItsSlot, NoSlot, ClientSlots
<1>3. ReadyIsHeld'
  BY SessionAssumption DEF ReadyIsHeld, AtItsSlot, NoSlot, ClientSlots
<1>4. StateTrails'
  BY SessionAssumption DEF StateTrails, ReadyIsHeld, AtItsSlot, NoSlot,
     ClientSlots
<1>5. TagsMatchSlots'
  BY SessionAssumption DEF TagsMatchSlots, NoSlot, ClientSlots
<1>6. RemoteFromOccupant'
  BY SessionAssumption DEF RemoteFromOccupant, Leaving
<1>7. QED
  BY <1>1, <1>2, <1>3, <1>4, <1>5, <1>6

(* The slot that was given up is no longer ready. *)
LEMMA ClearLanesKeepsSlotInv ==
    ASSUME SlotInv, ClearLanes
    PROVE  SlotInv'
<1> USE DEF SlotInv, Typed, ClearLanes, gnsVars, slotVars, recvVars, NetAt,
       NetDone, NetIdle
<1>1. Typed'
  BY SessionAssumption DEF GnsStates, NetSteps, NoSlot, ClientSlots
<1>2. AtItsSlot'
  BY SessionAssumption DEF AtItsSlot, NoSlot, ClientSlots
<1>3. ReadyIsHeld'
  BY SessionAssumption DEF ReadyIsHeld, AtItsSlot, NoSlot, ClientSlots
<1>4. StateTrails'
  BY SessionAssumption DEF StateTrails, ReadyIsHeld, AtItsSlot, NoSlot,
     ClientSlots
<1>5. TagsMatchSlots'
  BY SessionAssumption DEF TagsMatchSlots, NoSlot, ClientSlots
<1>6. RemoteFromOccupant'
  BY SessionAssumption DEF RemoteFromOccupant, Leaving
<1>7. QED
  BY <1>1, <1>2, <1>3, <1>4, <1>5, <1>6

(* What was stored for it is gone before the net thread leaves it. *)
LEMMA ResetRemoteKeepsSlotInv ==
    ASSUME SlotInv, ResetRemote
    PROVE  SlotInv'
<1> USE DEF SlotInv, Typed, ResetRemote, ResetPeerRemoteState, gnsVars,
       slotVars, recvVars, NetAt, NetDone, NetIdle
<1>1. Typed'
  BY SessionAssumption DEF GnsStates, NetSteps, NoSlot, ClientSlots
<1>2. AtItsSlot'
  BY SessionAssumption DEF AtItsSlot, NoSlot, ClientSlots
<1>3. ReadyIsHeld'
  BY SessionAssumption DEF ReadyIsHeld, AtItsSlot, NoSlot, ClientSlots
<1>4. StateTrails'
  BY SessionAssumption DEF StateTrails, ReadyIsHeld, AtItsSlot, NoSlot,
     ClientSlots
<1>5. TagsMatchSlots'
  BY SessionAssumption DEF TagsMatchSlots, NoSlot, ClientSlots
<1>6. RemoteFromOccupant'
  BY SessionAssumption DEF RemoteFromOccupant, Leaving
<1>7. QED
  BY <1>1, <1>2, <1>3, <1>4, <1>5, <1>6

(* The queue is no part of the invariant. *)
LEMMA PurgeInboxKeepsSlotInv ==
    ASSUME SlotInv, PurgeInbox
    PROVE  SlotInv'
<1> USE DEF SlotInv, Typed, PurgeInbox, gnsVars, slotVars, recvVars, NetAt,
       NetDone, NetIdle
<1>1. Typed'
  BY SessionAssumption DEF GnsStates, NetSteps, NoSlot, ClientSlots
<1>2. AtItsSlot'
  BY SessionAssumption DEF AtItsSlot, NoSlot, ClientSlots
<1>3. ReadyIsHeld'
  BY SessionAssumption DEF ReadyIsHeld, AtItsSlot, NoSlot, ClientSlots
<1>4. StateTrails'
  BY SessionAssumption DEF StateTrails, ReadyIsHeld, AtItsSlot, NoSlot,
     ClientSlots
<1>5. TagsMatchSlots'
  BY SessionAssumption DEF TagsMatchSlots, NoSlot, ClientSlots
<1>6. RemoteFromOccupant'
  BY SessionAssumption DEF RemoteFromOccupant, Leaving
<1>7. QED
  BY <1>1, <1>2, <1>3, <1>4, <1>5, <1>6

(* Ready slots are held here, so that the count is that of the ready slots.
*)
LEMMA AggregateKeepsSlotInv ==
    ASSUME SlotInv, Aggregate
    PROVE  SlotInv'
<1> USE DEF SlotInv, Typed, Aggregate, AnyConfigured, SlotConnected, gnsVars,
       slotVars, recvVars, NetAt, NetDone, NetIdle
<1>1. Typed'
  BY SessionAssumption DEF GnsStates, NetSteps, NoSlot, ClientSlots
<1>2. AtItsSlot'
  BY SessionAssumption DEF AtItsSlot, NoSlot, ClientSlots
<1>3. ReadyIsHeld'
  BY SessionAssumption DEF ReadyIsHeld, AtItsSlot, NoSlot, ClientSlots
<1>4. StateTrails'
  BY SessionAssumption DEF StateTrails, ReadyIsHeld, AtItsSlot, NoSlot,
     ClientSlots
<1>5. TagsMatchSlots'
  BY SessionAssumption DEF TagsMatchSlots, NoSlot, ClientSlots
<1>6. RemoteFromOccupant'
  BY SessionAssumption DEF RemoteFromOccupant, Leaving
<1>7. QED
  BY <1>1, <1>2, <1>3, <1>4, <1>5, <1>6

(* A slot for which nothing is stored satisfies the invariant. *)
LEMMA ResetAllKeepsSlotInv ==
    ASSUME SlotInv, ResetAll
    PROVE  SlotInv'
<1> USE DEF SlotInv, Typed, ResetAll, ResetPeerRemoteState, gnsVars, slotVars,
       recvVars, NetAt, NetDone, NetIdle
<1>1. Typed'
  BY SessionAssumption DEF GnsStates, NetSteps, NoSlot, ClientSlots
<1>2. AtItsSlot'
  BY SessionAssumption DEF AtItsSlot, NoSlot, ClientSlots
<1>3. ReadyIsHeld'
  BY SessionAssumption DEF ReadyIsHeld, AtItsSlot, NoSlot, ClientSlots
<1>4. StateTrails'
  BY SessionAssumption DEF StateTrails, ReadyIsHeld, AtItsSlot, NoSlot,
     ClientSlots
<1>5. TagsMatchSlots'
  BY SessionAssumption DEF TagsMatchSlots, NoSlot, ClientSlots
<1>6. RemoteFromOccupant'
  BY SessionAssumption DEF RemoteFromOccupant, Leaving
<1>7. QED
  BY <1>1, <1>2, <1>3, <1>4, <1>5, <1>6

(* The session is Disconnected when the net thread is done. *)
LEMMA EmptyInboxKeepsSlotInv ==
    ASSUME SlotInv, EmptyInbox
    PROVE  SlotInv'
<1> USE DEF SlotInv, Typed, EmptyInbox, gnsVars, slotVars, recvVars, NetAt,
       NetDone, NetIdle
<1>1. Typed'
  BY SessionAssumption DEF GnsStates, NetSteps, NoSlot, ClientSlots
<1>2. AtItsSlot'
  BY SessionAssumption DEF AtItsSlot, NoSlot, ClientSlots
<1>3. ReadyIsHeld'
  BY SessionAssumption DEF ReadyIsHeld, AtItsSlot, NoSlot, ClientSlots
<1>4. StateTrails'
  BY SessionAssumption DEF StateTrails, ReadyIsHeld, AtItsSlot, NoSlot,
     ClientSlots
<1>5. TagsMatchSlots'
  BY SessionAssumption DEF TagsMatchSlots, NoSlot, ClientSlots
<1>6. RemoteFromOccupant'
  BY SessionAssumption DEF RemoteFromOccupant, Leaving
<1>7. QED
  BY <1>1, <1>2, <1>3, <1>4, <1>5, <1>6

(* A pose is stored for the holder of the slot. *)
LEMMA ReceivePoseKeepsSlotInv ==
    ASSUME SlotInv, NEW c \in Clients, ReceivePose(c)
    PROVE  SlotInv'
<1>0. NetIdle /\ tag[c] \in ClientSlots /\ peerConns[tag[c]] = c
  BY ReceiverHoldsItsSlot DEF ReceivePose
<1> USE DEF SlotInv, Typed, ReceivePose, Receives, Latch, PassesLatch,
       gnsVars, slotVars, recvVars, NetAt, NetDone, NetIdle
<1>1. Typed'
  BY SessionAssumption, <1>0 DEF GnsStates, NetSteps, NoSlot, ClientSlots
<1>2. AtItsSlot'
  BY SessionAssumption, <1>0 DEF AtItsSlot, NoSlot, ClientSlots
<1>3. ReadyIsHeld'
  BY SessionAssumption, <1>0 DEF ReadyIsHeld, AtItsSlot, NoSlot,
     ClientSlots
<1>4. StateTrails'
  BY SessionAssumption, <1>0 DEF StateTrails, ReadyIsHeld, AtItsSlot,
     NoSlot, ClientSlots
<1>5. TagsMatchSlots'
  BY SessionAssumption, <1>0 DEF TagsMatchSlots, NoSlot, ClientSlots
<1>6. RemoteFromOccupant'
  BY SessionAssumption, <1>0 DEF RemoteFromOccupant, Leaving
<1>7. QED
  BY <1>1, <1>2, <1>3, <1>4, <1>5, <1>6

(* A message latches the epoch of the holder of the slot. *)
LEMMA ReceiveReliableKeepsSlotInv ==
    ASSUME SlotInv, NEW c \in Clients, NEW k \in Kinds, ReceiveReliable(c, k)
    PROVE  SlotInv'
<1>0. NetIdle /\ tag[c] \in ClientSlots /\ peerConns[tag[c]] = c
  BY ReceiverHoldsItsSlot DEF ReceiveReliable
<1> USE DEF SlotInv, Typed, ReceiveReliable, Receives, Latch, PassesLatch,
       gnsVars, slotVars, recvVars, NetAt, NetDone, NetIdle
<1>1. Typed'
  BY SessionAssumption, <1>0 DEF GnsStates, NetSteps, NoSlot, ClientSlots
<1>2. AtItsSlot'
  BY SessionAssumption, <1>0 DEF AtItsSlot, NoSlot, ClientSlots
<1>3. ReadyIsHeld'
  BY SessionAssumption, <1>0 DEF ReadyIsHeld, AtItsSlot, NoSlot,
     ClientSlots
<1>4. StateTrails'
  BY SessionAssumption, <1>0 DEF StateTrails, ReadyIsHeld, AtItsSlot,
     NoSlot, ClientSlots
<1>5. TagsMatchSlots'
  BY SessionAssumption, <1>0 DEF TagsMatchSlots, NoSlot, ClientSlots
<1>6. RemoteFromOccupant'
  BY SessionAssumption, <1>0 DEF RemoteFromOccupant, Leaving
<1>7. QED
  BY <1>1, <1>2, <1>3, <1>4, <1>5, <1>6

-----------------------------------------------------------------------------
(* The invariant is kept by every step of the net thread and by every step *)
(* that leaves its variables alone, such as the game thread's.             *)
THEOREM NetNextKeepsSlotInv ==
    SlotInv /\ [NetNext]_slotInvVars => SlotInv'
<1> SUFFICES ASSUME SlotInv, [NetNext]_slotInvVars PROVE SlotInv'
  OBVIOUS
<1>1. CASE UNCHANGED slotInvVars
  BY <1>1 DEF slotInvVars, SlotInv, Typed, AtItsSlot, ReadyIsHeld, StateTrails,
     TagsMatchSlots, RemoteFromOccupant, Leaving
<1>2. CASE GnsNext
  BY <1>2, TransportKeepsSlotInv DEF GnsNext
<1>3. CASE Callback
  BY <1>3, RefuseKeepsSlotInv, AcceptKeepsSlotInv, ConnectedKeepsSlotInv,
     ClosedKeepsSlotInv, PublishConnectedKeepsSlotInv, ClearLanesKeepsSlotInv,
     ResetRemoteKeepsSlotInv, PurgeInboxKeepsSlotInv, AggregateKeepsSlotInv,
     ResetAllKeepsSlotInv, EmptyInboxKeepsSlotInv
     DEF Callback
<1>4. CASE Receive
  BY <1>4, ReceivePoseKeepsSlotInv, ReceiveReliableKeepsSlotInv DEF Receive
<1>5. QED
  BY <1>1, <1>2, <1>3, <1>4 DEF NetNext

(* Between callbacks the aggregate state is Connected exactly while a slot *)
(* is ready. *)
LEMMA SlotInvStateMatches == SlotInv => StateMatchesSlots
BY DEF SlotInv, StateTrails, StateMatchesSlots, NetIdle

-----------------------------------------------------------------------------
(* The second invariant is about what the net thread has received: whom it *)
(* let in and told so, and whose poses and messages it holds.              *)

Queued == ToSet(inbox)

(* A client that was sent AssignPeerSlot has been let in, and its slot     *)
(* stays ready as long as it holds it. *)
ToldAreReady ==
    /\ told \subseteq Clients
    /\ \A c \in told : gns[c] \in {"open", "lost", "gone"}
    /\ \A s \in ClientSlots : peerConns[s] \in told => lanes[s]
    /\ net.at = "publish" => gns[peerConns[net.slot]] \in {"open", "lost"}

(* A queued message is the slot's occupant's, or about to be purged. *)
QueuedFromOccupants ==
    \A m \in Queued :
        peerConns[m.slot] = m.from \/ Leaving(m.slot, {"unready", "reset", "purge"})

(* The sender of a queued message was let in with the slot on the message. *)
SendersTagged ==
    \A m \in Queued :
        /\ tag[m.from] = m.slot
        /\ gns[m.from] \in {"up", "open", "lost", "gone"}
        /\ m.kind = "Join" => m.from \in told

(* Slot s is ready, or its connection is up and will make it so. *)
ComingUp(s) == SlotConnected(s) /\ gns[peerConns[s]] = "up"
Live(s) == lanes[s] \/ ComingUp(s)

OpenIsReady ==
    \A s \in ClientSlots : SlotConnected(s) /\ gns[peerConns[s]] = "open" => lanes[s]

(* What is stored or queued for a slot came while the slot was live. *)
ReceivedWhileLive ==
    /\ \A s \in ClientSlots : remote[s] # Nobody => Live(s) \/ Leaving(s, {"unready", "reset"})
    /\ \A m \in Queued :
          Live(m.slot) \/ Leaving(m.slot, {"unready", "reset", "purge"})

QueueInv ==
    /\ inbox \in Seq(Messages)
    /\ ToldAreReady
    /\ QueuedFromOccupants
    /\ SendersTagged
    /\ OpenIsReady
    /\ ReceivedWhileLive

queueInvVars == <<slotInvVars, told, inbox>>

(* Nothing has been received at first.                                     *)
LEMMA QueueInvInit == SessionInit => QueueInv
<1> SUFFICES ASSUME SessionInit PROVE QueueInv
  OBVIOUS
<1>1. inbox \in Seq(Messages) /\ Queued = {}
  <2>1. inbox = <<>>
    BY DEF SessionInit
  <2>2. QED BY <2>1, EmptySeq DEF Queued, ToSet
<1>2. QED
  BY <1>1, SessionAssumption
     DEF SessionInit, QueueInv, ToldAreReady, QueuedFromOccupants, SendersTagged,
         OpenIsReady, ReceivedWhileLive, SlotConnected

(* The fields of a queued message.                                         *)
LEMMA QueuedFields ==
    ASSUME inbox \in Seq(Messages), NEW m \in Queued
    PROVE  m \in Messages /\ m.kind \in Kinds /\ m.slot \in ClientSlots /\ m.from \in Clients
<1>1. m \in Messages
  BY LenProperties DEF Queued, ToSet
<1>2. QED BY <1>1 DEF Messages

(* No two slots are held by one connection. *)
LEMMA OneSlotEach ==
    ASSUME SlotInv, NEW s \in ClientSlots, NEW t \in ClientSlots,
           peerConns[s] # Nobody, peerConns[s] = peerConns[t]
    PROVE  s = t
<1>1. peerConns[s] \in Clients
  BY DEF SlotInv, Typed
<1>2. QED BY <1>1 DEF SlotInv, TagsMatchSlots

(* What Accept, Connected and Closed do to the slots.                      *)
LEMMA AcceptTakesFree ==
    ASSUME SlotInv, NEW c \in Clients, Accept(c)
    PROVE  \E f \in ClientSlots :
              /\ NetIdle /\ gns[c] = "dialing" /\ peerConns[f] = Nobody
              /\ gns' = [gns EXCEPT ![c] = "accepted"]
              /\ tag' = [tag EXCEPT ![c] = f]
              /\ peerConns' = [peerConns EXCEPT ![f] = c]
              /\ UNCHANGED <<told, lanes, remote, epoch, inbox, net>>
BY FindFreeSlotIsFree DEF Accept, FreeSlots, recvVars

LEMMA ConnectedTakesOwnOrFree ==
    ASSUME SlotInv, NEW c \in Clients, Connected(c)
    PROVE  /\ NetIdle /\ gns[c] = "up"
           /\ UNCHANGED <<told, remote, epoch, inbox>>
           /\ \/ /\ \A s \in ClientSlots : peerConns[s] # c
                 /\ gns' = [gns EXCEPT ![c] = "gone"]
                 /\ UNCHANGED <<tag, peerConns, lanes, net>>
              \/ \E f \in ClientSlots :
                    /\ \/ peerConns[f] = c
                       \/ peerConns[f] = Nobody /\ tag[c] = NoSlot
                             /\ \A s \in ClientSlots : peerConns[s] # c
                    /\ gns' = [gns EXCEPT ![c] = "open"]
                    /\ tag' = [tag EXCEPT ![c] = f]
                    /\ peerConns' = [peerConns EXCEPT ![f] = c]
                    /\ lanes' = [lanes EXCEPT ![f] = TRUE]
                    /\ net' = [at |-> "publish", slot |-> f]
<1>1. NetIdle /\ gns[c] = "up" /\ UNCHANGED <<told, remote, epoch, inbox>>
  BY DEF Connected, recvVars
<1>2. CASE SlotOf(c) = NoSlot /\ FreeSlots = {}
  BY <1>1, <1>2, SlotOfHolder DEF Connected
<1>3. CASE SlotOf(c) # NoSlot
  BY <1>1, <1>3, SlotOfHolder DEF Connected, NetAt
<1>4. CASE SlotOf(c) = NoSlot /\ FreeSlots # {}
  <2>1. FindFreeSlot \in ClientSlots /\ peerConns[FindFreeSlot] = Nobody
    BY <1>4, FindFreeSlotIsFree DEF FreeSlots
  <2>2. \A s \in ClientSlots : peerConns[s] # c
    BY <1>4, SlotOfHolder
  <2>3. tag[c] = NoSlot
    BY <1>1, <2>2 DEF SlotInv, Typed, TagsMatchSlots
  <2>4. QED
    BY <1>1, <1>4, <2>1, <2>2, <2>3 DEF Connected, NetAt
<1>5. QED
  BY <1>2, <1>3, <1>4

LEMMA ClosedFrees ==
    ASSUME SlotInv, NEW c \in Clients, Closed(c)
    PROVE  /\ NetIdle /\ gns[c] = "lost"
           /\ gns' = [gns EXCEPT ![c] = "gone"]
           /\ UNCHANGED <<tag, told, lanes, remote, epoch, inbox>>
           /\ \/ /\ \A s \in ClientSlots : peerConns[s] # c
                 /\ UNCHANGED peerConns
                 /\ net' = [at |-> "aggregate", slot |-> NoSlot]
              \/ \E f \in ClientSlots :
                    /\ peerConns[f] = c
                    /\ peerConns' = [peerConns EXCEPT ![f] = Nobody]
                    /\ net' = [at |-> "unready", slot |-> f]
<1>1. CASE SlotOf(c) = NoSlot
  BY <1>1, SlotOfHolder DEF Closed, NetAt, recvVars
<1>2. CASE SlotOf(c) # NoSlot
  BY <1>2, SlotOfHolder DEF Closed, NetAt, recvVars
<1>3. QED
  BY <1>1, <1>2

-----------------------------------------------------------------------------
(* Every step of the net thread, of the transport and of the game thread's *)
(* inbox loop keeps it.                                                    *)

(* A connection that moves on is not told, and stays live if it was. *)
LEMMA TransportKeepsQueueInv ==
    ASSUME SlotInv, QueueInv, NEW c \in Clients, Dial(c) \/ Establish(c) \/ Lose(c)
    PROVE  QueueInv'
<1>a. /\ \/ gns[c] = "new" /\ gns' = [gns EXCEPT ![c] = "dialing"]
         \/ gns[c] \in {"accepted", "dialing"} /\ gns' = [gns EXCEPT ![c] = "up"]
         \/ gns[c] \in {"dialing", "accepted", "open"} /\ gns' = [gns EXCEPT ![c] = "lost"]
      /\ UNCHANGED <<tag, told, peerConns, lanes, remote, epoch, inbox, net>>
  BY DEF Dial, Establish, Lose, GnsStep, slotVars, recvVars
<1>f. \A m \in Queued : m.slot \in ClientSlots /\ m.from \in Clients
  BY QueuedFields DEF QueueInv
<1> USE DEF SlotInv, Typed, QueueInv
<1>q. inbox' \in Seq(Messages) /\ Queued' = Queued
  BY <1>a DEF Queued
<1>1. ToldAreReady'
  BY SessionAssumption, <1>f, <1>q, <1>a
     DEF ToldAreReady, AtItsSlot, ReadyIsHeld, TagsMatchSlots, NetIdle
<1>2. QueuedFromOccupants'
  BY SessionAssumption, <1>f, <1>q, <1>a
     DEF QueuedFromOccupants, Leaving, AtItsSlot, NetIdle, TagsMatchSlots
<1>3. SendersTagged'
  BY SessionAssumption, <1>f, <1>q, <1>a
     DEF SendersTagged, ToldAreReady
<1>4. OpenIsReady'
  BY SessionAssumption, <1>f, <1>q, <1>a
     DEF OpenIsReady, SlotConnected, TagsMatchSlots, AtItsSlot
<1>5. ReceivedWhileLive'
  BY SessionAssumption, <1>f, <1>q, <1>a
     DEF ReceivedWhileLive, Live, ComingUp, SlotConnected, Leaving, OpenIsReady, NetIdle, TagsMatchSlots, AtItsSlot, ReadyIsHeld
<1>6. QED
  BY <1>q, <1>1, <1>2, <1>3, <1>4, <1>5

(* A refused client has sent nothing. *)
LEMMA RefuseKeepsQueueInv ==
    ASSUME SlotInv, QueueInv, NEW c \in Clients, Refuse(c)
    PROVE  QueueInv'
<1>a. /\ gns[c] = "dialing" /\ gns' = [gns EXCEPT ![c] = "gone"]
      /\ UNCHANGED <<tag, told, peerConns, lanes, remote, epoch, inbox, net>>
  BY DEF Refuse, GnsStep, slotVars, recvVars
<1>f. \A m \in Queued : m.slot \in ClientSlots /\ m.from \in Clients
  BY QueuedFields DEF QueueInv
<1> USE DEF SlotInv, Typed, QueueInv
<1>q. inbox' \in Seq(Messages) /\ Queued' = Queued
  BY <1>a DEF Queued
<1>1. ToldAreReady'
  BY SessionAssumption, <1>f, <1>q, <1>a
     DEF ToldAreReady, AtItsSlot, ReadyIsHeld, TagsMatchSlots, NetIdle
<1>2. QueuedFromOccupants'
  BY SessionAssumption, <1>f, <1>q, <1>a
     DEF QueuedFromOccupants, Leaving, AtItsSlot, NetIdle, TagsMatchSlots
<1>3. SendersTagged'
  BY SessionAssumption, <1>f, <1>q, <1>a
     DEF SendersTagged, ToldAreReady
<1>4. OpenIsReady'
  BY SessionAssumption, <1>f, <1>q, <1>a
     DEF OpenIsReady, SlotConnected, TagsMatchSlots, AtItsSlot
<1>5. ReceivedWhileLive'
  BY SessionAssumption, <1>f, <1>q, <1>a
     DEF ReceivedWhileLive, Live, ComingUp, SlotConnected, Leaving, OpenIsReady, NetIdle, TagsMatchSlots, AtItsSlot, ReadyIsHeld
<1>6. QED
  BY <1>q, <1>1, <1>2, <1>3, <1>4, <1>5

(* A slot that is taken is empty-handed: its queue was purged.             *)
LEMMA AcceptKeepsQueueInv ==
    ASSUME SlotInv, QueueInv, NEW c \in Clients, Accept(c)
    PROVE  QueueInv'
<1>a. PICK f \in ClientSlots :
        /\ NetIdle /\ gns[c] = "dialing" /\ peerConns[f] = Nobody
        /\ gns' = [gns EXCEPT ![c] = "accepted"]
        /\ tag' = [tag EXCEPT ![c] = f]
        /\ peerConns' = [peerConns EXCEPT ![f] = c]
        /\ UNCHANGED <<told, lanes, remote, epoch, inbox, net>>
  BY AcceptTakesFree
<1>f. \A m \in Queued : m.slot \in ClientSlots /\ m.from \in Clients
  BY QueuedFields DEF QueueInv
<1> USE DEF SlotInv, Typed, QueueInv
<1>q. inbox' \in Seq(Messages) /\ Queued' = Queued
  BY <1>a DEF Queued
<1>1. ToldAreReady'
  BY SessionAssumption, <1>f, <1>q, <1>a
     DEF ToldAreReady, AtItsSlot, ReadyIsHeld, TagsMatchSlots, NetIdle
<1>2. QueuedFromOccupants'
  BY SessionAssumption, <1>f, <1>q, <1>a
     DEF QueuedFromOccupants, Leaving, AtItsSlot, NetIdle, TagsMatchSlots
<1>3. SendersTagged'
  BY SessionAssumption, <1>f, <1>q, <1>a
     DEF SendersTagged, ToldAreReady
<1>4. OpenIsReady'
  BY SessionAssumption, <1>f, <1>q, <1>a
     DEF OpenIsReady, SlotConnected, TagsMatchSlots, AtItsSlot
<1>5. ReceivedWhileLive'
  BY SessionAssumption, <1>f, <1>q, <1>a
     DEF ReceivedWhileLive, Live, ComingUp, SlotConnected, Leaving, OpenIsReady, NetIdle, TagsMatchSlots, AtItsSlot, ReadyIsHeld
<1>6. QED
  BY <1>q, <1>1, <1>2, <1>3, <1>4, <1>5

(* A client that comes up was live before, or had no slot and sent nothing. *)
LEMMA ConnectedKeepsQueueInv ==
    ASSUME SlotInv, QueueInv, NEW c \in Clients, Connected(c)
    PROVE  QueueInv'
<1>a. NetIdle /\ gns[c] = "up" /\ UNCHANGED <<told, remote, epoch, inbox>>
  BY ConnectedTakesOwnOrFree
<1>f. \A m \in Queued : m.slot \in ClientSlots /\ m.from \in Clients
  BY QueuedFields DEF QueueInv
<1> USE DEF SlotInv, Typed, QueueInv
<1>q. inbox' \in Seq(Messages) /\ Queued' = Queued
  BY <1>a DEF Queued
<1>1. CASE /\ \A s \in ClientSlots : peerConns[s] # c
           /\ gns' = [gns EXCEPT ![c] = "gone"]
           /\ UNCHANGED <<tag, peerConns, lanes, net>>
  <2>1. ToldAreReady'
    BY SessionAssumption, <1>f, <1>q, <1>a, <1>1
       DEF ToldAreReady, AtItsSlot, ReadyIsHeld, TagsMatchSlots, NetIdle
  <2>2. QueuedFromOccupants'
    BY SessionAssumption, <1>f, <1>q, <1>a, <1>1
       DEF QueuedFromOccupants, Leaving, AtItsSlot, NetIdle, TagsMatchSlots
  <2>3. SendersTagged'
    BY SessionAssumption, <1>f, <1>q, <1>a, <1>1
       DEF SendersTagged, ToldAreReady
  <2>4. OpenIsReady'
    BY SessionAssumption, <1>f, <1>q, <1>a, <1>1
       DEF OpenIsReady, SlotConnected, TagsMatchSlots, AtItsSlot
  <2>5. ReceivedWhileLive'
    BY SessionAssumption, <1>f, <1>q, <1>a, <1>1
       DEF ReceivedWhileLive, Live, ComingUp, SlotConnected, Leaving, OpenIsReady, NetIdle, TagsMatchSlots, AtItsSlot, ReadyIsHeld
  <2>6. QED
    BY <1>q, <2>1, <2>2, <2>3, <2>4, <2>5
<1>2. ASSUME NEW f \in ClientSlots,
             \/ peerConns[f] = c
             \/ peerConns[f] = Nobody /\ tag[c] = NoSlot
                   /\ \A s \in ClientSlots : peerConns[s] # c,
             gns' = [gns EXCEPT ![c] = "open"],
             tag' = [tag EXCEPT ![c] = f],
             peerConns' = [peerConns EXCEPT ![f] = c],
             lanes' = [lanes EXCEPT ![f] = TRUE],
             net' = [at |-> "publish", slot |-> f]
      PROVE  QueueInv'
  <2>0. \A m \in Queued : m.from = c => m.slot = f
    BY SessionAssumption, <1>f, <1>2 DEF SendersTagged, TagsMatchSlots, NoSlot, ClientSlots
  <2>1. ToldAreReady'
    BY SessionAssumption, <1>f, <1>q, <1>a, <1>2, <2>0
       DEF ToldAreReady, AtItsSlot, ReadyIsHeld, TagsMatchSlots, NetIdle
  <2>2. QueuedFromOccupants'
    BY SessionAssumption, <1>f, <1>q, <1>a, <1>2, <2>0
       DEF QueuedFromOccupants, Leaving, AtItsSlot, NetIdle, TagsMatchSlots
  <2>3. SendersTagged'
    BY SessionAssumption, <1>f, <1>q, <1>a, <1>2, <2>0
       DEF SendersTagged, ToldAreReady
  <2>4. OpenIsReady'
    BY SessionAssumption, <1>f, <1>q, <1>a, <1>2, <2>0
       DEF OpenIsReady, SlotConnected, TagsMatchSlots, AtItsSlot
  <2>5. ReceivedWhileLive'
    BY SessionAssumption, <1>f, <1>q, <1>a, <1>2, <2>0
       DEF ReceivedWhileLive, Live, ComingUp, SlotConnected, Leaving, OpenIsReady, NetIdle, TagsMatchSlots, AtItsSlot, ReadyIsHeld
  <2>6. QED
    BY <1>q, <2>1, <2>2, <2>3, <2>4, <2>5
<1>3. QED
  BY <1>1, <1>2, ConnectedTakesOwnOrFree

(* The client that is told has just been let in. *)
LEMMA PublishConnectedKeepsQueueInv ==
    ASSUME SlotInv, QueueInv, PublishConnected
    PROVE  QueueInv'
<1>a. /\ net.at = "publish" /\ net' = [at |-> "idle", slot |-> NoSlot]
      /\ told' = told \cup {peerConns[net.slot]}
      /\ UNCHANGED <<gns, tag, peerConns, lanes, remote, epoch, inbox>>
  BY DEF PublishConnected, NetDone, NetAt, recvVars
<1>f. \A m \in Queued : m.slot \in ClientSlots /\ m.from \in Clients
  BY QueuedFields DEF QueueInv
<1> USE DEF SlotInv, Typed, QueueInv
<1>q. inbox' \in Seq(Messages) /\ Queued' = Queued
  BY <1>a DEF Queued
<1>1. ToldAreReady'
  BY SessionAssumption, <1>f, <1>q, <1>a
     DEF ToldAreReady, AtItsSlot, ReadyIsHeld, TagsMatchSlots, NetIdle
<1>2. QueuedFromOccupants'
  BY SessionAssumption, <1>f, <1>q, <1>a
     DEF QueuedFromOccupants, Leaving, AtItsSlot, NetIdle, TagsMatchSlots
<1>3. SendersTagged'
  BY SessionAssumption, <1>f, <1>q, <1>a
     DEF SendersTagged, ToldAreReady
<1>4. OpenIsReady'
  BY SessionAssumption, <1>f, <1>q, <1>a
     DEF OpenIsReady, SlotConnected, TagsMatchSlots, AtItsSlot
<1>5. ReceivedWhileLive'
  BY SessionAssumption, <1>f, <1>q, <1>a
     DEF ReceivedWhileLive, Live, ComingUp, SlotConnected, Leaving, OpenIsReady, NetIdle, TagsMatchSlots, AtItsSlot, ReadyIsHeld
<1>6. QED
  BY <1>q, <1>1, <1>2, <1>3, <1>4, <1>5

(* What the slot still holds is on its way out.                            *)
LEMMA ClosedKeepsQueueInv ==
    ASSUME SlotInv, QueueInv, NEW c \in Clients, Closed(c)
    PROVE  QueueInv'
<1>a. /\ NetIdle /\ gns[c] = "lost"
      /\ gns' = [gns EXCEPT ![c] = "gone"]
      /\ UNCHANGED <<tag, told, lanes, remote, epoch, inbox>>
  BY ClosedFrees
<1>f. \A m \in Queued : m.slot \in ClientSlots /\ m.from \in Clients
  BY QueuedFields DEF QueueInv
<1> USE DEF SlotInv, Typed, QueueInv
<1>q. inbox' \in Seq(Messages) /\ Queued' = Queued
  BY <1>a DEF Queued
<1>1. CASE /\ \A s \in ClientSlots : peerConns[s] # c
           /\ UNCHANGED peerConns
           /\ net' = [at |-> "aggregate", slot |-> NoSlot]
  <2>1. ToldAreReady'
    BY SessionAssumption, <1>f, <1>q, <1>a, <1>1
       DEF ToldAreReady, AtItsSlot, ReadyIsHeld, TagsMatchSlots, NetIdle
  <2>2. QueuedFromOccupants'
    BY SessionAssumption, <1>f, <1>q, <1>a, <1>1
       DEF QueuedFromOccupants, Leaving, AtItsSlot, NetIdle, TagsMatchSlots
  <2>3. SendersTagged'
    BY SessionAssumption, <1>f, <1>q, <1>a, <1>1
       DEF SendersTagged, ToldAreReady
  <2>4. OpenIsReady'
    BY SessionAssumption, <1>f, <1>q, <1>a, <1>1
       DEF OpenIsReady, SlotConnected, TagsMatchSlots, AtItsSlot
  <2>5. ReceivedWhileLive'
    BY SessionAssumption, <1>f, <1>q, <1>a, <1>1
       DEF ReceivedWhileLive, Live, ComingUp, SlotConnected, Leaving, OpenIsReady, NetIdle, TagsMatchSlots, AtItsSlot, ReadyIsHeld
  <2>6. QED
    BY <1>q, <2>1, <2>2, <2>3, <2>4, <2>5
<1>2. ASSUME NEW f \in ClientSlots,
             peerConns[f] = c,
             peerConns' = [peerConns EXCEPT ![f] = Nobody],
             net' = [at |-> "unready", slot |-> f]
      PROVE  QueueInv'
  <2>1. ToldAreReady'
    BY SessionAssumption, <1>f, <1>q, <1>a, <1>2
       DEF ToldAreReady, AtItsSlot, ReadyIsHeld, TagsMatchSlots, NetIdle
  <2>2. QueuedFromOccupants'
    BY SessionAssumption, <1>f, <1>q, <1>a, <1>2
       DEF QueuedFromOccupants, Leaving, AtItsSlot, NetIdle, TagsMatchSlots
  <2>3. SendersTagged'
    BY SessionAssumption, <1>f, <1>q, <1>a, <1>2
       DEF SendersTagged, ToldAreReady
  <2>4. OpenIsReady'
    BY SessionAssumption, <1>f, <1>q, <1>a, <1>2
       DEF OpenIsReady, SlotConnected, TagsMatchSlots, AtItsSlot
  <2>5. ReceivedWhileLive'
    BY SessionAssumption, <1>f, <1>q, <1>a, <1>2
       DEF ReceivedWhileLive, Live, ComingUp, SlotConnected, Leaving, OpenIsReady, NetIdle, TagsMatchSlots, AtItsSlot, ReadyIsHeld
  <2>6. QED
    BY <1>q, <2>1, <2>2, <2>3, <2>4, <2>5
<1>3. QED
  BY <1>1, <1>2, ClosedFrees

(* Nobody holds the slot that is no longer ready. *)
LEMMA ClearLanesKeepsQueueInv ==
    ASSUME SlotInv, QueueInv, ClearLanes
    PROVE  QueueInv'
<1>a. /\ net.at = "unready" /\ net' = [at |-> "reset", slot |-> net.slot]
      /\ lanes' = [lanes EXCEPT ![net.slot] = FALSE]
      /\ UNCHANGED <<gns, tag, told, peerConns, remote, epoch, inbox>>
  BY DEF ClearLanes, NetAt, gnsVars, recvVars
<1>f. \A m \in Queued : m.slot \in ClientSlots /\ m.from \in Clients
  BY QueuedFields DEF QueueInv
<1> USE DEF SlotInv, Typed, QueueInv
<1>q. inbox' \in Seq(Messages) /\ Queued' = Queued
  BY <1>a DEF Queued
<1>1. ToldAreReady'
  BY SessionAssumption, <1>f, <1>q, <1>a
     DEF ToldAreReady, AtItsSlot, ReadyIsHeld, TagsMatchSlots, NetIdle
<1>2. QueuedFromOccupants'
  BY SessionAssumption, <1>f, <1>q, <1>a
     DEF QueuedFromOccupants, Leaving, AtItsSlot, NetIdle, TagsMatchSlots
<1>3. SendersTagged'
  BY SessionAssumption, <1>f, <1>q, <1>a
     DEF SendersTagged, ToldAreReady
<1>4. OpenIsReady'
  BY SessionAssumption, <1>f, <1>q, <1>a
     DEF OpenIsReady, SlotConnected, TagsMatchSlots, AtItsSlot
<1>5. ReceivedWhileLive'
  BY SessionAssumption, <1>f, <1>q, <1>a
     DEF ReceivedWhileLive, Live, ComingUp, SlotConnected, Leaving, OpenIsReady, NetIdle, TagsMatchSlots, AtItsSlot, ReadyIsHeld
<1>6. QED
  BY <1>q, <1>1, <1>2, <1>3, <1>4, <1>5

(* What was stored for the slot goes. *)
LEMMA ResetRemoteKeepsQueueInv ==
    ASSUME SlotInv, QueueInv, ResetRemote
    PROVE  QueueInv'
<1>a. /\ net.at = "reset" /\ net' = [at |-> "purge", slot |-> net.slot]
      /\ remote' = [s \in ClientSlots |-> IF s = net.slot THEN Nobody ELSE remote[s]]
      /\ UNCHANGED <<gns, tag, told, peerConns, lanes, inbox>>
  BY DEF ResetRemote, ResetPeerRemoteState, NetAt, gnsVars, slotVars
<1>f. \A m \in Queued : m.slot \in ClientSlots /\ m.from \in Clients
  BY QueuedFields DEF QueueInv
<1> USE DEF SlotInv, Typed, QueueInv
<1>q. inbox' \in Seq(Messages) /\ Queued' = Queued
  BY <1>a DEF Queued
<1>1. ToldAreReady'
  BY SessionAssumption, <1>f, <1>q, <1>a
     DEF ToldAreReady, AtItsSlot, ReadyIsHeld, TagsMatchSlots, NetIdle
<1>2. QueuedFromOccupants'
  BY SessionAssumption, <1>f, <1>q, <1>a
     DEF QueuedFromOccupants, Leaving, AtItsSlot, NetIdle, TagsMatchSlots
<1>3. SendersTagged'
  BY SessionAssumption, <1>f, <1>q, <1>a
     DEF SendersTagged, ToldAreReady
<1>4. OpenIsReady'
  BY SessionAssumption, <1>f, <1>q, <1>a
     DEF OpenIsReady, SlotConnected, TagsMatchSlots, AtItsSlot
<1>5. ReceivedWhileLive'
  BY SessionAssumption, <1>f, <1>q, <1>a
     DEF ReceivedWhileLive, Live, ComingUp, SlotConnected, Leaving, OpenIsReady, NetIdle, TagsMatchSlots, AtItsSlot, ReadyIsHeld
<1>6. QED
  BY <1>q, <1>1, <1>2, <1>3, <1>4, <1>5

(* The last store of a callback finds the queue purged. *)
LEMMA AggregateKeepsQueueInv ==
    ASSUME SlotInv, QueueInv, Aggregate \/ ResetAll
    PROVE  QueueInv'
<1>a. /\ net.at \in {"aggregate", "clear"} /\ net'.at \in {"idle", "clear", "empty"}
      /\ remote' \in [ClientSlots -> Clients \cup {Nobody}]
      /\ \A s \in ClientSlots : remote'[s] \in {Nobody, remote[s]}
      /\ UNCHANGED <<gns, tag, told, peerConns, lanes, inbox>>
  BY DEF Aggregate, ResetAll, ResetPeerRemoteState, NetAt, NetDone, gnsVars, slotVars, recvVars, SlotInv, Typed
<1>f. \A m \in Queued : m.slot \in ClientSlots /\ m.from \in Clients
  BY QueuedFields DEF QueueInv
<1> USE DEF SlotInv, Typed, QueueInv
<1>q. inbox' \in Seq(Messages) /\ Queued' = Queued
  BY <1>a DEF Queued
<1>1. ToldAreReady'
  BY SessionAssumption, <1>f, <1>q, <1>a
     DEF ToldAreReady, AtItsSlot, ReadyIsHeld, TagsMatchSlots, NetIdle
<1>2. QueuedFromOccupants'
  BY SessionAssumption, <1>f, <1>q, <1>a
     DEF QueuedFromOccupants, Leaving, AtItsSlot, NetIdle, TagsMatchSlots
<1>3. SendersTagged'
  BY SessionAssumption, <1>f, <1>q, <1>a
     DEF SendersTagged, ToldAreReady
<1>4. OpenIsReady'
  BY SessionAssumption, <1>f, <1>q, <1>a
     DEF OpenIsReady, SlotConnected, TagsMatchSlots, AtItsSlot
<1>5. ReceivedWhileLive'
  BY SessionAssumption, <1>f, <1>q, <1>a
     DEF ReceivedWhileLive, Live, ComingUp, SlotConnected, Leaving, OpenIsReady, NetIdle, TagsMatchSlots, AtItsSlot, ReadyIsHeld
<1>6. QED
  BY <1>q, <1>1, <1>2, <1>3, <1>4, <1>5

(* A queue that only loses messages keeps the invariant: PurgeInbox loses  *)
(* those of the slot that was given up, EmptyInbox all, and the game thread *)
(* the one it handles.                                                     *)
LEMMA ShorterQueueKeepsQueueInv ==
    ASSUME SlotInv, QueueInv, inbox' \in Seq(Messages), Queued' \subseteq Queued,
           UNCHANGED <<gns, tag, told, peerConns, lanes, remote>>,
           \/ UNCHANGED net
           \/ net.at = "purge" /\ net'.at = "aggregate"
                 /\ \A m \in Queued' : m.slot # net.slot
           \/ net.at = "empty" /\ net'.at = "idle"
    PROVE  QueueInv'
<1>f. \A m \in Queued : m.slot \in ClientSlots /\ m.from \in Clients
  BY QueuedFields DEF QueueInv
<1> USE DEF SlotInv, Typed, QueueInv
<1>1. ToldAreReady'
  BY SessionAssumption, <1>f
     DEF ToldAreReady, AtItsSlot, ReadyIsHeld, TagsMatchSlots, NetIdle
<1>2. QueuedFromOccupants'
  BY SessionAssumption, <1>f
     DEF QueuedFromOccupants, Leaving, AtItsSlot, NetIdle, TagsMatchSlots
<1>3. SendersTagged'
  BY SessionAssumption, <1>f
     DEF SendersTagged, ToldAreReady
<1>4. OpenIsReady'
  BY SessionAssumption, <1>f
     DEF OpenIsReady, SlotConnected, TagsMatchSlots, AtItsSlot
<1>5. ReceivedWhileLive'
  BY SessionAssumption, <1>f
     DEF ReceivedWhileLive, Live, ComingUp, SlotConnected, Leaving, OpenIsReady, NetIdle, TagsMatchSlots, AtItsSlot, ReadyIsHeld
<1>6. QED
  BY <1>1, <1>2, <1>3, <1>4, <1>5

LEMMA PurgeInboxKeepsQueueInv ==
    ASSUME SlotInv, QueueInv, PurgeInbox
    PROVE  QueueInv'
<1> DEFINE stay == {i \in DOMAIN inbox : inbox[i].slot # net.slot}
<1>1. /\ net.at = "purge" /\ net'.at = "aggregate"
      /\ inbox' = Kept(inbox, stay)
      /\ UNCHANGED <<gns, tag, told, peerConns, lanes, remote>>
  BY DEF PurgeInbox, NetAt, gnsVars, slotVars
<1>2. stay \in SUBSET DOMAIN inbox
  OBVIOUS
<1>3. /\ inbox' \in Seq(Messages)
      /\ \A n \in DOMAIN inbox' : \E i \in stay : inbox'[n] = inbox[i]
  <2> HIDE DEF stay
  <2>1. QED BY <1>1, <1>2, KeptElements DEF QueueInv
<1>4. \A m \in Queued' : m \in Queued /\ m.slot # net.slot
  BY <1>3 DEF Queued, ToSet
<1>5. QED
  BY <1>1, <1>3, <1>4, ShorterQueueKeepsQueueInv

LEMMA EmptyInboxKeepsQueueInv ==
    ASSUME SlotInv, QueueInv, EmptyInbox
    PROVE  QueueInv'
<1>1. /\ net.at = "empty" /\ net'.at = "idle" /\ inbox' = <<>>
      /\ UNCHANGED <<gns, tag, told, peerConns, lanes, remote>>
  BY DEF EmptyInbox, NetDone, NetAt, gnsVars, slotVars
<1>2. inbox' \in Seq(Messages) /\ Queued' = {}
  BY <1>1, EmptySeq DEF Queued, ToSet
<1>3. QED
  BY <1>1, <1>2, ShorterQueueKeepsQueueInv

(* The game thread takes the message at the head.                          *)
LEMMA PopKeepsQueueInv ==
    ASSUME SlotInv, QueueInv, inbox # <<>>, inbox' = Tail(inbox),
           UNCHANGED <<gns, tag, told, peerConns, lanes, remote, net>>
    PROVE  QueueInv'
<1>1. inbox' \in Seq(Messages) /\ Queued' \subseteq Queued
  BY TailElements DEF QueueInv, Queued
<1>2. QED
  BY <1>1, ShorterQueueKeepsQueueInv

(* What is received is the slot's occupant's, who is live.                 *)
LEMMA ReceivePoseKeepsQueueInv ==
    ASSUME SlotInv, QueueInv, NEW c \in Clients, ReceivePose(c)
    PROVE  QueueInv'
<1>a. /\ NetIdle /\ gns[c] \in {"up", "open"}
      /\ tag[c] \in ClientSlots /\ peerConns[tag[c]] = c
      /\ remote' \in {remote, [remote EXCEPT ![tag[c]] = c]}
      /\ UNCHANGED <<gns, tag, told, peerConns, lanes, inbox, net>>
  BY ReceiverHoldsItsSlot DEF ReceivePose, Receives, gnsVars, slotVars
<1>f. \A m \in Queued : m.slot \in ClientSlots /\ m.from \in Clients
  BY QueuedFields DEF QueueInv
<1> USE DEF SlotInv, Typed, QueueInv
<1>q. inbox' \in Seq(Messages) /\ Queued' = Queued
  BY <1>a DEF Queued
<1>1. ToldAreReady'
  BY SessionAssumption, <1>f, <1>q, <1>a
     DEF ToldAreReady, AtItsSlot, ReadyIsHeld, TagsMatchSlots, NetIdle
<1>2. QueuedFromOccupants'
  BY SessionAssumption, <1>f, <1>q, <1>a
     DEF QueuedFromOccupants, Leaving, AtItsSlot, NetIdle, TagsMatchSlots
<1>3. SendersTagged'
  BY SessionAssumption, <1>f, <1>q, <1>a
     DEF SendersTagged, ToldAreReady
<1>4. OpenIsReady'
  BY SessionAssumption, <1>f, <1>q, <1>a
     DEF OpenIsReady, SlotConnected, TagsMatchSlots, AtItsSlot
<1>5. ReceivedWhileLive'
  BY SessionAssumption, <1>f, <1>q, <1>a
     DEF ReceivedWhileLive, Live, ComingUp, SlotConnected, Leaving, OpenIsReady, NetIdle, TagsMatchSlots, AtItsSlot, ReadyIsHeld
<1>6. QED
  BY <1>q, <1>1, <1>2, <1>3, <1>4, <1>5

LEMMA ReceiveReliableKeepsQueueInv ==
    ASSUME SlotInv, QueueInv, NEW c \in Clients, NEW kind \in Kinds, ReceiveReliable(c, kind)
    PROVE  QueueInv'
<1> DEFINE new == [kind |-> kind, slot |-> tag[c], from |-> c]
<1>a. /\ NetIdle /\ gns[c] \in {"up", "open"}
      /\ tag[c] \in ClientSlots /\ peerConns[tag[c]] = c
      /\ kind = "Join" => c \in told
      /\ inbox' = inbox \/ inbox' = Append(inbox, new)
      /\ UNCHANGED <<gns, tag, told, peerConns, lanes, remote, net>>
  BY ReceiverHoldsItsSlot DEF ReceiveReliable, Receives, slotVars
<1>b. /\ new \in Messages
      /\ new.kind = kind /\ new.slot = tag[c] /\ new.from = c
  BY <1>a DEF Messages
<1> HIDE DEF new
<1>q. inbox' \in Seq(Messages) /\ \A m \in Queued' : m \in Queued \/ m = new
  <2>1. inbox' = inbox => ToSet(inbox') = ToSet(inbox)
    OBVIOUS
  <2>2. inbox' = Append(inbox, new) =>
          inbox' \in Seq(Messages) /\ ToSet(inbox') = ToSet(inbox) \cup {new}
    BY <1>b, AppendElements DEF QueueInv
  <2>3. QED BY <1>a, <2>1, <2>2 DEF QueueInv, Queued
<1>f. \A m \in Queued : m.slot \in ClientSlots /\ m.from \in Clients
  BY QueuedFields DEF QueueInv
<1> USE DEF SlotInv, Typed, QueueInv
<1>1. ToldAreReady'
  BY SessionAssumption, <1>f, <1>q, <1>a, <1>b
     DEF ToldAreReady, AtItsSlot, ReadyIsHeld, TagsMatchSlots, NetIdle
<1>2. QueuedFromOccupants'
  BY SessionAssumption, <1>f, <1>q, <1>a, <1>b
     DEF QueuedFromOccupants, Leaving, AtItsSlot, NetIdle, TagsMatchSlots
<1>3. SendersTagged'
  BY SessionAssumption, <1>f, <1>q, <1>a, <1>b
     DEF SendersTagged, ToldAreReady
<1>4. OpenIsReady'
  BY SessionAssumption, <1>f, <1>q, <1>a, <1>b
     DEF OpenIsReady, SlotConnected, TagsMatchSlots, AtItsSlot
<1>5. ReceivedWhileLive'
  BY SessionAssumption, <1>f, <1>q, <1>a, <1>b
     DEF ReceivedWhileLive, Live, ComingUp, SlotConnected, Leaving, OpenIsReady, NetIdle, TagsMatchSlots, AtItsSlot, ReadyIsHeld
<1>6. QED
  BY <1>q, <1>1, <1>2, <1>3, <1>4, <1>5

(* The two invariants together are kept by every step of the net thread    *)
(* and by every step that leaves their variables alone.                    *)
THEOREM NetNextKeepsQueueInv ==
    SlotInv /\ QueueInv /\ [NetNext]_queueInvVars => QueueInv'
<1> SUFFICES ASSUME SlotInv, QueueInv, [NetNext]_queueInvVars PROVE QueueInv'
  OBVIOUS
<1>1. CASE UNCHANGED queueInvVars
  <2>1. Queued' = Queued /\ UNCHANGED <<gns, tag, told, peerConns, lanes, remote, inbox, net>>
    BY <1>1 DEF queueInvVars, slotInvVars, Queued
  <2>2. QED
    BY <2>1, ShorterQueueKeepsQueueInv DEF QueueInv
<1>2. CASE GnsNext
  BY <1>2, TransportKeepsQueueInv DEF GnsNext
<1>3. CASE Callback
  BY <1>3, RefuseKeepsQueueInv, AcceptKeepsQueueInv, ConnectedKeepsQueueInv,
     ClosedKeepsQueueInv, PublishConnectedKeepsQueueInv, ClearLanesKeepsQueueInv,
     ResetRemoteKeepsQueueInv, PurgeInboxKeepsQueueInv, AggregateKeepsQueueInv,
     EmptyInboxKeepsQueueInv
     DEF Callback
<1>4. CASE Receive
  BY <1>4, ReceivePoseKeepsQueueInv, ReceiveReliableKeepsQueueInv DEF Receive
<1>5. QED
  BY <1>1, <1>2, <1>3, <1>4 DEF NetNext

LEMMA QueueInvFromOccupant == QueueInv => InboxFromOccupant
BY DEF QueueInv, QueuedFromOccupants, Queued, ToSet, InboxFromOccupant
=============================================================================
