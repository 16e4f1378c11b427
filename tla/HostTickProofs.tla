--------------------------- MODULE HostTickProofs ---------------------------
(***************************************************************************)
(* Proofs about the host, for every set of clients and any number of slots.*)
(*                                                                         *)
(* SlotInv and QueueInv are about the net thread and hold whatever the     *)
(* tick and the callbacks overlap, as the game thread only takes messages  *)
(* off the queue; so does JoinInv, about what a Join establishes.  Where   *)
(* ticks and callbacks do not overlap and no edge is missed, EdgeInv says  *)
(* what a slot may still show of a client, and SnapInv where the props are *)
(* that a ready slot has not been told of.                                 *)
(***************************************************************************)
EXTENDS HostTick, SessionSlotsProofs

(* A step of the game thread leaves the variables of SlotInv alone.        *)
LEMMA GameKeepsSlots == GameNext => UNCHANGED slotInvVars
<1> SUFFICES ASSUME GameNext PROVE UNCHANGED slotInvVars
  OBVIOUS
<1> USE DEF sessionVars, gnsVars, slotVars, recvVars, slotInvVars
<1>1. CASE \E P \in SUBSET Props : ReSeed(P)
  BY <1>1 DEF ReSeed
<1>2. CASE CatchUp
  BY <1>2 DEF CatchUp
<1>3. CASE BeginTick
  BY <1>3 DEF BeginTick
<1>4. CASE Edge
  BY <1>4 DEF Edge
<1>5. CASE AggregateEdge
  BY <1>5 DEF AggregateEdge
<1>6. CASE Drain
  BY <1>6 DEF Drain
<1>7. CASE DrivePuppet
  BY <1>7 DEF DrivePuppet
<1>8. CASE FeedEdge
  BY <1>8 DEF FeedEdge
<1>9. CASE MaybeSendJoin
  BY <1>9 DEF MaybeSendJoin
<1>10. CASE HandleNext
  BY <1>10 DEF HandleNext
<1>11. CASE EndTick
  BY <1>11 DEF EndTick
<1>12. CASE WorldStep
  BY <1>12 DEF WorldStep
<1>13. QED
  BY <1>1, <1>2, <1>3, <1>4, <1>5, <1>6, <1>7, <1>8, <1>9, <1>10, <1>11, <1>12
     DEF GameNext, TickStep

(* To the net thread's part of the state, a step of the host is a step of  *)
(* SessionSlots. *)
LEMMA HostStepIsNetStep == [Next]_vars => [NetNext]_slotInvVars
<1> SUFFICES ASSUME [Next]_vars PROVE [NetNext]_slotInvVars
  OBVIOUS
<1>1. CASE GameNext
  BY <1>1, GameKeepsSlots
<1>2. CASE NetThreadNext
  BY <1>2 DEF NetThreadNext, NetNext
<1>3. CASE TransportNext
  BY <1>3 DEF TransportNext, NetNext
<1>4. CASE UNCHANGED vars
  BY <1>4 DEF vars, sessionVars, gnsVars, slotVars, recvVars, slotInvVars
<1>5. QED
  BY <1>1, <1>2, <1>3, <1>4 DEF Next

(* SlotInv, the invariant behind the theorems about slots, holds whatever  *)
(* the game thread does: the tick only reads the net thread's variables    *)
(* and pops the inbox (session_status.cpp:38-296, net_pump.cpp:359-434).   *)
THEOREM SlotInvariance == Spec => []SlotInv
<1>1. Init => SlotInv
  BY SlotInvInit DEF Init
<1>2. SlotInv /\ [Next]_vars => SlotInv'
  BY HostStepIsNetStep, NetNextKeepsSlotInv
<1>3. QED
  BY <1>1, <1>2, PTL DEF Spec

(* Whatever the order of callbacks and ticks, a connection's messages are  *)
(* attributed to the slot it holds (session.cpp:666-688).                  *)
THEOREM TagsAlwaysMatchSlots == Spec => []TagsMatchSlots
<1>1. SlotInv => TagsMatchSlots
  BY DEF SlotInv
<1>2. QED
  BY <1>1, SlotInvariance, PTL

(* A puppet never shows a stored pose of a slot's earlier occupant, and a  *)
(* newcomer's packets always pass the epoch latch                          *)
(* (session_status.cpp:247-251).                                           *)
THEOREM RemoteAlwaysFromOccupant == Spec => []RemoteFromOccupant
<1>1. SlotInv => RemoteFromOccupant
  BY DEF SlotInv
<1>2. QED
  BY <1>1, SlotInvariance, PTL

(* Between callbacks the session is Connected exactly while some slot is   *)
(* ready (session_status.cpp:265-278).                                     *)
THEOREM StateAlwaysMatchesSlots == Spec => []StateMatchesSlots
<1>1. SlotInv => StateMatchesSlots
  BY SlotInvStateMatches
<1>2. QED
  BY <1>1, SlotInvariance, PTL

-----------------------------------------------------------------------------
(* A slot changes hands by way of nobody.                                  *)
LEMMA SlotIsFreedFirst ==
    ASSUME SlotInv, Callback \/ Receive, NEW s \in ClientSlots
    PROVE  \/ peerConns'[s] = peerConns[s]
           \/ peerConns[s] = Nobody
           \/ peerConns'[s] = Nobody
<1> USE DEF SlotInv, Typed, gnsVars, slotVars
<1>1. ASSUME NEW c \in Clients, Accept(c) PROVE peerConns'[s] = peerConns[s] \/ peerConns[s] = Nobody
  <2>1. FindFreeSlot \in ClientSlots /\ peerConns[FindFreeSlot] = Nobody
    BY <1>1, FindFreeSlotIsFree DEF Accept, FreeSlots
  <2>2. QED
    BY <1>1, <2>1 DEF Accept
<1>2. ASSUME NEW c \in Clients, Connected(c) PROVE peerConns'[s] = peerConns[s] \/ peerConns[s] = Nobody
  <2>1. CASE SlotOf(c) = NoSlot /\ FreeSlots = {}
    BY <1>2, <2>1 DEF Connected
  <2>2. CASE SlotOf(c) # NoSlot
    BY <1>2, <2>2, SlotOfHolder DEF Connected
  <2>3. CASE SlotOf(c) = NoSlot /\ FreeSlots # {}
    <3>1. FindFreeSlot \in ClientSlots /\ peerConns[FindFreeSlot] = Nobody
      BY <2>3, FindFreeSlotIsFree DEF FreeSlots
    <3>2. QED
      BY <1>2, <2>3, <3>1 DEF Connected
  <2>4. QED
    BY <2>1, <2>2, <2>3
<1>3. ASSUME NEW c \in Clients, Closed(c) PROVE peerConns'[s] \in {peerConns[s], Nobody}
  BY <1>3, SlotOfHolder DEF Closed
<1>4. ASSUME NEW c \in Clients, Refuse(c) PROVE UNCHANGED peerConns
  BY <1>4 DEF Refuse, GnsStep
<1>5. CASE PublishConnected \/ ClearLanes \/ ResetRemote \/ PurgeInbox \/ Aggregate \/ ResetAll \/ EmptyInbox
  BY <1>5 DEF PublishConnected, ClearLanes, ResetRemote, PurgeInbox, Aggregate, ResetAll, EmptyInbox
<1>6. CASE Receive
  BY <1>6 DEF Receive, ReceivePose, ReceiveReliable
<1>7. QED
  BY <1>1, <1>2, <1>3, <1>4, <1>5, <1>6 DEF Callback

(* While the edges are seen and ticks are atomic, a Join latch that is set *)
(* is about the last client the tick has seen on the slot.                 *)
LatchOnHeldSlot ==
    /\ wasHeld \in [ClientSlots -> BOOLEAN]
    /\ joinSent \in [ClientSlots -> Clients \cup {Nobody}]
    /\ tick.slot \in ClientSlots
    /\ At("join") => wasHeld[tick.slot] = SlotConnected(tick.slot)
    /\ \A s \in ClientSlots : joinSent[s] # Nobody =>
          wasHeld[s] /\ peerConns[s] \in {Nobody, joinSent[s]}

(* No Join is latched at first.                                            *)
LEMMA LatchInit == Init => LatchOnHeldSlot
BY SessionAssumption DEF Init, SessionInit, LatchOnHeldSlot, NobodyYet, ClientSlots, At

(* The tick latches the occupant of a slot, and clears the latch when it sees *)
(* the slot go down.                                                       *)
LEMMA GameKeepsLatch ==
    ASSUME Overlap = FALSE, SlotInv, LatchOnHeldSlot, GameNext
    PROVE  LatchOnHeldSlot'
<1>1. NetIdle /\ UNCHANGED <<peerConns, lanes>>
  BY GameKeepsSlots DEF GameNext, slotInvVars
<1>2. 1 \in ClientSlots
  BY SessionAssumption DEF ClientSlots
<1> USE DEF LatchOnHeldSlot, At, Goto, Loop, TickIdle, SlotConnected
<1>3. CASE FeedEdge
  <2>1. /\ tick' = [at |-> "join", slot |-> tick.slot]
        /\ wasHeld' = [wasHeld EXCEPT ![tick.slot] = SlotConnected(tick.slot)]
        /\ IF wasHeld[tick.slot] /\ ~ SlotConnected(tick.slot)
           THEN joinSent' = [joinSent EXCEPT ![tick.slot] = Nobody]
           ELSE UNCHANGED joinSent
    BY <1>3 DEF FeedEdge, OnSlotDisconnected
  <2>2. QED
    BY <1>1, <2>1
<1>4. CASE MaybeSendJoin
  <2>1. /\ UNCHANGED wasHeld
        /\ wasHeld[tick.slot] = SlotConnected(tick.slot)
        /\ \/ tick' = [at |-> "feed", slot |-> tick.slot + 1] /\ tick.slot + 1 \in ClientSlots
           \/ tick' = [at |-> "inbox", slot |-> 1]
        /\ \/ UNCHANGED joinSent
           \/ lanes[tick.slot] /\ joinSent' = [joinSent EXCEPT ![tick.slot] = peerConns[tick.slot]]
    BY <1>4 DEF MaybeSendJoin, edgeVars
  <2>2. lanes[tick.slot] => peerConns[tick.slot] \in Clients
    BY <1>1 DEF SlotInv, ReadyIsHeld, Typed, NetIdle
  <2>3. QED
    BY <1>1, <1>2, <2>1, <2>2, SessionAssumption
<1>5. CASE
        \/ \E P \in SUBSET Props : ReSeed(P)
        \/ CatchUp \/ BeginTick \/ Edge \/ AggregateEdge \/ Drain \/ DrivePuppet
        \/ HandleNext \/ EndTick \/ WorldStep
  <2>1. /\ UNCHANGED <<wasHeld, joinSent>>
        /\ tick'.slot \in ClientSlots
        /\ tick'.at # "join"
    BY <1>2, <1>5
       DEF ReSeed, CatchUp, BeginTick, Edge, AggregateEdge, Drain, DrivePuppet,
           HandleNext, EndTick, WorldStep, tickVars, edgeVars, peerVars
  <2>2. QED
    BY <1>1, <2>1
<1>6. QED
  BY <1>3, <1>4, <1>5 DEF GameNext, TickStep

(* A callback takes a slot from its occupant only when no latch is set for *)
(* another: the tick has seen the edge.                                    *)
LEMMA LatchStep ==
    ASSUME Overlap = FALSE, MissedEdges = FALSE, SlotInv, LatchOnHeldSlot, [Next]_vars
    PROVE  LatchOnHeldSlot'
<1>1. CASE GameNext
  BY <1>1, GameKeepsLatch
<1>2. CASE NetThreadNext
  <2>1. /\ TickIdle /\ EdgesSeen
        /\ Callback \/ Receive
        /\ UNCHANGED <<tick, wasHeld, joinSent>>
    BY <1>2 DEF NetThreadNext, tickVars, edgeVars, peerVars
  <2>2. \A s \in ClientSlots :
          peerConns'[s] = peerConns[s] \/ peerConns'[s] = Nobody \/ ~ wasHeld[s]
    BY <2>1, SlotIsFreedFirst DEF EdgesSeen, SlotConnected
  <2>3. QED
    BY <2>1, <2>2 DEF LatchOnHeldSlot, TickIdle, At
<1>3. CASE TransportNext
  BY <1>3 DEF TransportNext, GnsNext, Dial, Establish, Lose, GnsStep, slotVars, tickVars,
     edgeVars, peerVars, LatchOnHeldSlot, At, SlotConnected
<1>4. CASE UNCHANGED vars
  BY <1>4 DEF vars, sessionVars, slotVars, tickVars, edgeVars, peerVars, LatchOnHeldSlot,
     At, SlotConnected
<1>5. QED
  BY <1>1, <1>2, <1>3, <1>4 DEF Next

(* If ticks are atomic and see every edge, a client is never denied its    *)
(* Join because the slot's last client got one                             *)
(* (event_feed.cpp:112-132, player_handshake.cpp:135-196).                 *)
THEOREM JoinLatchAlwaysOccupants ==
    ASSUME Overlap = FALSE, MissedEdges = FALSE
    PROVE  Spec => []JoinLatchIsOccupants
<1>1. Init => SlotInv /\ LatchOnHeldSlot
  BY SlotInvInit, LatchInit DEF Init
<1>2. SlotInv /\ LatchOnHeldSlot /\ [Next]_vars => (SlotInv /\ LatchOnHeldSlot)'
  BY LatchStep, HostStepIsNetStep, NetNextKeepsSlotInv
<1>3. LatchOnHeldSlot => JoinLatchIsOccupants
  BY DEF LatchOnHeldSlot, JoinLatchIsOccupants, SlotConnected
<1>4. QED
  BY <1>1, <1>2, <1>3, PTL DEF Spec

-----------------------------------------------------------------------------
(* No step gives a ready client a prop that the host's world has lost.     *)
NoNewPhantomsStep ==
    \A s \in ClientSlots :
        lanes[s] /\ Reachable(s) /\ Reachable(s)' /\ UNCHANGED peerConns[s]
            => Phantoms(peerConns[s])' \subseteq Phantoms(peerConns[s])

(* A prop that dies while somebody is ready is broadcast to everybody who  *)
(* holds a slot.                                                           *)
LEMMA WorldStepAddsNoPhantom ==
    ASSUME Overlap = FALSE, SlotInv, GameNext, WorldStep
    PROVE  NoNewPhantomsStep
<1>1. NetIdle /\ UNCHANGED peerConns
  BY GameKeepsSlots DEF GameNext, slotInvVars
<1> SUFFICES ASSUME NEW s \in ClientSlots, lanes[s], Reachable(s)
             PROVE  (has[peerConns[s]] \ world)' \subseteq has[peerConns[s]] \ world
  BY DEF NoNewPhantomsStep, Phantoms
<1>2. Told(peerConns[s]) /\ peerConns[s] \in Clients
  BY <1>1 DEF SlotInv, Typed, StateTrails, NetIdle, Told, Reached, Reachable, SlotConnected
<1>3. ASSUME NEW p \in Props, PropAppears(p)
      PROVE  has'[peerConns[s]] = has[peerConns[s]] \cup {p} /\ world' = world \cup {p}
  BY <1>2, <1>3 DEF PropAppears
<1>4. ASSUME NEW p \in Props, PropDestroyed(p)
      PROVE  has'[peerConns[s]] = has[peerConns[s]] \ {p} /\ world' = world \ {p}
  BY <1>2, <1>4 DEF PropDestroyed
<1>5. QED
  BY <1>1, <1>3, <1>4 DEF WorldStep

(* The other step that touches what clients know is the drain, and it sends *)
(* only what is alive.                                                     *)
LEMMA StepAddsNoPhantom ==
    ASSUME Overlap = FALSE, SlotInv, [Next]_vars
    PROVE  NoNewPhantomsStep
<1> USE DEF NoNewPhantomsStep, Phantoms, snapVars, worldVars
<1>1. CASE Drain
  <2>1. /\ UNCHANGED world
        /\ \A c \in Clients : has'[c] \subseteq has[c] \cup world
    <3>1. CASE UNCHANGED has
      BY <1>1, <3>1 DEF Drain, DrainChunk
    <3>2. CASE ~ UNCHANGED has
      BY <1>1, <3>2 DEF Drain, DrainChunk, Chunk
    <3>3. QED
      BY <3>1, <3>2
  <2>2. \A s \in ClientSlots : Reachable(s) => peerConns[s] \in Clients
    BY DEF SlotInv, Typed, Reachable, SlotConnected
  <2>3. QED
    BY <2>1, <2>2
<1>2. CASE \E P \in SUBSET Props : ReSeed(P)
  BY <1>2 DEF ReSeed
<1>3. CASE GameNext /\ WorldStep
  BY <1>3, WorldStepAddsNoPhantom
<1>4. CASE UNCHANGED <<world, has>>
  BY <1>4
<1>5. QED
  BY <1>1, <1>2, <1>3, <1>4
     DEF Next, GameNext, TickStep, NetThreadNext, TransportNext, vars,
         CatchUp, BeginTick, Edge, AggregateEdge, DrivePuppet, FeedEdge, MaybeSendJoin,
         HandleNext, EndTick

(* If ticks and callbacks do not overlap, no step leaves a ready client    *)
(* with a prop that the host's world has lost                              *)
(* (prop_snapshot.cpp:189-200, prop_lifecycle.cpp:296-351).                *)
THEOREM NoNewPhantomsEver ==
    ASSUME Overlap = FALSE
    PROVE  Spec => NoNewPhantoms
<1>1. SlotInv /\ [Next]_vars => NoNewPhantomsStep
  BY StepAddsNoPhantom
<1>2. QED
  BY <1>1, SlotInvariance, PTL DEF Spec, NoNewPhantoms, NoNewPhantomsStep

-----------------------------------------------------------------------------
(* The second invariant of the net thread, over what it has received, also *)
(* holds in every behaviour of the host: the only thing the game thread    *)
(* does to it is to take the message at the head of the queue.             *)
LEMMA GameKeepsQueueInv ==
    ASSUME SlotInv, QueueInv, GameNext
    PROVE  QueueInv' /\ UNCHANGED told
<1> USE DEF sessionVars, gnsVars, slotVars, recvVars
<1>1. CASE HandleNext
  <2>1. /\ inbox # <<>> /\ inbox' = Tail(inbox)
        /\ UNCHANGED <<gns, tag, told, peerConns, lanes, remote, net>>
    BY <1>1 DEF HandleNext
  <2>2. QED
    BY <2>1, PopKeepsQueueInv
<1>2. CASE
        \/ \E P \in SUBSET Props : ReSeed(P)
        \/ CatchUp \/ BeginTick \/ Edge \/ AggregateEdge \/ Drain \/ DrivePuppet
        \/ FeedEdge \/ MaybeSendJoin \/ EndTick \/ WorldStep
  <2>1. UNCHANGED sessionVars
    BY <1>2
       DEF ReSeed, CatchUp, BeginTick, Edge, AggregateEdge, Drain, DrivePuppet, FeedEdge,
           MaybeSendJoin, EndTick, WorldStep
  <2>2. UNCHANGED queueInvVars /\ UNCHANGED told
    BY <2>1 DEF queueInvVars, slotInvVars
  <2>3. QED
    BY <2>2, NetNextKeepsQueueInv
<1>3. QED
  BY <1>1, <1>2 DEF GameNext, TickStep

LEMMA HostStepKeepsQueueInv ==
    SlotInv /\ QueueInv /\ [Next]_vars => QueueInv'
<1> SUFFICES ASSUME SlotInv, QueueInv, [Next]_vars PROVE QueueInv'
  OBVIOUS
<1>1. CASE GameNext
  BY <1>1, GameKeepsQueueInv
<1>2. CASE ~ GameNext
  <2>1. [NetNext]_queueInvVars
    BY <1>2 DEF Next, NetThreadNext, TransportNext, NetNext, vars, sessionVars, gnsVars,
       slotVars, recvVars, queueInvVars, slotInvVars
  <2>2. QED
    BY <2>1, NetNextKeepsQueueInv
<1>3. QED
  BY <1>1, <1>2

(* What the net thread has told and queued is about the slots' occupants,  *)
(* whatever overlaps.                                                      *)
THEOREM QueueInvariance == Spec => [](SlotInv /\ QueueInv)
<1>1. Init => SlotInv /\ QueueInv
  BY SlotInvInit, QueueInvInit DEF Init
<1>2. SlotInv /\ QueueInv /\ [Next]_vars => (SlotInv /\ QueueInv)'
  BY HostStepIsNetStep, NetNextKeepsSlotInv, HostStepKeepsQueueInv
<1>3. QED
  BY <1>1, <1>2, PTL DEF Spec

(* No message of a departed client reaches the game thread once its Closed *)
(* callback is over, whatever the callbacks and ticks overlap              *)
(* (session_status.cpp:253-263).                                           *)
THEOREM InboxAlwaysFromOccupant == Spec => []InboxFromOccupant
<1>1. SlotInv /\ QueueInv => InboxFromOccupant
  BY QueueInvFromOccupant
<1>2. QED
  BY <1>1, QueueInvariance, PTL

-----------------------------------------------------------------------------
(* Identities and introductions: a client whose Join was handled has been  *)
(* told its slot, so that its slot has been ready ever since it joined and *)
(* no edge detector has a reason to clear what the Join established.       *)
JoinInv ==
    /\ identity \in [ClientSlots -> Clients \cup {Nobody}]
    /\ nick \in [ClientSlots -> Clients \cup {Nobody}]
    /\ joined \subseteq told
    /\ IdentityKept
    /\ IntroducedBothWays

LEMMA JoinInvInit == Init => JoinInv
BY SessionAssumption DEF Init, JoinInv, NobodyYet, IdentityKept, IntroducedBothWays

(* A client that gets a slot has not been told one before. *)
LEMMA NewcomersUntold ==
    ASSUME SlotInv, QueueInv, NetNext
    PROVE  /\ told \subseteq told'
           /\ \A s \in ClientSlots :
                peerConns'[s] = peerConns[s] \/ peerConns'[s] = Nobody \/ peerConns'[s] \notin told
<1> USE DEF SlotInv, Typed, QueueInv, ToldAreReady
<1>1. ASSUME NEW c \in Clients, Accept(c)
      PROVE  /\ told' = told
             /\ \A s \in ClientSlots : peerConns'[s] = peerConns[s] \/ peerConns'[s] \notin told
  <2>1. gns[c] = "dialing" /\ told' = told
    BY <1>1, AcceptTakesFree
  <2>2. c \notin told
    BY <2>1
  <2>3. QED
    BY <1>1, <2>1, <2>2, AcceptTakesFree
<1>2. ASSUME NEW c \in Clients, Connected(c)
      PROVE  /\ told' = told
             /\ \A s \in ClientSlots : peerConns'[s] = peerConns[s] \/ peerConns'[s] \notin told
  <2>1. gns[c] = "up" /\ told' = told
    BY <1>2, ConnectedTakesOwnOrFree
  <2>2. c \notin told
    BY <2>1
  <2>3. QED
    BY <1>2, <2>1, <2>2, ConnectedTakesOwnOrFree
<1>3. ASSUME NEW c \in Clients, Closed(c)
      PROVE  /\ told' = told
             /\ \A s \in ClientSlots : peerConns'[s] = peerConns[s] \/ peerConns'[s] = Nobody
  BY <1>3, ClosedFrees
<1>4. CASE \E c \in Clients : Refuse(c) \/ Dial(c) \/ Establish(c) \/ Lose(c)
  BY <1>4 DEF Refuse, Dial, Establish, Lose, GnsStep, slotVars
<1>5. CASE PublishConnected \/ ClearLanes \/ ResetRemote \/ PurgeInbox \/ Aggregate \/ ResetAll \/ EmptyInbox
  BY <1>5 DEF PublishConnected, ClearLanes, ResetRemote, PurgeInbox, Aggregate, ResetAll,
     EmptyInbox, gnsVars, slotVars
<1>6. CASE Receive
  BY <1>6 DEF Receive, ReceivePose, ReceiveReliable, gnsVars, slotVars
<1>7. QED
  BY <1>1, <1>2, <1>3, <1>4, <1>5, <1>6 DEF NetNext, GnsNext, Callback

(* The game thread's part: the edge detectors clear only slots that no     *)
(* joined client holds, and a Join is announced to every joined client.    *)
LEMMA GameKeepsJoinInv ==
    ASSUME SlotInv, QueueInv, JoinInv, tick.slot \in ClientSlots, GameNext
    PROVE  JoinInv'
<1>1. UNCHANGED <<peerConns, lanes, told>>
  BY GameKeepsSlots, GameKeepsQueueInv DEF slotInvVars
<1>2. \A s \in ClientSlots : peerConns[s] \in joined =>
        /\ peerConns[s] \in Clients /\ SlotConnected(s) /\ lanes[s]
  BY SessionAssumption DEF JoinInv, QueueInv, ToldAreReady, SlotConnected
<1>3. CASE Edge
  <2>1. /\ UNCHANGED <<nick, joined, introduced>>
        /\ \/ UNCHANGED identity
           \/ ~ lanes[tick.slot] /\ identity' = [identity EXCEPT ![tick.slot] = Nobody]
    BY <1>3 DEF Edge, SlotDown
  <2>2. QED
    BY <1>1, <1>2, <2>1 DEF JoinInv, IdentityKept, IntroducedBothWays
<1>4. CASE FeedEdge
  <2>1. /\ UNCHANGED <<identity, joined, introduced>>
        /\ \/ UNCHANGED nick
           \/ ~ SlotConnected(tick.slot) /\ nick' = [nick EXCEPT ![tick.slot] = Nobody]
    BY <1>4 DEF FeedEdge, OnSlotDisconnected
  <2>2. QED
    BY <1>1, <1>2, <2>1 DEF JoinInv, IdentityKept, IntroducedBothWays
<1>5. CASE HandleNext
  <2> DEFINE m == Head(inbox)
  <2>1. m \in Queued /\ m.slot \in ClientSlots /\ m.from \in Clients
    <3>1. inbox # <<>>
      BY <1>5 DEF HandleNext
    <3>2. m \in Queued
      BY <3>1, TailElements DEF QueueInv, Queued
    <3> HIDE DEF m
    <3>3. QED
      BY <3>2, QueuedFields DEF QueueInv
  <2>2. CASE m.kind # "Join"
    <3>1. UNCHANGED <<identity, nick, joined, introduced>>
      BY <1>5, <2>2 DEF HandleNext
    <3>2. QED
      BY <1>1, <3>1 DEF JoinInv, IdentityKept, IntroducedBothWays
  <2>3. CASE m.kind = "Join"
    <3>1. /\ identity' = [identity EXCEPT ![m.slot] = m.from]
          /\ nick' = [nick EXCEPT ![m.slot] = m.from]
          /\ joined' = joined \cup {m.from}
          /\ introduced' = introduced \cup Introductions(m.from, m.slot)
      BY <1>5, <2>3 DEF HandleNext, Identify
    <3> HIDE DEF m
    <3>2. /\ m.from \in told
          /\ tag[m.from] = m.slot
          /\ peerConns[m.slot] \in {m.from, Nobody}
      BY <2>1, <2>3, SessionAssumption
         DEF QueueInv, QueuedFromOccupants, SendersTagged, Leaving, SlotInv, AtItsSlot
    <3>3. \A s \in ClientSlots : peerConns[s] = m.from => s = m.slot
      BY <2>1, <3>2 DEF SlotInv, TagsMatchSlots
    <3>4. JoinInv!1' /\ JoinInv!2' /\ JoinInv!3'
      BY <1>1, <2>1, <3>1, <3>2 DEF JoinInv
    <3>5. IdentityKept'
      <4>1. ASSUME NEW s \in ClientSlots, peerConns[s] \in joined'
            PROVE  identity'[s] = peerConns[s] /\ nick'[s] = peerConns[s]
        <5>1. CASE s = m.slot
          <6>1. peerConns[s] \in Clients
            BY <2>1, <3>1, <4>1 DEF JoinInv, QueueInv, ToldAreReady
          <6>2. QED
            BY <3>1, <3>2, <5>1, <6>1, SessionAssumption DEF JoinInv
        <5>2. CASE s # m.slot
          BY <3>1, <3>3, <4>1, <5>2 DEF JoinInv, IdentityKept
        <5>3. QED
          BY <5>1, <5>2
      <4>2. QED
        BY <1>1, <4>1 DEF IdentityKept
    <3>6. ASSUME NEW s \in ClientSlots, s # m.slot, peerConns[s] \in joined,
                 peerConns[m.slot] = m.from
          PROVE  <<peerConns[s], m.from>> \in introduced' /\ <<m.from, peerConns[s]>> \in introduced'
      <4>1. s \in OthersReady(m.slot)
        BY <1>2, <3>6 DEF OthersReady
      <4>2. identity[s] = peerConns[s] /\ identity[s] # Nobody /\ SlotConnected(m.slot)
        BY <1>2, <2>1, <3>6, SessionAssumption DEF JoinInv, IdentityKept, SlotConnected
      <4>3. /\ <<peerConns[s], m.from>> \in Introductions(m.from, m.slot)
            /\ <<peerConns[m.slot], identity[s]>> \in Introductions(m.from, m.slot)
        BY <4>1, <4>2 DEF Introductions
      <4>4. QED
        BY <3>1, <3>6, <4>2, <4>3
    <3>7. IntroducedBothWays'
      <4> SUFFICES ASSUME NEW s \in ClientSlots, NEW t \in ClientSlots, s # t,
                          peerConns[s] \in joined', peerConns[t] \in joined'
                   PROVE  <<peerConns[s], peerConns[t]>> \in introduced'
        BY <1>1 DEF IntroducedBothWays
      <4>1. CASE peerConns[s] \in joined /\ peerConns[t] \in joined
        BY <3>1, <4>1 DEF JoinInv, IntroducedBothWays
      <4>2. CASE peerConns[s] \notin joined
        <5>1. s = m.slot /\ peerConns[s] = m.from /\ peerConns[t] \in joined
          BY <3>1, <3>3, <4>2
        <5>2. QED
          BY <3>6, <5>1
      <4>3. CASE peerConns[t] \notin joined
        <5>1. t = m.slot /\ peerConns[t] = m.from /\ peerConns[s] \in joined
          BY <3>1, <3>3, <4>3
        <5>2. QED
          BY <3>6, <5>1
      <4>4. QED
        BY <4>1, <4>2, <4>3
    <3>8. QED
      BY <3>4, <3>5, <3>7 DEF JoinInv
  <2>4. QED
    BY <2>2, <2>3
<1>6. CASE
        \/ \E P \in SUBSET Props : ReSeed(P)
        \/ CatchUp \/ BeginTick \/ AggregateEdge \/ Drain \/ DrivePuppet
        \/ MaybeSendJoin \/ EndTick \/ WorldStep
  <2>1. UNCHANGED <<identity, nick, joined, introduced>>
    BY <1>6
       DEF ReSeed, CatchUp, BeginTick, AggregateEdge, Drain, DrivePuppet, MaybeSendJoin,
           EndTick, WorldStep, tickVars, peerVars
  <2>2. QED
    BY <1>1, <2>1 DEF JoinInv, IdentityKept, IntroducedBothWays
<1>7. QED
  BY <1>3, <1>4, <1>5, <1>6 DEF GameNext, TickStep

(* The tick is at a client slot, whatever it does there.                   *)
LEMMA TickSlotStep ==
    ASSUME tick \in [at : TickSteps, slot : ClientSlots], [Next]_vars
    PROVE  (tick \in [at : TickSteps, slot : ClientSlots])'
<1>1. 1 \in ClientSlots
  BY SessionAssumption DEF ClientSlots
<1>2. CASE UNCHANGED tick
  BY <1>2
<1>3. CASE GameNext
  BY <1>1, <1>3
     DEF GameNext, TickStep, ReSeed, CatchUp, BeginTick, Edge, AggregateEdge, Drain,
         DrivePuppet, FeedEdge, MaybeSendJoin, HandleNext, EndTick, WorldStep, Goto, Loop,
         TickSteps, tickVars
<1>4. QED
  BY <1>2, <1>3 DEF Next, NetThreadNext, TransportNext, vars, tickVars

HostInv ==
    /\ SlotInv
    /\ QueueInv
    /\ tick \in [at : TickSteps, slot : ClientSlots]
    /\ JoinInv

LEMMA HostInvStep == HostInv /\ [Next]_vars => HostInv'
<1> SUFFICES ASSUME HostInv, [Next]_vars PROVE HostInv'
  OBVIOUS
<1> USE DEF HostInv
<1>1. SlotInv' /\ QueueInv' /\ (tick \in [at : TickSteps, slot : ClientSlots])'
  BY HostStepIsNetStep, NetNextKeepsSlotInv, HostStepKeepsQueueInv, TickSlotStep
<1>2. CASE GameNext
  BY <1>1, <1>2, GameKeepsJoinInv
<1>3. CASE NetThreadNext \/ TransportNext
  <2>1. NetNext /\ UNCHANGED <<identity, nick, joined, introduced>>
    BY <1>3 DEF NetThreadNext, TransportNext, NetNext, tickVars, peerVars
  <2>2. Nobody \notin joined
    BY SessionAssumption DEF JoinInv, QueueInv, ToldAreReady
  <2>3. \A s \in ClientSlots : peerConns'[s] \in joined => peerConns'[s] = peerConns[s]
    BY <2>1, <2>2, NewcomersUntold DEF JoinInv
  <2>4. joined' \subseteq told'
    BY <2>1, NewcomersUntold DEF JoinInv
  <2>5. IdentityKept'
    BY <2>1, <2>3 DEF JoinInv, IdentityKept
  <2>6. IntroducedBothWays'
    BY <2>1, <2>3 DEF JoinInv, IntroducedBothWays
  <2>7. JoinInv'
    BY <2>1, <2>4, <2>5, <2>6 DEF JoinInv
  <2>8. QED
    BY <1>1, <2>7
<1>4. CASE UNCHANGED vars
  BY <1>1, <1>4 DEF vars, sessionVars, gnsVars, slotVars, tickVars, peerVars, JoinInv,
     IdentityKept, IntroducedBothWays
<1>5. QED
  BY <1>2, <1>3, <1>4 DEF Next

THEOREM HostInvariance == Spec => []HostInv
<1>1. Init => HostInv
  BY SlotInvInit, QueueInvInit, JoinInvInit, SessionAssumption
     DEF Init, HostInv, TickSteps, ClientSlots
<1>2. QED
  BY <1>1, HostInvStep, PTL DEF Spec

(* A joined client keeps its identity and nickname as long as it holds its *)
(* slot: no interleaving of ticks and callbacks, and no edge that a tick   *)
(* misses, clears them (player_handshake.cpp:207-313,                      *)
(* net_pump.cpp:359-415).                                                  *)
THEOREM IdentityAlwaysKept == Spec => []IdentityKept
<1>1. HostInv => IdentityKept
  BY DEF HostInv, JoinInv
<1>2. QED
  BY <1>1, HostInvariance, PTL

(* Any two joined clients were told of each other, in whatever order they  *)
(* connected and joined, and whatever overlaps                             *)
(* (player_handshake.cpp:335-377).                                         *)
THEOREM AlwaysIntroducedBothWays == Spec => []IntroducedBothWays
<1>1. HostInv => IntroducedBothWays
  BY DEF HostInv, JoinInv
<1>2. QED
  BY <1>1, HostInvariance, PTL

-----------------------------------------------------------------------------
(* What the tick has seen, if ticks are atomic and miss no edge: a slot    *)
(* that has something to show for a client is ready, or comes up, or is    *)
(* one whose going down the tick has yet to see.                           *)
HasLeftovers(s) == identity[s] # Nobody \/ puppet[s] # Nobody \/ mirrors[s] # {}

LeftoversExpected == \A s \in ClientSlots : HasLeftovers(s) => wasReady[s] \/ Live(s)

(* The tick has seen a slot come up before the slot is given up, and has   *)
(* seen it go down before it is given away. *)
UnreadySeen == net.at = "unready" /\ lanes[net.slot] => wasReady[net.slot]
UnreadyUnseen == \A s \in ClientSlots : SlotConnected(s) /\ ~ lanes[s] => ~ wasReady[s]

EdgeInv ==
    /\ wasReady \in [ClientSlots -> BOOLEAN]
    /\ puppet \in [ClientSlots -> Clients \cup {Nobody}]
    /\ mirrors \in [ClientSlots -> SUBSET Clients]
    /\ LeftoversExpected
    /\ UnreadySeen
    /\ UnreadyUnseen

LEMMA EdgeInvInit == Init => EdgeInv
BY SessionAssumption
   DEF Init, SessionInit, EdgeInv, NobodyYet, LeftoversExpected, HasLeftovers, UnreadySeen,
       UnreadyUnseen, SlotConnected

(* Between two ticks a slot's leftovers and what the tick has seen stay;   *)
(* the slot stays live, or the tick has seen it ready.                     *)
LEMMA NetKeepsEdgeInv ==
    ASSUME SlotInv, QueueInv, EdgeInv, Callback \/ Receive, EdgesSeen,
           UNCHANGED <<wasReady, identity, puppet, mirrors>>
    PROVE  EdgeInv'
<1> USE DEF SlotInv, Typed, EdgeInv, LeftoversExpected, HasLeftovers, UnreadySeen,
       UnreadyUnseen, Live, ComingUp, SlotConnected, NetIdle
<1>1. ASSUME NEW c \in Clients, Accept(c) PROVE EdgeInv'
  <2>1. PICK f \in ClientSlots :
          /\ NetIdle /\ gns[c] = "dialing" /\ peerConns[f] = Nobody
          /\ gns' = [gns EXCEPT ![c] = "accepted"]
          /\ peerConns' = [peerConns EXCEPT ![f] = c]
          /\ UNCHANGED <<lanes, net>>
    BY <1>1, AcceptTakesFree
  <2>2. ~ wasReady[f]
    BY <2>1, SessionAssumption DEF EdgesSeen
  <2>3. \A s \in ClientSlots : peerConns[s] # c
    BY <2>1 DEF TagsMatchSlots
  <2>4. ~ lanes[f]
    BY <2>1 DEF ReadyIsHeld
  <2>5. QED
    BY <2>1, <2>2, <2>3, <2>4, SessionAssumption
<1>2. ASSUME NEW c \in Clients, Connected(c) PROVE EdgeInv'
  <2>1. NetIdle /\ gns[c] = "up"
    BY <1>2, ConnectedTakesOwnOrFree
  <2>2. CASE /\ \A s \in ClientSlots : peerConns[s] # c
             /\ gns' = [gns EXCEPT ![c] = "gone"]
             /\ UNCHANGED <<tag, peerConns, lanes, net>>
    BY <2>1, <2>2, SessionAssumption
  <2>3. ASSUME NEW f \in ClientSlots,
               \/ peerConns[f] = c
               \/ peerConns[f] = Nobody /\ tag[c] = NoSlot
                     /\ \A s \in ClientSlots : peerConns[s] # c,
               gns' = [gns EXCEPT ![c] = "open"],
               peerConns' = [peerConns EXCEPT ![f] = c],
               lanes' = [lanes EXCEPT ![f] = TRUE],
               net' = [at |-> "publish", slot |-> f]
        PROVE  EdgeInv'
    <3>1. \A s \in ClientSlots : s # f => peerConns[s] # c
      BY <2>3 DEF TagsMatchSlots
    <3>2. QED
      BY <2>1, <2>3, <3>1, SessionAssumption
  <2>4. QED
    BY <1>2, <2>2, <2>3, ConnectedTakesOwnOrFree
<1>3. ASSUME NEW c \in Clients, Closed(c) PROVE EdgeInv'
  <2>1. /\ NetIdle /\ gns[c] = "lost"
        /\ gns' = [gns EXCEPT ![c] = "gone"]
        /\ UNCHANGED lanes
    BY <1>3, ClosedFrees
  <2>2. CASE /\ \A s \in ClientSlots : peerConns[s] # c
             /\ UNCHANGED peerConns
             /\ net' = [at |-> "aggregate", slot |-> NoSlot]
    BY <2>1, <2>2, SessionAssumption
  <2>3. ASSUME NEW f \in ClientSlots,
               peerConns[f] = c,
               peerConns' = [peerConns EXCEPT ![f] = Nobody],
               net' = [at |-> "unready", slot |-> f]
        PROVE  EdgeInv'
    <3>1. lanes[f] => wasReady[f]
      BY <2>3, SessionAssumption DEF EdgesSeen
    <3>2. \A s \in ClientSlots : s # f => peerConns[s] # c
      BY <2>3 DEF TagsMatchSlots
    <3>3. QED
      BY <2>1, <2>3, <3>1, <3>2, SessionAssumption
  <2>4. QED
    BY <1>3, <2>2, <2>3, ClosedFrees
<1>4. ASSUME NEW c \in Clients, Refuse(c) PROVE EdgeInv'
  <2>1. gns[c] = "dialing" /\ UNCHANGED <<peerConns, lanes, net>> /\ gns' = [gns EXCEPT ![c] = "gone"]
    BY <1>4 DEF Refuse, GnsStep, slotVars
  <2>2. \A s \in ClientSlots : peerConns[s] # c
    BY <2>1 DEF TagsMatchSlots
  <2>3. QED
    BY <2>1, <2>2
<1>5. CASE ClearLanes
  <2>1. /\ net.at = "unready" /\ net'.at = "reset"
        /\ lanes' = [lanes EXCEPT ![net.slot] = FALSE]
        /\ UNCHANGED <<gns, peerConns>>
    BY <1>5 DEF ClearLanes, NetAt, gnsVars
  <2>2. QED
    BY <2>1, SessionAssumption DEF AtItsSlot
<1>6. CASE PublishConnected \/ ResetRemote \/ PurgeInbox \/ Aggregate \/ ResetAll \/ EmptyInbox
  <2>1. net'.at # "unready" /\ UNCHANGED <<gns, peerConns, lanes>>
    BY <1>6 DEF PublishConnected, ResetRemote, PurgeInbox, Aggregate, ResetAll, EmptyInbox,
       NetDone, NetAt, gnsVars, slotVars
  <2>2. QED
    BY <2>1
<1>7. CASE Receive
  <2>1. UNCHANGED <<gns, peerConns, lanes, net>>
    BY <1>7 DEF Receive, ReceivePose, ReceiveReliable, gnsVars, slotVars
  <2>2. QED
    BY <2>1
<1>8. QED
  BY <1>1, <1>2, <1>3, <1>4, <1>5, <1>6, <1>7 DEF Callback

(* A connection that comes up makes its slot live; none stops being live   *)
(* by what the transport does. *)
LEMMA TransportKeepsEdgeInv ==
    ASSUME SlotInv, EdgeInv, GnsNext, UNCHANGED <<wasReady, identity, puppet, mirrors>>
    PROVE  EdgeInv'
<1>1. PICK c \in Clients :
        /\ \/ gns[c] = "new" /\ gns' = [gns EXCEPT ![c] = "dialing"]
           \/ gns[c] \in {"accepted", "dialing"} /\ gns' = [gns EXCEPT ![c] = "up"]
           \/ gns[c] \in {"dialing", "accepted", "open"} /\ gns' = [gns EXCEPT ![c] = "lost"]
        /\ UNCHANGED <<peerConns, lanes, net>>
  BY DEF GnsNext, Dial, Establish, Lose, GnsStep, slotVars
<1>2. QED
  BY <1>1, SessionAssumption
     DEF SlotInv, Typed, EdgeInv, LeftoversExpected, HasLeftovers, UnreadySeen,
         UnreadyUnseen, Live, ComingUp, SlotConnected

(* The tick shows only what it received from a live slot, and clears a     *)
(* slot that it sees go down. *)
LEMMA GameKeepsEdgeInv ==
    ASSUME Overlap = FALSE, SlotInv, QueueInv, EdgeInv, JoinInv, tick.slot \in ClientSlots,
           GameNext
    PROVE  EdgeInv'
<1>1. NetIdle /\ UNCHANGED <<gns, peerConns, lanes, net>>
  BY GameKeepsSlots DEF GameNext, slotInvVars
<1>2. \A s \in ClientSlots : Live(s)' = Live(s) /\ SlotConnected(s)' = SlotConnected(s)
  BY <1>1 DEF Live, ComingUp, SlotConnected
<1> USE DEF EdgeInv, LeftoversExpected, HasLeftovers, UnreadySeen, UnreadyUnseen, NetIdle
<1>3. CASE Edge
  <2>1. /\ wasReady' = [wasReady EXCEPT ![tick.slot] = lanes[tick.slot]]
        /\ \/ /\ wasReady[tick.slot] /\ ~ lanes[tick.slot]
              /\ identity' = [identity EXCEPT ![tick.slot] = Nobody]
              /\ puppet' = [puppet EXCEPT ![tick.slot] = Nobody]
              /\ mirrors' = [mirrors EXCEPT ![tick.slot] = {}]
           \/ /\ ~ (wasReady[tick.slot] /\ ~ lanes[tick.slot])
              /\ UNCHANGED <<identity, puppet, mirrors>>
    BY <1>3 DEF Edge, SlotDown
  <2>2. lanes \in [ClientSlots -> BOOLEAN]
    BY DEF SlotInv, Typed
  <2>3. LeftoversExpected'
    BY <1>1, <1>2, <2>1, <2>2 DEF JoinInv, Live
  <2>4. QED
    BY <1>1, <1>2, <2>1, <2>2, <2>3
<1>4. CASE DrivePuppet
  <2>1. /\ UNCHANGED <<wasReady, identity, mirrors>>
        /\ \/ UNCHANGED puppet
           \/ /\ remote[tick.slot] # Nobody
              /\ puppet' = [puppet EXCEPT ![tick.slot] = remote[tick.slot]]
    BY <1>4 DEF DrivePuppet, edgeVars
  <2>2. remote[tick.slot] # Nobody => Live(tick.slot)
    BY <1>1 DEF QueueInv, ReceivedWhileLive, Leaving
  <2>3. remote \in [ClientSlots -> Clients \cup {Nobody}]
    BY DEF SlotInv, Typed
  <2>4. QED
    BY <1>1, <1>2, <2>1, <2>2, <2>3
<1>5. CASE HandleNext
  <2> DEFINE m == Head(inbox)
  <2>1. m \in Queued /\ m.slot \in ClientSlots /\ m.from \in Clients
    <3>1. inbox # <<>>
      BY <1>5 DEF HandleNext
    <3>2. m \in Queued
      BY <3>1, TailElements DEF QueueInv, Queued
    <3> HIDE DEF m
    <3>3. QED
      BY <3>2, QueuedFields DEF QueueInv
  <2>2. /\ UNCHANGED <<wasReady, puppet>>
        /\ \/ UNCHANGED identity
           \/ identity' = [identity EXCEPT ![m.slot] = m.from]
        /\ \/ UNCHANGED mirrors
           \/ mirrors' = [mirrors EXCEPT ![m.slot] = mirrors[m.slot] \cup {m.from}]
    BY <1>5 DEF HandleNext, Identify, edgeVars
  <2> HIDE DEF m
  <2>3. Live(m.slot)
    BY <1>1, <2>1 DEF QueueInv, ReceivedWhileLive, Leaving
  <2>4. QED
    BY <1>1, <1>2, <2>1, <2>2, <2>3 DEF JoinInv
<1>6. CASE AggregateEdge
  <2>1. /\ UNCHANGED <<wasReady, identity, puppet>>
        /\ mirrors' \in {mirrors, [s \in ClientSlots |-> {}]}
    BY <1>6 DEF AggregateEdge
  <2>2. QED
    BY <1>1, <1>2, <2>1
<1>7. CASE
        \/ \E P \in SUBSET Props : ReSeed(P)
        \/ CatchUp \/ BeginTick \/ Drain \/ FeedEdge \/ MaybeSendJoin \/ EndTick \/ WorldStep
  <2>1. UNCHANGED <<wasReady, identity, puppet, mirrors>>
    BY <1>7
       DEF ReSeed, CatchUp, BeginTick, Drain, FeedEdge, MaybeSendJoin, EndTick, WorldStep,
           tickVars, edgeVars, peerVars
  <2>2. QED
    BY <1>1, <1>2, <2>1
<1>8. QED
  BY <1>3, <1>4, <1>5, <1>6, <1>7 DEF GameNext, TickStep

LEMMA EdgeInvStep ==
    ASSUME Overlap = FALSE, MissedEdges = FALSE, HostInv, EdgeInv, [Next]_vars
    PROVE  EdgeInv'
<1> USE DEF HostInv
<1>1. CASE GameNext
  BY <1>1, GameKeepsEdgeInv
<1>2. CASE NetThreadNext
  <2>1. /\ Callback \/ Receive
        /\ EdgesSeen
        /\ UNCHANGED <<wasReady, identity, puppet, mirrors>>
    BY <1>2 DEF NetThreadNext, tickVars, edgeVars, peerVars
  <2>2. QED
    BY <2>1, NetKeepsEdgeInv
<1>3. CASE TransportNext
  BY <1>3, TransportKeepsEdgeInv DEF TransportNext, tickVars, edgeVars, peerVars
<1>4. CASE UNCHANGED vars
  BY <1>4 DEF vars, sessionVars, gnsVars, slotVars, tickVars, edgeVars, peerVars, EdgeInv,
     LeftoversExpected, HasLeftovers, UnreadySeen, UnreadyUnseen, Live, ComingUp,
     SlotConnected
<1>5. QED
  BY <1>1, <1>2, <1>3, <1>4 DEF Next

THEOREM EdgeInvariance ==
    ASSUME Overlap = FALSE, MissedEdges = FALSE
    PROVE  Spec => [](HostInv /\ EdgeInv)
<1>1. Init => EdgeInv
  BY EdgeInvInit
<1>2. HostInv /\ EdgeInv /\ [Next]_vars => EdgeInv'
  BY EdgeInvStep
<1>3. QED
  BY <1>1, <1>2, HostInvariance, PTL DEF Spec

(* If ticks are atomic and see every edge, a slot that nobody holds and    *)
(* that the tick has seen down shows nothing of its last client: no        *)
(* message and no pose brings it back (net_pump.cpp:369-391,               *)
(* session_status.cpp:253-256).                                            *)
THEOREM NeverGhosts ==
    ASSUME Overlap = FALSE, MissedEdges = FALSE
    PROVE  Spec => []NoGhosts
<1>1. HostInv /\ EdgeInv => NoGhosts
  <2> SUFFICES ASSUME HostInv, EdgeInv, NetIdle, NEW s \in ClientSlots,
                      ~ SlotConnected(s), ~ wasReady[s]
               PROVE  ~ HasLeftovers(s)
    BY DEF NoGhosts, HasLeftovers
  <2>1. ~ Live(s)
    BY DEF HostInv, SlotInv, ReadyIsHeld, Live, ComingUp, SlotConnected, NetIdle
  <2>2. QED
    BY <2>1 DEF EdgeInv, LeftoversExpected
<1>2. QED
  BY <1>1, EdgeInvariance, PTL

-----------------------------------------------------------------------------
(* The prop snapshot.  A slot is served if it is queued, or being drained  *)
(* to and what it lacks is still to come, or lacks nothing.                *)
Knows(s) == tracked \subseteq has[peerConns[s]]

Served(q, s) ==
    \/ s \in ToSet(q.pending)
    \/ q.target = s /\ tracked \subseteq has[peerConns[s]] \cup ToSet(q.left)
    \/ q.target # s /\ Knows(s)

(* The catch-up has yet to come to slot s. *)
Awaits(s) == tick.at = "catchup" /\ s >= tick.slot

ReadyAreServed ==
    \A s \in ClientSlots :
        Reachable(s) /\ lanes[s] /\ wasReady[s] /\ ~ Awaits(s) => Served(snap, s)

(* The aggregate state is sampled once a tick. *)
SampleHolds == tick.at \in {"edge", "aggregate", "drain"} => sampled = (state = "Connected")

SnapTyped ==
    /\ tracked \subseteq world /\ world \subseteq Props
    /\ snap \in Snapshots
    /\ has \in [Clients -> SUBSET Props]

SnapInv == SnapTyped /\ sampled \in BOOLEAN /\ SampleHolds /\ ReadyAreServed

(* A queue without a slot has all the other slots. *)
LEMMA WithoutElements ==
    ASSUME NEW pending \in Seq(ClientSlots), NEW s \in ClientSlots
    PROVE  /\ Without(pending, s) \in Seq(ClientSlots)
           /\ \A u \in ToSet(pending) : u # s => u \in ToSet(Without(pending, s))
<1> DEFINE stay == {i \in DOMAIN pending : pending[i] # s}
<1>1. stay \in SUBSET DOMAIN pending /\ \A i \in DOMAIN pending : pending[i] # s => i \in stay
  OBVIOUS
<1>2. Without(pending, s) = Kept(pending, stay)
  BY DEF Without
<1> HIDE DEF stay
<1>3. /\ Kept(pending, stay) \in Seq(ClientSlots)
      /\ \A i \in stay : \E n \in DOMAIN Kept(pending, stay) : Kept(pending, stay)[n] = pending[i]
  BY <1>1, KeptElements
<1>4. QED
  BY <1>1, <1>2, <1>3 DEF ToSet

(* StartEnumerationFor leaves nothing out. *)
LEMMA StartServes ==
    ASSUME SnapTyped, NEW q \in Snapshots, NEW s \in ClientSlots
    PROVE  /\ Start(q, s) \in Snapshots
           /\ Start(q, s).target = s
           /\ Start(q, s).pending = q.pending
           /\ ToSet(Start(q, s).left) = tracked
<1> DEFINE all == SetToSeq(tracked)
<1>1. tracked \subseteq Props /\ IsFiniteSet(tracked)
  BY SnapshotAssumption, FS_Subset DEF SnapTyped
<1>2. all \in Seq(Props) /\ ToSet(all) = tracked
  <2>1. all \in Seq(tracked) /\ ToSet(all) = tracked
    BY <1>1, SetToSeqElements
  <2> HIDE DEF all
  <2>2. QED
    BY <1>1, <2>1, SeqMonotonic
<1>3. Start(q, s) = [q EXCEPT !.target = s, !.left = all]
  BY DEF Start
<1> HIDE DEF all
<1>4. QED
  BY <1>2, <1>3 DEF Snapshots

(* TriggerForSlot serves its slot if that is ready, and forgets no other.  *)
LEMMA TriggerServes ==
    ASSUME SnapTyped, NEW q \in Snapshots, NEW s \in ClientSlots
    PROVE  /\ Trigger(q, s) \in Snapshots
           /\ lanes[s] => Served(Trigger(q, s), s)
           /\ \A u \in ClientSlots : Served(q, u) => Served(Trigger(q, s), u)
<1>a. q.pending \in Seq(ClientSlots)
  BY DEF Snapshots
<1>1. CASE ~ lanes[s]
  BY <1>1 DEF Trigger
<1>2. CASE lanes[s] /\ q.target = NoSlot
  <2>1. Trigger(q, s) = Start(q, s)
    BY <1>2 DEF Trigger
  <2>2. \A u \in ClientSlots : Served(q, u) => u \in ToSet(q.pending) \/ Knows(u)
    BY <1>2 DEF Served, NoSlot, ClientSlots
  <2>3. /\ Trigger(q, s) \in Snapshots
        /\ Trigger(q, s).target = s
        /\ Trigger(q, s).pending = q.pending
        /\ ToSet(Trigger(q, s).left) = tracked
    BY <2>1, StartServes
  <2>4. QED
    BY <2>2, <2>3 DEF Served, Knows
<1>3. CASE lanes[s] /\ q.target # NoSlot /\ s \in ToSet(q.pending)
  BY <1>3 DEF Trigger, Served
<1>4. CASE lanes[s] /\ q.target # NoSlot /\ s \notin ToSet(q.pending)
  <2> DEFINE longer == Append(q.pending, s)
  <2>1. Trigger(q, s) = [q EXCEPT !.pending = longer]
    BY <1>4 DEF Trigger
  <2>2. longer \in Seq(ClientSlots) /\ ToSet(longer) = ToSet(q.pending) \cup {s}
    BY <1>a, AppendElements
  <2> HIDE DEF longer
  <2>3. /\ Trigger(q, s) \in Snapshots
        /\ Trigger(q, s).target = q.target
        /\ Trigger(q, s).left = q.left
        /\ Trigger(q, s).pending = longer
    BY <2>1, <2>2 DEF Snapshots
  <2>4. QED
    BY <2>2, <2>3 DEF Served
<1>5. QED
  BY <1>1, <1>2, <1>3, <1>4

(* The end of a drain serves the first slot of the queue, and the others   *)
(* stay queued. *)
LEMMA DequeueServes ==
    ASSUME SnapTyped, NEW pending \in Seq(ClientSlots)
    PROVE  /\ DequeueNext(pending) \in Snapshots
           /\ \A u \in ClientSlots :
                /\ DequeueNext(pending).target = u => ToSet(DequeueNext(pending).left) = tracked
                /\ SlotConnected(u) /\ u \in ToSet(pending) =>
                      DequeueNext(pending).target = u \/ u \in ToSet(DequeueNext(pending).pending)
<1>a. /\ Idle \in Snapshots /\ Idle.target = NoSlot
  BY EmptySeq DEF Idle, Snapshots
<1>b. NoSlot \notin ClientSlots
  BY DEF NoSlot, ClientSlots
<1>1. CASE pending = <<>>
  <2>1. DequeueNext(pending) = Idle /\ ToSet(pending) = {}
    BY <1>1 DEF DequeueNext, ToSet
  <2>2. QED
    BY <1>a, <1>b, <2>1
<1>2. CASE pending # <<>>
  <2> DEFINE h == Head(pending)
             q == [Idle EXCEPT !.pending = Tail(pending)]
  <2>1. /\ h \in ClientSlots /\ Tail(pending) \in Seq(ClientSlots)
        /\ ToSet(pending) = {h} \cup ToSet(Tail(pending))
    BY <1>2, TailElements
  <2>2. /\ q \in Snapshots /\ q.target = NoSlot /\ q.pending = Tail(pending)
    BY <1>a, <2>1 DEF Idle, Snapshots
  <2>3. DequeueNext(pending) = IF SlotConnected(h) THEN Start(q, h) ELSE q
    BY <1>2 DEF DequeueNext
  <2> HIDE DEF h, q
  <2>4. CASE SlotConnected(h)
    <3>1. DequeueNext(pending) = Start(q, h)
      BY <2>3, <2>4
    <3>2. /\ Start(q, h) \in Snapshots
          /\ Start(q, h).target = h
          /\ Start(q, h).pending = q.pending
          /\ ToSet(Start(q, h).left) = tracked
      BY <2>1, <2>2, StartServes
    <3>3. QED
      BY <2>1, <2>2, <3>1, <3>2
  <2>5. CASE ~ SlotConnected(h)
    <3>1. DequeueNext(pending) = q
      BY <2>3, <2>5
    <3>2. QED
      BY <1>b, <2>1, <2>2, <2>5, <3>1
  <2>6. QED
    BY <2>4, <2>5
<1>3. QED
  BY <1>1, <1>2

(* CancelForSlot forgets no slot but its own. *)
LEMMA CancelServes ==
    ASSUME SnapTyped, NEW q \in Snapshots, NEW s \in ClientSlots
    PROVE  /\ Cancel(q, s) \in Snapshots
           /\ \A u \in ClientSlots :
                u # s /\ SlotConnected(u) /\ Served(q, u) => Served(Cancel(q, s), u)
<1> DEFINE shorter == Without(q.pending, s)
<1>a. q.pending \in Seq(ClientSlots)
  BY DEF Snapshots
<1>1. /\ shorter \in Seq(ClientSlots)
      /\ \A u \in ToSet(q.pending) : u # s => u \in ToSet(shorter)
  BY <1>a, WithoutElements
<1>2. Cancel(q, s) = IF q.target = s THEN DequeueNext(shorter) ELSE [q EXCEPT !.pending = shorter]
  BY DEF Cancel
<1> HIDE DEF shorter
<1>3. CASE q.target = s
  <2>1. \A u \in ClientSlots :
          u # s /\ Served(q, u) => u \in ToSet(shorter) \/ Knows(u)
    BY <1>1, <1>3 DEF Served
  <2>2. Cancel(q, s) = DequeueNext(shorter)
    BY <1>2, <1>3
  <2>3. QED
    BY <1>1, <2>1, <2>2, DequeueServes DEF Served
<1>4. CASE q.target # s
  <2>1. /\ Cancel(q, s) \in Snapshots
        /\ Cancel(q, s).target = q.target
        /\ Cancel(q, s).left = q.left
        /\ Cancel(q, s).pending = shorter
    BY <1>1, <1>2, <1>4 DEF Snapshots
  <2>2. QED
    BY <1>1, <2>1 DEF Served
<1>5. QED
  BY <1>3, <1>4

(* What DrainChunk sends, and what it leaves for the next tick, is all that *)
(* was left and is alive. *)
LEMMA ChunkSplitsLeft ==
    ASSUME SnapTyped
    PROVE  LET n == Min({ChunkSize, Len(snap.left)})
               rest == SubSeq(snap.left, n + 1, Len(snap.left))
           IN  /\ rest \in Seq(Props)
               /\ Chunk(n) \subseteq Props
               /\ ToSet(snap.left) \cap world \subseteq Chunk(n) \cup ToSet(rest)
<1> DEFINE len == Len(snap.left)
           n == Min({ChunkSize, len})
           rest == SubSeq(snap.left, n + 1, len)
<1>1. snap.left \in Seq(Props) /\ len \in Nat /\ ChunkSize \in Nat
  BY SnapshotAssumption, LenProperties DEF SnapTyped, Snapshots
<1>2. n \in 0 .. len
  <2>1. \E x \in {ChunkSize, len} : \A y \in {ChunkSize, len} : x =< y
    BY <1>1
  <2>2. n \in {ChunkSize, len} /\ n =< len
    BY <2>1 DEF Min
  <2> HIDE DEF n, len
  <2>3. QED
    BY <1>1, <2>2
<1> HIDE DEF n
<1>3. /\ rest \in Seq(Props)
      /\ ToSet(snap.left) = ToSet(SubSeq(snap.left, 1, n)) \cup ToSet(rest)
  BY <1>1, <1>2, SplitElements
<1>4. Chunk(n) = ToSet(SubSeq(snap.left, 1, n)) \cap world
  BY DEF Chunk
<1> HIDE DEF rest
<1>5. /\ Chunk(n) \subseteq Props
      /\ ToSet(snap.left) \cap world \subseteq Chunk(n) \cup ToSet(rest)
  BY <1>3, <1>4 DEF SnapTyped
<1>6. QED
  BY <1>3, <1>5 DEF n, rest

LEMMA DrainServes ==
    ASSUME SnapTyped, SlotInv, DrainChunk, UNCHANGED <<worldVars, peerConns, gns>>
    PROVE  /\ SnapTyped'
           /\ \A u \in ClientSlots : Reachable(u) /\ Served(snap, u) => Served(snap, u)'
<1> DEFINE n == Min({ChunkSize, Len(snap.left)})
           s == snap.target
           rest == SubSeq(snap.left, n + 1, Len(snap.left))
<1>a. /\ s \in ClientSlots \cup {NoSlot}
      /\ snap.pending \in Seq(ClientSlots) /\ snap \in Snapshots
  BY DEF SnapTyped, Snapshots
<1>b. /\ rest \in Seq(Props) /\ Chunk(n) \subseteq Props
      /\ ToSet(snap.left) \cap world \subseteq Chunk(n) \cup ToSet(rest)
  BY ChunkSplitsLeft
<1>c. UNCHANGED <<world, tracked, peerConns, gns>>
  BY DEF worldVars
<1>1. CASE s = NoSlot \/ snap.left = <<>>
  <2>1. UNCHANGED <<snap, has>>
    BY <1>1 DEF DrainChunk
  <2>2. QED
    BY <1>c, <2>1 DEF SnapTyped, Served, Knows
<1>2. CASE ~ (s = NoSlot \/ snap.left = <<>>) /\ ~ SlotConnected(s)
  <2>1. snap' = Cancel(snap, s) /\ UNCHANGED has
    BY <1>2 DEF DrainChunk
  <2>2. \A u \in ClientSlots :
          /\ Served(snap', u) <=> Served(snap, u)'
          /\ Reachable(u) => SlotConnected(u)
    BY <1>c, <2>1 DEF Served, Knows, Reachable
  <2>3. /\ snap' \in Snapshots
        /\ \A u \in ClientSlots :
             u # s /\ SlotConnected(u) /\ Served(snap, u) => Served(snap', u)
    BY <1>a, <1>2, <2>1, CancelServes
  <2>4. SnapTyped'
    BY <1>c, <2>1, <2>3 DEF SnapTyped
  <2>5. QED
    BY <1>2, <2>2, <2>3, <2>4
<1>3. CASE ~ (s = NoSlot \/ snap.left = <<>>) /\ SlotConnected(s)
  <2>1. /\ has' = [c \in Clients |->
                      has[c] \cup IF Reachable(s) /\ c = peerConns[s] THEN Chunk(n) ELSE {}]
        /\ snap' = IF rest # <<>> THEN [snap EXCEPT !.left = rest]
                                  ELSE DequeueNext(snap.pending)
    BY <1>3 DEF DrainChunk
  <2> HIDE DEF n, rest, s
  <2>2. s \in ClientSlots
    BY <1>a, <1>3
  <2>3. has' \in [Clients -> SUBSET Props]
    BY <1>b, <2>1 DEF SnapTyped
  <2>4. \A u \in ClientSlots : Reachable(u) =>
          /\ peerConns[u] \in Clients
          /\ has[peerConns[u]] \subseteq has'[peerConns[u]]
          /\ u = s => Chunk(n) \subseteq has'[peerConns[u]]
    BY <2>1, <2>2 DEF SnapTyped, SlotInv, Typed, Reachable, SlotConnected
  <2>5. tracked \subseteq world
    BY DEF SnapTyped
  <2>6. CASE rest # <<>>
    <3>1. snap' = [snap EXCEPT !.left = rest]
      BY <2>1, <2>6
    <3>2. /\ snap' \in Snapshots
          /\ snap'.target = s /\ snap.target = s
          /\ snap'.left = rest
          /\ snap'.pending = snap.pending
      BY <1>a, <1>b, <3>1 DEF s, Snapshots
    <3>3. SnapTyped'
      BY <1>c, <2>3, <3>2 DEF SnapTyped
    <3>4. ASSUME NEW u \in ClientSlots, Reachable(u), Served(snap, u)
          PROVE  Served(snap, u)'
      <4>1. CASE u \in ToSet(snap.pending)
        BY <3>2, <4>1 DEF Served
      <4>2. CASE u # s /\ Knows(u)
        BY <1>c, <2>4, <3>2, <3>4, <4>2 DEF Served, Knows
      <4>3. CASE u = s /\ tracked \subseteq has[peerConns[u]] \cup ToSet(snap.left)
        <5>1. tracked \subseteq has'[peerConns[u]] \cup ToSet(rest)
          BY <1>b, <2>4, <2>5, <3>4, <4>3
        <5>2. QED
          BY <1>c, <3>2, <4>3, <5>1 DEF Served
      <4>4. QED
        BY <3>2, <3>4, <4>1, <4>2, <4>3 DEF Served
    <3>5. QED
      BY <3>3, <3>4
  <2>7. CASE rest = <<>>
    <3>1. snap' = DequeueNext(snap.pending)
      BY <2>1, <2>7
    <3>2. SnapTyped'
      BY <1>a, <1>c, <2>3, <3>1, DequeueServes DEF SnapTyped
    <3>3. ToSet(rest) = {}
      BY <2>7 DEF ToSet
    <3>4. ASSUME NEW u \in ClientSlots, Reachable(u), Served(snap, u)
          PROVE  u \in ToSet(snap.pending) \/ tracked \subseteq has'[peerConns[u]]
      BY <1>b, <2>4, <2>5, <3>3, <3>4 DEF Served, Knows, s
    <3>5. \A u \in ClientSlots :
            /\ snap'.target = u => ToSet(snap'.left) = tracked
            /\ SlotConnected(u) /\ u \in ToSet(snap.pending) =>
                  snap'.target = u \/ u \in ToSet(snap'.pending)
      BY <1>a, <3>1, DequeueServes
    <3>6. QED
      BY <1>c, <3>2, <3>4, <3>5 DEF Reachable, Served, Knows
  <2>8. QED
    BY <2>6, <2>7
<1>4. QED
  BY <1>1, <1>2, <1>3

-----------------------------------------------------------------------------
(* Every step keeps a ready slot served, if ticks are atomic and see every *)
(* edge.                                                                   *)

LEMMA IdleIsSnapshot == Idle \in Snapshots
<1>1. <<>> \in Seq(Props) /\ <<>> \in Seq(ClientSlots)
  BY EmptySeq
<1>2. QED
  BY <1>1 DEF Idle, Snapshots

LEMMA SnapInvInit == Init => SnapInv
<1> SUFFICES ASSUME Init PROVE SnapInv
  OBVIOUS
<1>1. snap \in Snapshots
  BY IdleIsSnapshot DEF Init, SnapshotInit
<1>2. world \subseteq Props /\ tracked = world
  BY SnapshotAssumption DEF Init, SnapshotInit
<1>3. has \in [Clients -> SUBSET Props]
  BY DEF Init, SnapshotInit
<1>4. sampled = FALSE /\ tick.at = "idle" /\ \A s \in ClientSlots : ~ wasReady[s]
  BY DEF Init
<1>5. QED
  BY <1>1, <1>2, <1>3, <1>4 DEF SnapInv, SnapTyped, SampleHolds, ReadyAreServed

(* A slot that the tick has seen ready, and that is ready after a step of  *)
(* the network, was so before, for the same client. *)
LEMMA NetKeepsReady ==
    ASSUME SlotInv, EdgeInv, GnsNext \/ ((Callback \/ Receive) /\ EdgesSeen),
           NEW s \in ClientSlots, Reachable(s)', lanes'[s], wasReady[s]
    PROVE  peerConns'[s] = peerConns[s] /\ Reachable(s) /\ lanes[s]
<1> USE DEF SlotInv, Typed, Reachable, SlotConnected
<1>1. ASSUME NEW c \in Clients, Accept(c)
      PROVE  peerConns'[s] = peerConns[s] /\ Reachable(s) /\ lanes[s]
  <2>1. PICK f \in ClientSlots :
          /\ gns[c] = "dialing" /\ peerConns[f] = Nobody
          /\ gns' = [gns EXCEPT ![c] = "accepted"]
          /\ peerConns' = [peerConns EXCEPT ![f] = c]
          /\ UNCHANGED lanes
    BY <1>1, AcceptTakesFree
  <2>2. EdgesSeen
    BY <1>1 DEF GnsNext, Dial, Establish, Lose, GnsStep, Accept, slotVars
  <2>3. ~ wasReady[f]
    BY <2>1, <2>2, SessionAssumption DEF EdgesSeen
  <2>4. peerConns[s] # c
    BY <2>1 DEF TagsMatchSlots
  <2>5. QED
    BY <2>1, <2>3, <2>4
<1>2. ASSUME NEW c \in Clients, Connected(c), EdgesSeen
      PROVE  peerConns'[s] = peerConns[s] /\ Reachable(s) /\ lanes[s]
  <2>1. gns[c] = "up"
    BY <1>2, ConnectedTakesOwnOrFree
  <2>2. CASE /\ \A u \in ClientSlots : peerConns[u] # c
             /\ gns' = [gns EXCEPT ![c] = "gone"]
             /\ UNCHANGED <<tag, peerConns, lanes, net>>
    BY <2>2
  <2>3. ASSUME NEW f \in ClientSlots,
               \/ peerConns[f] = c
               \/ peerConns[f] = Nobody /\ tag[c] = NoSlot
                     /\ \A u \in ClientSlots : peerConns[u] # c,
               gns' = [gns EXCEPT ![c] = "open"],
               peerConns' = [peerConns EXCEPT ![f] = c],
               lanes' = [lanes EXCEPT ![f] = TRUE]
        PROVE  peerConns'[s] = peerConns[s] /\ Reachable(s) /\ lanes[s]
    <3>1. \A u \in ClientSlots : u # f => peerConns[u] # c
      BY <2>3 DEF TagsMatchSlots
    <3>2. CASE s # f
      BY <2>3, <3>1, <3>2
    <3>3. CASE s = f /\ peerConns[f] = c
      BY <2>1, <2>3, <3>3, SessionAssumption DEF EdgeInv, UnreadyUnseen
    <3>4. CASE s = f /\ peerConns[f] = Nobody
      BY <1>2, <2>3, <3>4, SessionAssumption DEF EdgesSeen
    <3>5. QED
      BY <2>3, <3>2, <3>3, <3>4
  <2>4. QED
    BY <1>2, <2>2, <2>3, ConnectedTakesOwnOrFree
<1>3. ASSUME NEW c \in Clients, Closed(c)
      PROVE  peerConns'[s] = peerConns[s] /\ Reachable(s) /\ lanes[s]
  <2>1. UNCHANGED lanes /\ gns' = [gns EXCEPT ![c] = "gone"]
    BY <1>3, ClosedFrees
  <2>2. peerConns'[s] = peerConns[s]
    BY <1>3, ClosedFrees
  <2>3. QED
    BY <2>1, <2>2
<1>4. ASSUME NEW c \in Clients, Refuse(c) \/ Dial(c) \/ Establish(c) \/ Lose(c)
      PROVE  peerConns'[s] = peerConns[s] /\ Reachable(s) /\ lanes[s]
  <2>1. UNCHANGED <<peerConns, lanes>>
    BY <1>4 DEF Refuse, Dial, Establish, Lose, GnsStep, slotVars
  <2>2. gns' = [gns EXCEPT ![c] = gns'[c]]
    BY <1>4 DEF Refuse, Dial, Establish, Lose, GnsStep
  <2>3. gns'[c] \in {"gone", "dialing", "lost"} \/ (gns[c] \in {"accepted", "dialing"} /\ gns'[c] = "up")
    BY <1>4 DEF Refuse, Dial, Establish, Lose, GnsStep
  <2>4. gns[c] = "dialing" => peerConns[s] # c
    BY DEF TagsMatchSlots
  <2>5. QED
    BY <2>1, <2>2, <2>3, <2>4
<1>5. CASE PublishConnected \/ ClearLanes \/ ResetRemote \/ PurgeInbox \/ Aggregate \/ ResetAll \/ EmptyInbox
  <2>1. UNCHANGED <<gns, peerConns>> /\ lanes' \in {lanes, [lanes EXCEPT ![net.slot] = FALSE]}
    BY <1>5 DEF PublishConnected, ClearLanes, ResetRemote, PurgeInbox, Aggregate, ResetAll,
       EmptyInbox, gnsVars, slotVars
  <2>2. QED
    BY <2>1
<1>6. CASE Receive
  BY <1>6 DEF Receive, ReceivePose, ReceiveReliable, gnsVars, slotVars
<1>7. QED
  BY <1>1, <1>2, <1>3, <1>4, <1>5, <1>6
     DEF GnsNext, Callback

(* A prop that spawns or dies while somebody is ready is broadcast to      *)
(* everybody who holds a slot. *)
LEMMA WorldStepKeepsSnapInv ==
    ASSUME SlotInv, SnapInv, NetIdle, WorldStep
    PROVE  SnapInv'
<1>1. UNCHANGED <<gns, peerConns, lanes, state, tick, sampled, wasReady, snap>>
  BY DEF WorldStep, PropAppears, PropDestroyed, sessionVars, gnsVars, slotVars, tickVars, edgeVars
<1>2. /\ world' \subseteq Props /\ tracked' \subseteq world'
      /\ has' \in [Clients -> SUBSET Props]
  BY DEF WorldStep, PropAppears, PropDestroyed, SnapInv, SnapTyped
<1>3. ASSUME NEW s \in ClientSlots, Reachable(s), lanes[s]
      PROVE  \A p \in tracked' : p \in has'[peerConns[s]] \/ (p \in tracked /\ p \notin has[peerConns[s]])
  <2>1. Told(peerConns[s]) /\ peerConns[s] \in Clients
    BY <1>3 DEF SlotInv, Typed, StateTrails, NetIdle, Told, Reached, Reachable, SlotConnected
  <2>2. ASSUME NEW p \in Props, PropAppears(p)
        PROVE  has'[peerConns[s]] = has[peerConns[s]] \cup {p} /\ tracked' \subseteq tracked \cup {p}
    BY <2>1, <2>2 DEF PropAppears
  <2>3. ASSUME NEW p \in Props, PropDestroyed(p)
        PROVE  has'[peerConns[s]] = has[peerConns[s]] \ {p} /\ tracked' = tracked \ {p}
    BY <2>1, <2>3 DEF PropDestroyed
  <2>4. QED
    BY <2>2, <2>3 DEF WorldStep
<1>4. ASSUME NEW s \in ClientSlots, Reachable(s), lanes[s], Served(snap, s)
      PROVE  Served(snap, s)'
  <2>1. CASE s \in ToSet(snap.pending)
    BY <1>1, <2>1 DEF Served
  <2>2. CASE snap.target = s /\ tracked \subseteq has[peerConns[s]] \cup ToSet(snap.left)
    <3>1. tracked' \subseteq has'[peerConns[s]] \cup ToSet(snap.left)
      BY <1>3, <1>4, <2>2
    <3>2. QED
      BY <1>1, <2>2, <3>1 DEF Served
  <2>3. CASE snap.target # s /\ Knows(s)
    <3>1. tracked' \subseteq has'[peerConns[s]]
      BY <1>3, <1>4, <2>3 DEF Knows
    <3>2. QED
      BY <1>1, <2>3, <3>1 DEF Served, Knows
  <2>4. QED
    BY <1>4, <2>1, <2>2, <2>3 DEF Served
<1>5. \A s \in ClientSlots : Reachable(s)' = Reachable(s) /\ Awaits(s)' = Awaits(s)
  BY <1>1 DEF Reachable, SlotConnected, Awaits
<1>6. ReadyAreServed'
  BY <1>1, <1>4, <1>5 DEF SnapInv, ReadyAreServed
<1>7. QED
  BY <1>1, <1>2, <1>6 DEF SnapInv, SnapTyped, SampleHolds

(* The tick's part.                                                        *)
LEMMA TickKeepsSnapInv ==
    ASSUME Overlap = FALSE, HostInv, EdgeInv, SnapInv, GameNext, TickStep
    PROVE  SnapInv'
<1>1. NetIdle /\ UNCHANGED <<gns, peerConns, lanes, state, net>>
  BY GameKeepsSlots DEF GameNext, slotInvVars
<1>2. \A s \in ClientSlots : Reachable(s)' = Reachable(s)
  BY <1>1 DEF Reachable, SlotConnected
<1>3. tick.slot \in ClientSlots /\ SnapTyped /\ snap \in Snapshots
  BY DEF HostInv, SnapInv, SnapTyped
<1>4. ASSUME UNCHANGED <<worldVars, has>>,
             NEW s \in ClientSlots
      PROVE  Served(snap, s)' <=> Served(snap', s)
  BY <1>1, <1>4 DEF Served, Knows, worldVars
<1>5. CASE \E P \in SUBSET Props : ReSeed(P)
  <2>1. /\ world' \subseteq Props /\ tracked' = world'
        /\ tick' = [at |-> "catchup", slot |-> 1]
        /\ UNCHANGED <<snap, has, sampled>>
    BY <1>5, <1>3 DEF ReSeed, Goto, edgeVars, SnapTyped
  <2>2. \A s \in ClientSlots : Awaits(s)'
    BY <2>1, SessionAssumption DEF Awaits, ClientSlots
  <2>3. QED
    BY <2>1, <2>2 DEF SnapInv, SnapTyped, SampleHolds, ReadyAreServed
<1>6. CASE CatchUp
  <2>1. /\ tick.at = "catchup" /\ snap' = Trigger(snap, tick.slot)
        /\ UNCHANGED <<worldVars, has, sampled, wasReady>>
        /\ \/ tick' = [at |-> "catchup", slot |-> tick.slot + 1]
           \/ tick' = [at |-> "sample", slot |-> 1] /\ tick.slot + 1 \notin ClientSlots
    BY <1>6 DEF CatchUp, At, Loop, Goto, edgeVars
  <2>2. /\ snap' \in Snapshots
        /\ lanes[tick.slot] => Served(snap', tick.slot)
        /\ \A u \in ClientSlots : Served(snap, u) => Served(snap', u)
    BY <1>3, <2>1, TriggerServes
  <2>3. ASSUME NEW s \in ClientSlots, ~ Awaits(s)' PROVE s = tick.slot \/ ~ Awaits(s)
    BY <1>3, <2>1, <2>3, SessionAssumption DEF Awaits, ClientSlots
  <2>4. ReadyAreServed'
    <3> SUFFICES ASSUME NEW s \in ClientSlots, Reachable(s), lanes[s], wasReady[s], ~ Awaits(s)'
                 PROVE  Served(snap', s)
      BY <1>1, <1>2, <1>4, <2>1 DEF ReadyAreServed
    <3>1. QED
      BY <2>2, <2>3 DEF SnapInv, ReadyAreServed
  <2>5. QED
    BY <1>3, <2>1, <2>2, <2>4 DEF SnapInv, SnapTyped, SampleHolds, worldVars
<1>7. CASE Edge
  <2> DEFINE u == tick.slot
  <2>1. /\ tick.at = "edge" /\ tick'.at \in {"edge", "aggregate"}
        /\ wasReady' = [wasReady EXCEPT ![u] = lanes[u]]
        /\ snap' = IF wasReady[u] /\ ~ lanes[u] THEN Cancel(snap, u)
                   ELSE IF ~ wasReady[u] /\ lanes[u] THEN Trigger(snap, u) ELSE snap
        /\ UNCHANGED <<worldVars, has, sampled>>
    BY <1>7 DEF Edge, At, Loop, Goto
  <2>2. snap' \in Snapshots
    BY <1>3, <2>1, TriggerServes, CancelServes
  <2>3. ASSUME NEW s \in ClientSlots, Reachable(s), lanes[s], wasReady'[s]
        PROVE  Served(snap', s)
    <3>1. wasReady[s] \/ s = u
      BY <2>1, <2>3 DEF EdgeInv
    <3>2. wasReady[s] => Served(snap, s)
      BY <2>1, <2>3 DEF SnapInv, ReadyAreServed, Awaits
    <3>3. CASE wasReady[u] /\ ~ lanes[u]
      <4>1. s # u /\ SlotConnected(s) /\ Served(snap, s) /\ snap' = Cancel(snap, u)
        BY <2>1, <2>3, <3>1, <3>2, <3>3 DEF Reachable
      <4>2. QED
        BY <1>3, <4>1, CancelServes
    <3>4. CASE ~ wasReady[u] /\ lanes[u]
      <4>1. snap' = Trigger(snap, u)
        BY <2>1, <3>4
      <4>2. QED
        BY <1>3, <3>1, <3>2, <3>4, <4>1, TriggerServes
    <3>5. CASE wasReady[u] <=> lanes[u]
      BY <2>1, <2>3, <3>1, <3>2, <3>5
    <3>6. wasReady[u] \in BOOLEAN /\ lanes[u] \in BOOLEAN
      BY <1>3 DEF EdgeInv, HostInv, SlotInv, Typed
    <3>7. QED
      BY <3>3, <3>4, <3>5, <3>6
  <2>4. ReadyAreServed'
    BY <1>1, <1>2, <1>4, <2>1, <2>3 DEF ReadyAreServed
  <2>5. QED
    BY <1>1, <1>3, <2>1, <2>2, <2>4 DEF SnapInv, SnapTyped, SampleHolds, worldVars
<1>8. CASE AggregateEdge
  <2>1. /\ tick.at = "aggregate" /\ tick'.at = "drain"
        /\ UNCHANGED <<worldVars, has, sampled, wasReady>>
        /\ UNCHANGED snap \/ (~ sampled /\ snap' = Idle)
    BY <1>8 DEF AggregateEdge, At, Goto
  <2>2. snap' \in Snapshots
    BY <1>3, <2>1, IdleIsSnapshot
  <2>3. ASSUME NEW s \in ClientSlots, lanes[s] PROVE UNCHANGED snap
    BY <1>1, <2>1, <2>3 DEF SnapInv, SampleHolds, HostInv, SlotInv, StateTrails, NetIdle
  <2>4. ReadyAreServed'
    BY <1>1, <1>2, <1>4, <2>1, <2>3 DEF SnapInv, ReadyAreServed, Awaits
  <2>5. QED
    BY <1>1, <1>3, <2>1, <2>2, <2>4 DEF SnapInv, SnapTyped, SampleHolds, worldVars
<1>9. CASE Drain
  <2>1. /\ tick'.at = "puppet" /\ tick.at = "drain"
        /\ UNCHANGED <<worldVars, sampled, wasReady>>
        /\ DrainChunk \/ UNCHANGED <<snap, has>>
    BY <1>9 DEF Drain, At, Goto, edgeVars
  <2>2. /\ SnapTyped'
        /\ \A s \in ClientSlots : Reachable(s) /\ Served(snap, s) => Served(snap, s)'
    <3>1. CASE DrainChunk
      BY <1>1, <1>3, <2>1, <3>1, DrainServes DEF HostInv
    <3>2. CASE UNCHANGED <<snap, has>>
      BY <1>1, <1>3, <2>1, <3>2 DEF SnapTyped, Served, Knows, worldVars
    <3>3. QED
      BY <2>1, <3>1, <3>2
  <2>3. ReadyAreServed'
    BY <1>1, <1>2, <2>1, <2>2 DEF SnapInv, ReadyAreServed, Awaits
  <2>4. QED
    BY <2>1, <2>2, <2>3 DEF SnapInv, SampleHolds
<1>10. CASE BeginTick
  <2>1. /\ tick'.at = "edge" /\ tick.at # "catchup"
        /\ sampled' = (state = "Connected")
        /\ UNCHANGED <<world, tracked, snap, has, wasReady>>
    BY <1>10 DEF BeginTick, TickIdle, At, Goto, snapVars, worldVars
  <2>2. ReadyAreServed'
    BY <1>1, <1>2, <2>1 DEF SnapInv, ReadyAreServed, Awaits, Served, Knows
  <2>3. QED
    BY <1>1, <1>3, <2>1, <2>2 DEF SnapInv, SnapTyped, SampleHolds
<1>11. CASE DrivePuppet \/ FeedEdge \/ MaybeSendJoin \/ HandleNext \/ EndTick
  <2>1. /\ tick.at \in {"puppet", "feed", "join", "inbox"}
        /\ tick'.at \in {"puppet", "feed", "join", "inbox", "idle"}
        /\ UNCHANGED <<world, tracked, snap, has, sampled, wasReady>>
    BY <1>11 DEF DrivePuppet, FeedEdge, MaybeSendJoin, HandleNext, EndTick, At, Goto, Loop,
       snapVars, worldVars, edgeVars
  <2>2. ReadyAreServed'
    BY <1>1, <1>2, <2>1 DEF SnapInv, ReadyAreServed, Awaits, Served, Knows
  <2>3. QED
    BY <1>1, <1>3, <2>1, <2>2 DEF SnapInv, SnapTyped, SampleHolds
<1>12. QED
  BY <1>5, <1>6, <1>7, <1>8, <1>9, <1>10, <1>11 DEF TickStep

LEMMA SnapInvStep ==
    ASSUME Overlap = FALSE, MissedEdges = FALSE, HostInv, EdgeInv, SnapInv, [Next]_vars
    PROVE  SnapInv'
<1>1. CASE GameNext
  BY <1>1, TickKeepsSnapInv, WorldStepKeepsSnapInv DEF GameNext, HostInv
<1>2. CASE NetThreadNext \/ TransportNext
  <2>1. /\ tick.at = "idle" /\ UNCHANGED <<tick, sampled, wasReady, world, tracked, snap, has>>
        /\ GnsNext \/ ((Callback \/ Receive) /\ EdgesSeen)
    BY <1>2 DEF NetThreadNext, TransportNext, TickIdle, At, snapVars, worldVars, tickVars, edgeVars
  <2>2. ASSUME NEW s \in ClientSlots, Reachable(s)', lanes'[s], wasReady[s]
        PROVE  Served(snap, s)'
    <3>1. peerConns'[s] = peerConns[s] /\ Reachable(s) /\ lanes[s]
      BY <2>1, <2>2, NetKeepsReady DEF HostInv
    <3>2. Served(snap, s)
      BY <2>1, <2>2, <3>1 DEF SnapInv, ReadyAreServed, Awaits
    <3>3. QED
      BY <2>1, <3>1, <3>2 DEF Served, Knows
  <2>3. QED
    BY <2>1, <2>2 DEF SnapInv, SnapTyped, SampleHolds, ReadyAreServed
<1>3. CASE UNCHANGED vars
  BY <1>3 DEF vars, sessionVars, gnsVars, slotVars, tickVars, edgeVars, snapVars, worldVars,
     SnapInv, SnapTyped, SampleHolds, ReadyAreServed, Served, Knows, Awaits, Reachable,
     SlotConnected
<1>4. QED
  BY <1>1, <1>2, <1>3 DEF Next

THEOREM SnapInvariance ==
    ASSUME Overlap = FALSE, MissedEdges = FALSE
    PROVE  Spec => [](HostInv /\ EdgeInv /\ SnapInv)
<1>1. Init => SnapInv
  BY SnapInvInit
<1>2. HostInv /\ EdgeInv /\ SnapInv /\ [Next]_vars => SnapInv'
  BY SnapInvStep
<1>3. QED
  BY <1>1, <1>2, EdgeInvariance, PTL DEF Spec

(* If ticks are atomic and see every edge, a ready client with no snapshot *)
(* under way or queued was told of every prop the registry tracks, for any *)
(* worlds, chunk sizes and re-seeds: the snapshot, the queue behind it and *)
(* the broadcasts that overtake it leave no gap                            *)
(* (prop_snapshot.cpp:125-163, net_pump.cpp:326-344).                      *)
THEOREM CaughtUpAlwaysKnow ==
    ASSUME Overlap = FALSE, MissedEdges = FALSE
    PROVE  Spec => []CaughtUpKnowTracked
<1>1. SnapInv => CaughtUpKnowTracked
  BY DEF SnapInv, ReadyAreServed, Awaits, Served, Knows, CaughtUpKnowTracked, CaughtUp,
     TickIdle, At
<1>2. QED
  BY <1>1, SnapInvariance, PTL
=============================================================================
