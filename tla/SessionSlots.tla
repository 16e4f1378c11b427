---------------------------- MODULE SessionSlots ----------------------------
(***************************************************************************)
(* The host's net thread: coop/net/session_status.cpp and the receiving    *)
(* half of coop/net/session.cpp.                                           *)
(*                                                                         *)
(* A client process dials once; a host slot serves one client after the    *)
(* other.  The status callback and HandleMessage run on one thread, but    *)
(* the game thread reads the slots between any two of their stores, so the *)
(* terminal branch of the callback is a series of steps (net).  What GNS,  *)
(* the transport library, has done with a connection is gns[c]:            *)
(*    new       the client has not dialed                                  *)
(*    dialing   the None -> Connecting callback is pending                 *)
(*    accepted  accepted by the host, GNS is still shaking hands           *)
(*    up        the -> Connected callback is pending                       *)
(*    open      the host has run the Connected callback                    *)
(*    lost      the ClosedByPeer or ProblemDetected callback is pending    *)
(*    gone      the host has released the handle                           *)
(* A client stands for its connection handle, its session epoch and its    *)
(* wire identity.  A message carries what the host does with it: the       *)
(* sender's slot, and, for the properties, the sender itself.              *)
(***************************************************************************)
EXTENDS Integers, SequencesExt, Filter

CONSTANTS
    Clients,        \* the client processes that may dial
    Nobody,
    MaxPeers,       \* kMaxPeers, 4 in the build
    Kinds,          \* what the clients send: "Pose", and the reliable messages,
                    \* each client each kind once
    InboxCap        \* kReliableInboxCap, 8192 in the build

ASSUME SessionAssumption ==
    /\ Nobody \notin Clients
    /\ MaxPeers \in Nat \ {0, 1}
    /\ InboxCap \in Nat

VARIABLES
    gns,            \* see above
    tag,            \* tag[c]: m_nConnUserData of the connection
    told,           \* the clients that were sent AssignPeerSlot
    sentBy,         \* the reliable messages sent so far
    peerConns,      \* Session::peerConns_
    lanes,          \* Session::peerLanesConfigured_
    state,          \* Session::state_
    remote,         \* remote[s]: whose pose remotePoses_[s] is, if hasRemote_[s]
    epoch,          \* Session::expectedEpoch_
    inbox,          \* Session::reliableInbox_
    net             \* where the net thread is, and the slot it works on

gnsVars == <<gns, tag, told, sentBy>>
slotVars == <<peerConns, lanes, state>>
recvVars == <<remote, epoch, inbox>>
sessionVars == <<gnsVars, slotVars, recvVars, net>>

ClientSlots == 1 .. MaxPeers - 1
NoSlot == -1
GnsStates == {"new", "dialing", "accepted", "up", "open", "lost", "gone"}
NetSteps == {"idle", "publish", "unready", "reset", "purge", "aggregate", "clear", "empty"}
Messages == [kind : Kinds, slot : ClientSlots, from : Clients]

NetIdle == net.at = "idle"
NetAt(step, s) == net' = [at |-> step, slot |-> s]
NetDone == NetAt("idle", NoSlot)

FreeSlots == {s \in ClientSlots : peerConns[s] = Nobody}
(* FindFreePeerSlotForClient scans upwards. *)
FindFreeSlot == Min(FreeSlots)
(* FindPeerSlotForConn. *)
SlotOf(c) ==
    IF \E s \in ClientSlots : peerConns[s] = c
    THEN CHOOSE s \in ClientSlots : peerConns[s] = c ELSE NoSlot

(* connectedPeerCount counts the slots that are configured. *)
SlotConnected(s) == peerConns[s] # Nobody
AnyConfigured == \E s \in ClientSlots : SlotConnected(s) /\ lanes[s]

-----------------------------------------------------------------------------
SessionInit ==
    /\ gns = [c \in Clients |-> "new"]
    /\ tag = [c \in Clients |-> NoSlot]
    /\ told = {}
    /\ sentBy = {}
    /\ peerConns = [s \in ClientSlots |-> Nobody]
    /\ lanes = [s \in ClientSlots |-> FALSE]
    /\ state = "Handshaking"
    /\ remote = [s \in ClientSlots |-> Nobody]
    /\ epoch = [s \in ClientSlots |-> Nobody]
    /\ inbox = <<>>
    /\ net = [at |-> "idle", slot |-> NoSlot]

-----------------------------------------------------------------------------
(* GNS and the client processes.                                           *)

GnsStep(c, from, to) ==
    /\ gns[c] \in from
    /\ gns' = [gns EXCEPT ![c] = to]
    /\ UNCHANGED <<tag, told, sentBy, slotVars, recvVars, net>>

Dial(c) == GnsStep(c, {"new"}, "dialing")

(* "GNS may skip the None->Connecting transition in rare cases." *)
Establish(c) == GnsStep(c, {"accepted", "dialing"}, "up")

(* The client quits or times out. *)
Lose(c) == GnsStep(c, {"dialing", "accepted", "open"}, "lost")

-----------------------------------------------------------------------------
(* HandleConnStatusChanged, None -> Connecting. *)

Refuse(c) ==
    /\ NetIdle /\ GnsStep(c, {"dialing"}, "gone")

Accept(c) ==
    /\ NetIdle /\ gns[c] = "dialing" /\ FreeSlots # {}
    /\ gns' = [gns EXCEPT ![c] = "accepted"]
    /\ tag' = [tag EXCEPT ![c] = FindFreeSlot]
    /\ peerConns' = [peerConns EXCEPT ![FindFreeSlot] = c]
    /\ state' = IF state = "Disconnected" THEN "Handshaking" ELSE state
    /\ UNCHANGED <<told, sentBy, lanes, recvVars, net>>

(* Mutant: the late registration gives away a slot that is held.           *)
ConnectedTakesFirst(c) ==
    LET slot == IF SlotOf(c) # NoSlot THEN SlotOf(c) ELSE Min(ClientSlots) IN
    /\ NetIdle /\ gns[c] = "up"
    /\ gns' = [gns EXCEPT ![c] = "open"]
    /\ tag' = [tag EXCEPT ![c] = slot]
    /\ peerConns' = [peerConns EXCEPT ![slot] = c]
    /\ lanes' = [lanes EXCEPT ![slot] = TRUE]
    /\ NetAt("publish", slot)
    /\ UNCHANGED <<told, sentBy, state, recvVars>>

(* -> Connected, up to the store that makes the slot ready.  A connection  *)
(* whose Connecting callback was skipped is registered here.               *)
Connected(c) ==
    LET slot == IF SlotOf(c) # NoSlot THEN SlotOf(c) ELSE FindFreeSlot IN
    /\ NetIdle /\ gns[c] = "up"
    /\ IF SlotOf(c) = NoSlot /\ FreeSlots = {}
       THEN gns' = [gns EXCEPT ![c] = "gone"]
            /\ UNCHANGED <<tag, peerConns, lanes, net>>
       ELSE /\ gns' = [gns EXCEPT ![c] = "open"]
            /\ tag' = [tag EXCEPT ![c] = slot]
            /\ peerConns' = [peerConns EXCEPT ![slot] = c]
            /\ lanes' = [lanes EXCEPT ![slot] = TRUE]
            /\ NetAt("publish", slot)
    /\ UNCHANGED <<told, sentBy, state, recvVars>>

(* The rest of it: the aggregate state and AssignPeerSlot. *)
PublishConnected ==
    /\ net.at = "publish"
    /\ state' = "Connected"
    /\ told' = told \cup {peerConns[net.slot]}
    /\ NetDone
    /\ UNCHANGED <<gns, tag, sentBy, peerConns, lanes, recvVars>>

-----------------------------------------------------------------------------
(* -> ClosedByPeer or ProblemDetectedLocally. *)

Closed(c) ==
    /\ NetIdle /\ gns[c] = "lost"
    /\ gns' = [gns EXCEPT ![c] = "gone"]
    /\ IF SlotOf(c) = NoSlot
       THEN NetAt("aggregate", NoSlot) /\ UNCHANGED peerConns
       ELSE /\ peerConns' = [peerConns EXCEPT ![SlotOf(c)] = Nobody]
            /\ NetAt("unready", SlotOf(c))
    /\ UNCHANGED <<tag, told, sentBy, lanes, state, recvVars>>

ClearLanes ==
    /\ net.at = "unready"
    /\ lanes' = [lanes EXCEPT ![net.slot] = FALSE]
    /\ NetAt("reset", net.slot)
    /\ UNCHANGED <<gnsVars, peerConns, state, recvVars>>

(* Mutant: the latched epoch survives.                                     *)
ResetPeerRemoteStateKeepsEpoch(S) ==
    /\ remote' = [s \in ClientSlots |-> IF s \in S THEN Nobody ELSE remote[s]]
    /\ UNCHANGED epoch

(* ResetPeerRemoteState of every slot in S. *)
ResetPeerRemoteState(S) ==
    /\ remote' = [s \in ClientSlots |-> IF s \in S THEN Nobody ELSE remote[s]]
    /\ epoch' = [s \in ClientSlots |-> IF s \in S THEN Nobody ELSE epoch[s]]

ResetRemote ==
    /\ net.at = "reset"
    /\ ResetPeerRemoteState({net.slot})
    /\ NetAt("purge", net.slot)
    /\ UNCHANGED <<gnsVars, slotVars, inbox>>

(* Mutant: the departing peer's messages stay queued.                      *)
PurgeInboxSkipped ==
    /\ net.at = "purge"
    /\ NetAt("aggregate", net.slot)
    /\ UNCHANGED <<gnsVars, slotVars, recvVars>>

PurgeInbox ==
    /\ net.at = "purge"
    /\ inbox' = Kept(inbox, {i \in DOMAIN inbox : inbox[i].slot # net.slot})
    /\ NetAt("aggregate", net.slot)
    /\ UNCHANGED <<gnsVars, slotVars, remote, epoch>>

(* Mutant: half-open peers count, so the session stays Connected for them. *)
AggregateCountsHalfOpen ==
    /\ net.at = "aggregate"
    /\ IF \E s \in ClientSlots : SlotConnected(s)
       THEN NetDone /\ UNCHANGED state
       ELSE NetAt("clear", net.slot) /\ state' = "Disconnected"
    /\ UNCHANGED <<gnsVars, peerConns, lanes, recvVars>>

Aggregate ==
    /\ net.at = "aggregate"
    /\ IF AnyConfigured
       THEN NetDone /\ UNCHANGED state
       ELSE NetAt("clear", net.slot) /\ state' = "Disconnected"
    /\ UNCHANGED <<gnsVars, peerConns, lanes, recvVars>>

(* All peers are gone: every slot is reset, then the queue is emptied. *)
ResetAll ==
    /\ net.at = "clear"
    /\ ResetPeerRemoteState(ClientSlots)
    /\ NetAt("empty", net.slot)
    /\ UNCHANGED <<gnsVars, slotVars, inbox>>

EmptyInbox ==
    /\ net.at = "empty"
    /\ inbox' = <<>>
    /\ NetDone
    /\ UNCHANGED <<gnsVars, slotVars, remote, epoch>>

-----------------------------------------------------------------------------
(* HandleMessage on a message of client c, whom the connection's user data *)
(* assigns a slot: the epoch latch comes first.                            *)
Receives(c) ==
    /\ NetIdle /\ gns[c] \in {"up", "open"} /\ tag[c] \in ClientSlots

PassesLatch(c) == epoch[tag[c]] \in {Nobody, c}
Latch(c) ==
    epoch' = IF epoch[tag[c]] = Nobody THEN [epoch EXCEPT ![tag[c]] = c] ELSE epoch

ReceivePose(c) ==
    /\ "Pose" \in Kinds /\ Receives(c) /\ Latch(c)
    /\ remote' = IF PassesLatch(c) THEN [remote EXCEPT ![tag[c]] = c] ELSE remote
    /\ UNCHANGED <<gnsVars, slotVars, inbox, net>>

(* A client sends its Join once AssignPeerSlot told it who it is. *)
ReceiveReliable(c, kind) ==
    /\ kind # "Pose" /\ Receives(c) /\ <<c, kind>> \notin sentBy
    /\ kind = "Join" => c \in told
    /\ Latch(c)
    /\ sentBy' = sentBy \cup {<<c, kind>>}
    /\ inbox' = IF PassesLatch(c) /\ Len(inbox) < InboxCap
                THEN Append(inbox, [kind |-> kind, slot |-> tag[c], from |-> c])
                ELSE inbox
    /\ UNCHANGED <<gns, tag, told, slotVars, remote, net>>

-----------------------------------------------------------------------------
GnsNext == \E c \in Clients : Dial(c) \/ Establish(c) \/ Lose(c)

(* One step of RunCallbacks or of the receive loop. *)
Callback ==
    \/ \E c \in Clients : Refuse(c) \/ Accept(c) \/ Connected(c) \/ Closed(c)
    \/ PublishConnected
    \/ ClearLanes
    \/ ResetRemote
    \/ PurgeInbox
    \/ Aggregate
    \/ ResetAll
    \/ EmptyInbox

Receive ==
    \/ \E c \in Clients : ReceivePose(c)
    \/ \E c \in Clients, kind \in Kinds : ReceiveReliable(c, kind)

NetNext == GnsNext \/ Callback \/ Receive

-----------------------------------------------------------------------------
SessionTypeOK ==
    /\ gns \in [Clients -> GnsStates]
    /\ tag \in [Clients -> ClientSlots \cup {NoSlot}]
    /\ told \subseteq Clients
    /\ sentBy \subseteq Clients \X Kinds
    /\ peerConns \in [ClientSlots -> Clients \cup {Nobody}]
    /\ lanes \in [ClientSlots -> BOOLEAN]
    /\ state \in {"Disconnected", "Handshaking", "Connected"}
    /\ remote \in [ClientSlots -> Clients \cup {Nobody}]
    /\ epoch \in [ClientSlots -> Clients \cup {Nobody}]
    /\ inbox \in Seq(Messages)
    /\ net \in [at : NetSteps, slot : ClientSlots \cup {NoSlot}]

(* The net thread is past the store that gave slot s up and has not yet    *)
(* come to `step`. *)
Leaving(s, steps) == net.slot = s /\ net.at \in steps

(* A connection's messages reach the slot it holds, and no connection holds*)
(* a slot it was not tagged with (session.cpp:666-688,                     *)
(* session_status.cpp:131-141).                                            *)
TagsMatchSlots ==
    \A c \in Clients :
        /\ \A s \in ClientSlots : peerConns[s] = c =>
              tag[c] = s /\ gns[c] \in {"accepted", "up", "open", "lost"}
        /\ tag[c] # NoSlot /\ gns[c] # "gone" => peerConns[tag[c]] = c

(* What a slot has stored for its puppet came from the client that holds   *)
(* it, and the epoch latch never rejects that client                       *)
(* (session_status.cpp:247-251, session.cpp:461-472).                      *)
RemoteFromOccupant ==
    \A s \in ClientSlots :
        \/ {remote[s], epoch[s]} \subseteq {Nobody, peerConns[s]}
        \/ Leaving(s, {"unready", "reset"})

(* The queue holds no message of a client that has left its slot, once the *)
(* Closed callback is over (session_status.cpp:253-256).                   *)
InboxFromOccupant ==
    \A i \in DOMAIN inbox : LET m == inbox[i] IN
        peerConns[m.slot] = m.from \/ Leaving(m.slot, {"unready", "reset", "purge"})

(* Between callbacks the session is Connected exactly while some slot is   *)
(* ready: a half-open peer neither keeps it up nor takes it down           *)
(* (session_status.cpp:96-107, 271-278).                                   *)
StateMatchesSlots ==
    NetIdle => (state = "Connected" <=> \E s \in ClientSlots : lanes[s])
=============================================================================
