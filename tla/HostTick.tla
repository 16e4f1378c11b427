------------------------------- MODULE HostTick -------------------------------
(***************************************************************************)
(* The host's game thread: net_pump::Tick with the parts of event_feed,    *)
(* player_handshake, players_registry, remote_prop and prop_snapshot that  *)
(* it drives, against the net thread of SessionSlots.                      *)
(*                                                                         *)
(* A tick is a series of steps (tick.at), one per read of the session's    *)
(* atomics or of its queue, in the order of the code:                      *)
(*    catchup    re-snapshot the ready slots after a re-seed, one by one   *)
(*    sample     read the aggregate state                                  *)
(*    edge       compare IsSlotReady with the last tick, slot by slot      *)
(*    aggregate  the all-peers-gone edge                                   *)
(*    drain      one chunk of the prop snapshot                            *)
(*    puppet     drive the puppets, slot by slot                           *)
(*    feed,join  event_feed's connection edge and Join, slot by slot       *)
(*    inbox      handle the queued reliable messages                       *)
(* The world changes (PropAppears, PropDestroyed) between two ticks.       *)
(***************************************************************************)
EXTENDS PropSnapshot

CONSTANTS
    Overlap,        \* may the network act in the middle of a tick, and the
                    \* game thread in the middle of a status callback?
    MissedEdges,    \* may a slot come up and go down, or go down and come up
                    \* for another client, between two ticks?
    MaxReseeds      \* bound: world changes that re-seed the prop registry

ASSUME TickAssumption ==
    Overlap \in BOOLEAN /\ MissedEdges \in BOOLEAN /\ MaxReseeds \in Nat

VARIABLES
    tick,           \* where the tick is, and the slot it is at
    sampled,        \* isConnected, read when the tick begins
    wasReady,       \* g_wasConnectedBySlot
    wasConnected,   \* g_wasConnected
    wasHeld,        \* event_feed's g_lastConnectedBySlot
    hostElement,    \* is the host's own Player element published?
    joinSent,       \* g_joinSentBySlot[s]: Nobody, or who the Join went to
    nick,           \* g_remoteNickBySlot[s]: whose nickname
    identity,       \* the mirror in playerBySlot_[s]: whose element
    puppet,         \* g_puppets[s]: whose pose it shows, Nobody if not spawned
    mirrors,        \* mirrors[s]: clients with a prop mirror tagged with slot s
    joined,         \* clients whose Join the host has handled
    introduced,     \* <<x, y>>: x was sent a PlayerJoined about y
    reseeds

edgeVars == <<sampled, wasReady, wasConnected, wasHeld>>
peerVars == <<hostElement, joinSent, nick, identity, puppet, mirrors, joined, introduced>>
tickVars == <<tick, edgeVars, peerVars, reseeds>>
vars == <<sessionVars, snapVars, tickVars>>

TickSteps ==
    {"idle", "catchup", "sample", "edge", "aggregate", "drain", "puppet", "feed", "join", "inbox"}
TickIdle == tick.at = "idle"
At(step) == tick.at = step
Goto(step, s) == tick' = [at |-> step, slot |-> s]
(* The next slot of a loop over the slots, or what follows the loop. *)
Loop(step, after) ==
    IF tick.slot + 1 \in ClientSlots THEN Goto(step, tick.slot + 1) ELSE Goto(after, 1)

NobodyYet == [s \in ClientSlots |-> Nobody]

Init ==
    /\ SessionInit
    /\ SnapshotInit
    /\ tick = [at |-> "idle", slot |-> 1]
    /\ sampled = FALSE
    /\ wasReady = [s \in ClientSlots |-> FALSE]
    /\ wasConnected = FALSE
    /\ wasHeld = [s \in ClientSlots |-> FALSE]
    /\ hostElement = FALSE
    /\ joinSent = NobodyYet /\ nick = NobodyYet /\ identity = NobodyYet
    /\ puppet = NobodyYet
    /\ mirrors = [s \in ClientSlots |-> {}]
    /\ joined = {} /\ introduced = {}
    /\ reseeds = 0

-----------------------------------------------------------------------------
(* The reaper finds the end of a mass purge and re-seeds: the props the    *)
(* new level placed, P, become known without any broadcast, and every live *)
(* prop is tracked from now on.                                            *)
ReSeed(P) ==
    /\ TickIdle /\ reseeds < MaxReseeds
    /\ P # {} /\ P \cap world = {}
    /\ reseeds' = reseeds + 1
    /\ world' = world \cup P
    /\ tracked' = world'
    /\ Goto("catchup", 1)
    /\ UNCHANGED <<sessionVars, snap, has, edgeVars, peerVars>>

(* TriggerForSlot for every ready slot: their snapshots did not have the   *)
(* props of the new level. *)
CatchUp ==
    /\ At("catchup")
    /\ snap' = Trigger(snap, tick.slot)
    /\ Loop("catchup", "sample")
    /\ UNCHANGED <<sessionVars, worldVars, has, edgeVars, peerVars, reseeds>>

BeginTick ==
    /\ TickIdle \/ At("sample")
    /\ sampled' = (state = "Connected")
    /\ Goto("edge", 1)
    /\ UNCHANGED <<sessionVars, snapVars, wasReady, wasConnected, wasHeld, peerVars, reseeds>>

(* Mutant: the prop mirrors of the departed client stay.                   *)
SlotDownKeepsMirrors(s) ==
    /\ identity' = [identity EXCEPT ![s] = Nobody]
    /\ puppet' = [puppet EXCEPT ![s] = Nobody]
    /\ UNCHANGED mirrors

(* UnregisterPuppet, RemotePlayer::Destroy, remote_prop::OnDisconnectForSlot.*)
SlotDown(s) ==
    /\ identity' = [identity EXCEPT ![s] = Nobody]
    /\ puppet' = [puppet EXCEPT ![s] = Nobody]
    /\ mirrors' = [mirrors EXCEPT ![s] = {}]

(* The slot went down since the last tick: its puppet, its Player element, *)
(* its snapshot and its prop mirrors go.  It came up: the connect replay.  *)
Edge ==
    LET s == tick.slot IN
    /\ At("edge")
    /\ wasReady' = [wasReady EXCEPT ![s] = lanes[s]]
    /\ IF wasReady[s] /\ ~ lanes[s]
       THEN SlotDown(s) /\ snap' = Cancel(snap, s)
       ELSE /\ snap' = IF ~ wasReady[s] /\ lanes[s] THEN Trigger(snap, s) ELSE snap
            /\ UNCHANGED <<identity, puppet, mirrors>>
    /\ Loop("edge", "aggregate")
    /\ UNCHANGED <<sessionVars, worldVars, has, sampled, wasConnected, wasHeld,
                   hostElement, joinSent, nick, joined, introduced, reseeds>>

(* All peers are gone: ForceRelease and the subsystems' OnDisconnect. *)
AggregateEdge ==
    /\ At("aggregate")
    /\ wasConnected' = sampled
    /\ IF wasConnected /\ ~ sampled
       THEN snap' = Idle /\ mirrors' = [s \in ClientSlots |-> {}]
       ELSE UNCHANGED <<snap, mirrors>>
    /\ Goto("drain", 1)
    /\ UNCHANGED <<sessionVars, worldVars, has, sampled, wasReady, wasHeld, hostElement,
                   joinSent, nick, identity, puppet, joined, introduced, reseeds>>

(* DrainChunk, then SetLocalPeerId(0), which publishes the host's element. *)
Drain ==
    /\ At("drain")
    /\ IF sampled THEN DrainChunk ELSE UNCHANGED <<snap, has>>
    /\ hostElement' = TRUE
    /\ Goto("puppet", 1)
    /\ UNCHANGED <<sessionVars, worldVars, edgeVars, joinSent, nick, identity, puppet,
                   mirrors, joined, introduced, reseeds>>

(* TryGetRemotePose, and the puppet it spawns or moves. *)
DrivePuppet ==
    LET s == tick.slot IN
    /\ At("puppet")
    /\ puppet' = IF state = "Connected" /\ remote[s] # Nobody
                 THEN [puppet EXCEPT ![s] = remote[s]] ELSE puppet
    /\ Loop("puppet", "feed")
    /\ UNCHANGED <<sessionVars, snapVars, edgeVars, hostElement, joinSent, nick,
                   identity, mirrors, joined, introduced, reseeds>>

-----------------------------------------------------------------------------
(* event_feed::Update.                                                     *)

(* Mutant: the Join latch stays set.                                       *)
OnSlotDisconnectedKeepsLatch(s) ==
    /\ nick' = [nick EXCEPT ![s] = Nobody]
    /\ UNCHANGED joinSent

(* player_handshake::OnSlotDisconnected. *)
OnSlotDisconnected(s) ==
    /\ nick' = [nick EXCEPT ![s] = Nobody]
    /\ joinSent' = [joinSent EXCEPT ![s] = Nobody]

(* "X left the game". *)
FeedEdge ==
    LET s == tick.slot IN
    /\ At("feed")
    /\ wasHeld' = [wasHeld EXCEPT ![s] = SlotConnected(s)]
    /\ IF wasHeld[s] /\ ~ SlotConnected(s)
       THEN OnSlotDisconnected(s) ELSE UNCHANGED <<nick, joinSent>>
    /\ Goto("join", s)
    /\ UNCHANGED <<sessionVars, snapVars, sampled, wasReady, wasConnected, hostElement,
                   identity, puppet, mirrors, joined, introduced, reseeds>>

(* MaybeSendJoinToSlot; the send fails when the connection is gone. *)
MaybeSendJoin ==
    LET s == tick.slot IN
    /\ At("join")
    /\ joinSent' = IF lanes[s] /\ joinSent[s] = Nobody /\ hostElement
                   THEN [joinSent EXCEPT ![s] = peerConns[s]] ELSE joinSent
    /\ IF s + 1 \in ClientSlots THEN Goto("feed", s + 1) ELSE Goto("inbox", 1)
    /\ UNCHANGED <<sessionVars, snapVars, edgeVars, hostElement, nick, identity,
                   puppet, mirrors, joined, introduced, reseeds>>

(* The other clients that are ready, for BroadcastPlayerJoinedFromHost. *)
OthersReady(s) == {x \in ClientSlots \ {s} : lanes[x] /\ SlotConnected(x)}

(* Mutant: the joiner is announced, but not told about the others.         *)
IntroductionsOneWay(c, s) == {<<peerConns[x], c>> : x \in OthersReady(s)}

(* The joiner is announced to every other ready client, and told about     *)
(* those whose identity is known.                                          *)
Introductions(c, s) ==
    {<<peerConns[x], c>> : x \in OthersReady(s)}
        \cup {<<peerConns[s], identity[x]>> :
                x \in {y \in OthersReady(s) : identity[y] # Nobody /\ SlotConnected(s)}}

(* Mutant: a slot that has an identity keeps it.                           *)
IdentifyOnce(c, s) ==
    /\ identity' = IF identity[s] = Nobody THEN [identity EXCEPT ![s] = c] ELSE identity
    /\ nick' = [nick EXCEPT ![s] = c]

(* EstablishMirrorForSlot and the nickname of HandleJoinMessage. *)
Identify(c, s) ==
    /\ identity' = [identity EXCEPT ![s] = c]
    /\ nick' = [nick EXCEPT ![s] = c]

(* TryGetReliable and the handler of the message it returns. *)
HandleNext ==
    LET m == Head(inbox) IN
    /\ At("inbox") /\ inbox # <<>>
    /\ inbox' = Tail(inbox)
    /\ IF m.kind = "Join"
       THEN /\ Identify(m.from, m.slot)
            /\ joined' = joined \cup {m.from}
            /\ introduced' = introduced \cup Introductions(m.from, m.slot)
            /\ UNCHANGED mirrors
       ELSE /\ mirrors' = [mirrors EXCEPT ![m.slot] = @ \cup {m.from}]
            /\ UNCHANGED <<identity, nick, joined, introduced>>
    /\ UNCHANGED <<gnsVars, slotVars, remote, epoch, net, snapVars, tick, edgeVars,
                   hostElement, joinSent, puppet, reseeds>>

EndTick ==
    /\ At("inbox") /\ inbox = <<>>
    /\ Goto("idle", 1)
    /\ UNCHANGED <<sessionVars, snapVars, edgeVars, peerVars, reseeds>>

-----------------------------------------------------------------------------
TickStep ==
    \/ \E P \in SUBSET Props : ReSeed(P)
    \/ CatchUp
    \/ BeginTick
    \/ Edge
    \/ AggregateEdge
    \/ Drain
    \/ DrivePuppet
    \/ FeedEdge
    \/ MaybeSendJoin
    \/ HandleNext
    \/ EndTick

WorldStep ==
    /\ TickIdle
    /\ \E p \in Props : PropAppears(p) \/ PropDestroyed(p)
    /\ UNCHANGED <<sessionVars, tickVars>>

(* Without MissedEdges: a tick has seen a slot go down before the slot is   *)
(* given away again, and has seen it come up before it goes down.          *)
EdgesSeen ==
    \A s \in ClientSlots : peerConns'[s] # peerConns[s] =>
        IF SlotConnected(s) THEN lanes[s] => wasReady[s] ELSE ~ wasReady[s] /\ ~ wasHeld[s]

GameNext ==
    /\ Overlap \/ NetIdle
    /\ TickStep \/ WorldStep

NetThreadNext ==
    /\ Overlap \/ TickIdle
    /\ Callback \/ Receive
    /\ MissedEdges \/ EdgesSeen
    /\ UNCHANGED <<snapVars, tickVars>>

TransportNext ==
    /\ Overlap \/ (TickIdle /\ NetIdle)
    /\ GnsNext
    /\ UNCHANGED <<snapVars, tickVars>>

Next == GameNext \/ NetThreadNext \/ TransportNext

Spec == Init /\ [][Next]_vars

(* The host's threads go on: a tick is taken again and again and reaches   *)
(* its end, and the net thread runs the callbacks that are due.  They are  *)
(* two threads, so one does not starve the other: strong fairness, because *)
(* without Overlap a callback has to wait for the end of a tick.           *)
Fairness ==
    /\ WF_vars(GameNext /\ TickStep)
    /\ SF_vars(NetThreadNext /\ Callback)
FairSpec == Spec /\ Fairness

-----------------------------------------------------------------------------
TypeOK ==
    /\ SessionTypeOK
    /\ tracked \subseteq world /\ world \subseteq Props
    /\ snap \in Snapshots
    /\ has \in [Clients -> SUBSET Props]
    /\ tick \in [at : TickSteps, slot : ClientSlots]
    /\ {sampled, wasConnected, hostElement} \subseteq BOOLEAN
    /\ wasReady \in [ClientSlots -> BOOLEAN]
    /\ wasHeld \in [ClientSlots -> BOOLEAN]
    /\ {joinSent, nick, identity, puppet} \subseteq [ClientSlots -> Clients \cup {Nobody}]
    /\ mirrors \in [ClientSlots -> SUBSET Clients]
    /\ joined \subseteq Clients
    /\ introduced \subseteq Clients \X Clients
    /\ reseeds \in 0 .. MaxReseeds

(* Once a client's Join is handled, its slot shows its identity and        *)
(* nickname as long as it holds the slot, whatever the edge detectors and  *)
(* the messages of the slot's last client do in between                    *)
(* (player_handshake.cpp:207-313, net_pump.cpp:359-415).                   *)
IdentityKept ==
    \A s \in ClientSlots : peerConns[s] \in joined =>
        identity[s] = peerConns[s] /\ nick[s] = peerConns[s]

(* Two clients whose Joins the host has handled know of each other, in     *)
(* whatever order they connected and joined ("Order-independent +          *)
(* symmetric", player_handshake.cpp:335-377).                              *)
IntroducedBothWays ==
    \A s, t \in ClientSlots :
        s # t /\ {peerConns[s], peerConns[t]} \subseteq joined =>
            <<peerConns[s], peerConns[t]>> \in introduced

(* What a client has that the host's world has lost. *)
Phantoms(c) == has[c] \ world

(* A ready client gains no phantom, a prop it has and the host's world has *)
(* lost: a snapshot taken before the prop died does not bring it back      *)
(* after its PropDestroy, and no destroy bypasses the client               *)
(* (prop_snapshot.cpp:189-200, prop_lifecycle.cpp:296-351).                *)
NoNewPhantoms ==
    [][\A s \in ClientSlots :
        lanes[s] /\ Reachable(s) /\ Reachable(s)' /\ UNCHANGED peerConns[s]
            => Phantoms(peerConns[s])' \subseteq Phantoms(peerConns[s])]_vars

(* The clients that are ready, as the tick has seen, and for whom no       *)
(* snapshot is under way or queued. *)
CaughtUp ==
    {peerConns[s] : s \in {t \in ClientSlots :
        /\ Reachable(t) /\ lanes[t] /\ wasReady[t]
        /\ t # snap.target /\ t \notin ToSet(snap.pending)}}

(* A client that is ready, with no snapshot under way, was told of every   *)
(* prop the registry tracks: the snapshot and the broadcasts that overtake *)
(* it leave no gap (prop_snapshot.cpp:125-163, net_pump.cpp:326-344).      *)
CaughtUpKnowTracked == TickIdle => \A c \in CaughtUp : tracked \subseteq has[c]

(* "Late-joiners get a full snapshot of pre-existing keyed props"          *)
(* (prop_snapshot.cpp:4-5): they know the whole world of the host.         *)
LateJoinersKnowWorld == TickIdle => \A c \in CaughtUp : has[c] = world

(* No snapshot waits for a drain that is not running                       *)
(* (prop_snapshot.cpp:6-7).                                                *)
QueueIsServed == snap.target = NoSlot => snap.pending = <<>>

(* A slot that no one holds and that a tick has seen down shows no puppet, *)
(* no Player mirror and no prop mirror of the last client                  *)
(* (net_pump.cpp:369-391, session_status.cpp:253-256).                     *)
NoGhosts ==
    TickIdle /\ NetIdle => \A s \in ClientSlots :
        ~ SlotConnected(s) /\ ~ wasReady[s] =>
            identity[s] = Nobody /\ puppet[s] = Nobody /\ mirrors[s] = {}

(* The Join latch of a slot is about the client that holds it: a reconnect *)
(* does not skip the re-announce (player_handshake.cpp:25-27).             *)
JoinLatchIsOccupants ==
    TickIdle => \A s \in ClientSlots :
        SlotConnected(s) => joinSent[s] \in {Nobody, peerConns[s]}

(* A slot that is being drained to, or queued, does not stay so.           *)
SnapshotsEnd ==
    \A s \in ClientSlots :
        (snap.target = s \/ s \in ToSet(snap.pending)) ~>
            (snap.target # s /\ s \notin ToSet(snap.pending))
=============================================================================
