------------------------------ MODULE PropSync ------------------------------
(***************************************************************************)
(* The props that all players share (coop/prop_lifecycle.cpp,              *)
(* remote_prop_spawn.cpp, remote_prop.cpp's OnDestroy, event_feed.cpp).    *)
(*                                                                         *)
(* Every process has a world of its own.  When the engine makes or         *)
(* destroys a prop there, an observer tells the others; when such a        *)
(* message is handled the engine does the same, and the observer must keep *)
(* quiet.  The host passes on what a client sends.  A player who picks a   *)
(* prop up has it destroyed and keeps it in the inventory; dropped, it is  *)
(* made again, with its old key.                                           *)
(*                                                                         *)
(* A prop is its key, and of an element id only the range is kept.         *)
(***************************************************************************)
EXTENDS Naturals, SequencesExt

CONSTANTS
    SyncClients,    \* slots 1 .. 3
    Keys,
    Seeded,         \* the props of the save, which every process has found
    Litter,         \* what is no Aprop_C: chip piles, clumps, trash bits
    TempKey,        \* that the game gives a prop until its own is restored
    MaxWire,        \* bound: messages in a channel
    OwnedOnly,      \* environment: players leave alone what has no id with them
    DropsBeforeJoin \* environment: clients drop or make props and leave messages in
                    \* flight while another one joins

ASSUME PropSyncAssumption ==
    /\ SyncClients \subseteq Nat \ {0} /\ Seeded \subseteq Keys
    /\ Litter \subseteq Keys /\ TempKey \notin Keys
    /\ IsFiniteSet(Seeded) /\ MaxWire \in Nat
    /\ OwnedOnly \in BOOLEAN /\ DropsBeforeJoin \in BOOLEAN

VARIABLES
    joined,
    world,          \* the living props of a process
    own,            \* those that have a local element there
    mirrored,       \* and those that a wire mirror is bound to: its id's range
    fresh,          \* keys that nobody's game has used yet
    inventory,
    up, down,       \* the lanes from and to a client
    inbox           \* the host's

syncVars == <<joined, world, own, mirrored, fresh, inventory, up, down, inbox>>

Host == 0
Peers == {Host} \cup SyncClients
NoId == "none"
RangeOf(p) == IF p = Host THEN "host" ELSE "peer"

SyncInit ==
    /\ joined = {}
    /\ world = [p \in Peers |-> IF p = Host THEN Seeded ELSE {}]
    /\ own = [p \in Peers |-> IF p = Host THEN Seeded ELSE {}]
    /\ mirrored = [p \in Peers |-> [k \in Keys \cup {TempKey} |-> NoId]]
    /\ fresh = Keys \ Seeded
    /\ inventory = [p \in Peers |-> {}]
    /\ up = [c \in SyncClients |-> <<>>]
    /\ down = [c \in SyncClients |-> <<>>]
    /\ inbox = <<>>

-----------------------------------------------------------------------------
(* The wire.                                                               *)

(* Mutant: destroys on the lane of the small messages.                     *)
LaneByWeight(m) == IF m.kind = "spawn" THEN "bulk" ELSE "normal"

(* LaneForKind: a lane keeps its order. *)
LaneForKind(m) == "bulk"

(* The messages of a channel that may arrive next. *)
FirstOfLane(channel) ==
    {i \in 1 .. Len(channel) :
        \A j \in 1 .. i - 1 : LaneForKind(channel[j]) # LaneForKind(channel[i])}

Message(kind, k, id, from) == [kind |-> kind, key |-> k, id |-> id, from |-> from]

(* SendReliable: the host's go to every client, a client's to the host. *)
Broadcast(p, messages) ==
    IF p = Host
    THEN /\ \A c \in joined : Len(down[c]) + Len(messages) <= MaxWire
         /\ down' = [c \in SyncClients |-> IF c \in joined THEN down[c] \o messages ELSE down[c]]
         /\ UNCHANGED up
    ELSE /\ Len(up[p]) + Len(messages) <= MaxWire
         /\ up' = [up EXCEPT ![p] = @ \o messages]
         /\ UNCHANGED down

InFlight ==
    UNION ({ToSet(up[c]) \cup ToSet(down[c]) : c \in SyncClients} \cup {ToSet(inbox)})

-----------------------------------------------------------------------------
(* The observers: what they send.                                          *)

(* Mutant: the observer does not know that it runs inside takeObj.         *)
InitSendsAlways(p, k, incoming, inTakeObj) ==
    IF incoming \/ (p # Host /\ k \notin Litter) THEN <<>>
    ELSE <<Message("spawn", k, RangeOf(p), p)>>

(* Init: nothing for a prop that came from the wire, nor inside takeObj,   *)
(* nor on a client, unless it is litter. *)
InitSends(p, k, incoming, inTakeObj) ==
    IF incoming \/ inTakeObj \/ (p # Host /\ k \notin Litter) THEN <<>>
    ELSE <<Message("spawn", k, RangeOf(p), p)>>

(* K2_DestroyActor: nothing for a destruction that came from the wire.     *)
DestroySends(p, k, incoming) ==
    IF incoming THEN <<>>
    ELSE <<Message("destroy", k, IF k \in own[p] THEN RangeOf(p) ELSE NoId, p)>>

-----------------------------------------------------------------------------
(* What players and games do.                                              *)

(* Nobody else's news of k are under way: two players who reach for one    *)
(* prop at a time are beyond what the protocol settles. *)
Undisputed(p, k) == \A m \in InFlight : m.key = k => m.from = p

(* The host's game makes a prop, or a client's, by what its player does,   *)
(* some litter. *)
Spawn(p, k) ==
    /\ k \in fresh
    /\ p # Host => /\ p \in joined /\ k \in Litter
                   /\ ~ DropsBeforeJoin => joined = SyncClients
    /\ fresh' = fresh \ {k}
    /\ world' = [world EXCEPT ![p] = @ \cup {k}]
    /\ own' = [own EXCEPT ![p] = @ \cup {k}]
    /\ Broadcast(p, InitSends(p, k, FALSE, FALSE))
    /\ UNCHANGED <<joined, mirrored, inventory, inbox>>

PickUp(p, k) ==
    /\ p \in joined \cup {Host} /\ k \in world[p] /\ Undisputed(p, k)
    /\ OwnedOnly => k \in own[p]
    /\ world' = [world EXCEPT ![p] = @ \ {k}]
    /\ own' = [own EXCEPT ![p] = @ \ {k}]
    /\ mirrored' = [mirrored EXCEPT ![p][k] = NoId]
    /\ inventory' = [inventory EXCEPT ![p] = @ \cup {k}]
    /\ Broadcast(p, DestroySends(p, k, FALSE))
    /\ UNCHANGED <<joined, fresh, inbox>>

(* takeObj: a prop is made, and its key restored; then the others are told.*)
TakeObj(p, k) ==
    /\ k \in inventory[p] /\ Undisputed(p, k)
    /\ p # Host /\ ~ DropsBeforeJoin => joined = SyncClients
    /\ inventory' = [inventory EXCEPT ![p] = @ \ {k}]
    /\ world' = [world EXCEPT ![p] = @ \cup {k}]
    /\ own' = [own EXCEPT ![p] = @ \cup {k}]
    /\ Broadcast(p, Append(InitSends(p, TempKey, FALSE, TRUE),
                           Message("spawn", k, RangeOf(p), p)))
    /\ UNCHANGED <<joined, mirrored, fresh, inbox>>

(* A client joins, with some of what the save and the host's world share,  *)
(* and is sent the host's elements, mirrors included, that have an actor.  *)
Join(c) ==
    /\ c \notin joined
    /\ DropsBeforeJoin \/ \A m \in InFlight : m.from = Host
    /\ joined' = joined \cup {c}
    /\ \E found \in SUBSET (Seeded \cap world[Host]) :
          /\ world' = [world EXCEPT ![c] = found]
          /\ own' = [own EXCEPT ![c] = found]
    /\ LET told == {k \in world[Host] : k \in own[Host] \/ mirrored[Host][k] # NoId}
           id(k) == IF k \in own[Host] THEN RangeOf(Host) ELSE mirrored[Host][k]
           keys == SetToSeq(told) IN
       down' = [down EXCEPT ![c] =
                  [i \in 1 .. Len(keys) |-> Message("spawn", keys[i], id(keys[i]), Host)]]
    /\ UNCHANGED <<mirrored, fresh, inventory, up, inbox>>

-----------------------------------------------------------------------------
(* Receiving.                                                              *)

(* IsAllowedSenderEid, on the slot that a message is stamped with. *)
Allowed(m) == m.id = RangeOf(m.from)

(* OnSpawn: of a prop that is there only the mirror is new; else it is     *)
(* made, and its Init observed as one from the wire. *)
Spawned(p, m) ==
    /\ world' = [world EXCEPT ![p] = @ \cup {m.key}]
    /\ mirrored' = [mirrored EXCEPT ![p][m.key] = m.id]
    /\ UNCHANGED own

(* OnDestroy, of a prop that is there. *)
Destroyed(p, m) ==
    /\ world' = [world EXCEPT ![p] = @ \ {m.key}]
    /\ own' = [own EXCEPT ![p] = @ \ {m.key}]
    /\ mirrored' = [mirrored EXCEPT ![p][m.key] = NoId]

Handle(p, m) ==
    CASE Allowed(m) /\ m.kind = "spawn" -> Spawned(p, m)
      [] Allowed(m) /\ m.kind = "destroy" /\ m.key \in world[p] -> Destroyed(p, m)
      [] OTHER -> UNCHANGED <<world, own, mirrored>>

(* What the observers, set off by that, have to say of it. *)
Echo(p, m) ==
    CASE Allowed(m) /\ m.kind = "spawn" /\ m.key \notin world[p] ->
            InitSends(p, m.key, TRUE, FALSE)
      [] Allowed(m) /\ m.kind = "destroy" /\ m.key \in world[p] ->
            DestroySends(p, m.key, TRUE)
      [] OTHER -> <<>>

(* Mutant: destroys stay with the host.                                    *)
RelaySpawns(m) == m.kind = "spawn"

(* IsClientRelayableReliableKind. *)
Relayable(m) == m.kind \in {"spawn", "destroy"}

(* The host's net thread: on to the other clients, and to the inbox. *)
HostReceives(c) ==
    /\ Len(inbox) < MaxWire
    /\ \E i \in FirstOfLane(up[c]) :
          LET m == up[c][i]
              others == IF Relayable(m) THEN joined \ {c} ELSE {} IN
          /\ \A d \in others : Len(down[d]) < MaxWire
          /\ up' = [up EXCEPT ![c] = RemoveAt(@, i)]
          /\ down' = [d \in SyncClients |-> IF d \in others THEN Append(down[d], m) ELSE down[d]]
          /\ inbox' = Append(inbox, m)
    /\ UNCHANGED <<joined, world, own, mirrored, fresh, inventory>>

HostHandles ==
    /\ inbox # <<>>
    /\ inbox' = Tail(inbox)
    /\ Handle(Host, Head(inbox)) /\ Broadcast(Host, Echo(Host, Head(inbox)))
    /\ UNCHANGED <<joined, fresh, inventory>>

(* A client receives and handles. *)
ClientHandles(c) ==
    /\ \E i \in FirstOfLane(down[c]) :
          LET m == down[c][i] IN
          /\ down' = [down EXCEPT ![c] = RemoveAt(@, i)]
          /\ Handle(c, m)
          /\ up' = [up EXCEPT ![c] = @ \o Echo(c, m)]
    /\ UNCHANGED <<joined, fresh, inventory, inbox>>

-----------------------------------------------------------------------------
SyncNext ==
    \/ \E p \in Peers, k \in Keys : Spawn(p, k) \/ PickUp(p, k) \/ TakeObj(p, k)
    \/ \E c \in SyncClients : Join(c) \/ HostReceives(c) \/ ClientHandles(c)
    \/ HostHandles

SyncSpec == SyncInit /\ [][SyncNext]_syncVars

-----------------------------------------------------------------------------
SyncTypeOK ==
    /\ joined \subseteq SyncClients /\ fresh \subseteq Keys
    /\ \A p \in Peers :
          /\ world[p] \subseteq Keys \cup {TempKey} /\ own[p] \subseteq world[p]
          /\ inventory[p] \subseteq Keys
          /\ mirrored[p] \in [Keys \cup {TempKey} -> {NoId, "host", "peer"}]
    /\ InFlight \subseteq
         [kind : {"spawn", "destroy"}, key : Keys \cup {TempKey},
          id : {NoId, "host", "peer"}, from : Peers]

(* When every message has been handled the worlds of all who have joined   *)
(* hold the same props (prop_snapshot.h:3-8, session_lanes.h:37-41).       *)
SyncedAgree ==
    InFlight = {} => \A c \in joined : world[c] = world[Host]

(* And a prop is in the world or in one player's inventory, and not in     *)
(* two of these places (prop_lifecycle.cpp:336-340). *)
PropsAreOnce ==
    InFlight = {} =>
        \A k \in Keys \ fresh :
            \/ k \in world[Host] /\ \A p \in Peers : k \notin inventory[p]
            \/ k \notin world[Host] /\ \E p \in Peers : inventory[p] \cap {k} # {}
                  /\ \A q \in Peers \ {p} : k \notin inventory[q]
=============================================================================
