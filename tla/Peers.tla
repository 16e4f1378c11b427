------------------------------- MODULE Peers -------------------------------
(***************************************************************************)
(* Who is who: the handshake seen from every process                       *)
(* (coop/player_handshake.cpp, coop/players_registry.cpp, the slot         *)
(* assignment of coop/net/session_status.cpp, the puppets' identities in   *)
(* coop/net_pump.cpp and the ids of coop/element/registry.cpp).            *)
(*                                                                         *)
(* Process 0 is the host, process c the client that holds slot c.  Each    *)
(* has a Player element per slot, under an id it has minted for want of a  *)
(* better one, or as a mirror under the id that the slot's own process     *)
(* uses.  A mirror is established by AssignPeerSlot, Join or PlayerJoined, *)
(* and a puppet by the first pose, in any order.  A client mints ids in    *)
(* the pre-slot band, for its seeded props too, until it is assigned its   *)
(* slot and gets that slot's band.                                         *)
(***************************************************************************)
EXTENDS IdRanges, Filter

CONSTANTS
    RawNicks,       \* environment: what players call themselves, as sequences
    MaxNickLen,     \* kMaxNickLen, 20 in the build
    MaxArrivals,    \* bound: the client processes of a run
    MaxDrops,       \* bound: the props that a client process drops
    Seeds,          \* environment: the props that a client seeds before the session
    EarlyDrops      \* environment: a player may drop a prop before it has its slot

(* Characters: "a" stands for those that may be shown anywhere, "other" for *)
(* those that are stripped.                                                *)
Blank == "blank"
Dash == "dash"
Shown == {"a", Dash}
Characters == Shown \cup {Blank, "other"}

ASSUME PeersAssumption ==
    /\ RawNicks # {} /\ RawNicks \subseteq Seq(Characters) /\ MaxNickLen \in Nat \ {0}
    /\ MaxArrivals \in Nat /\ MaxDrops \in Nat
    /\ Seeds \in Nat /\ Seeds =< SlotBandSize
    /\ EarlyDrops \in BOOLEAN

Processes == PeerSlotIds
Unknown == -1                   \* kPeerIdUnknown
NoEid == 0
NoElement == [eid |-> NoEid, mirror |-> FALSE, puppet |-> FALSE]
NoPuppet == <<"NoPuppet">>
RemotePlayer == <<"RemotePlayer">>     \* the placeholders of the nickname cache
NoNick == <<>>

VARIABLES
    up,             \* the slots of the clients that are connected
    greeted,        \* those that AssignPeerSlot has been sent to
    seen,           \* those whose coming, and not yet going, the host's tick saw
    reg,            \* the registries of each process, see Fresh
    nick,           \* g_remoteNickBySlot of each process
    label,          \* the nickname that a process shows above each slot's puppet
    localNick,      \* g_localNick of each process
    joinSent,       \* g_joinSentBySlot of each process
    inbox,          \* the reliable messages under way to each process, in order
    wire,           \* the live ids that each client has minted and broadcast
    arrivals, drops

peersVars == <<up, greeted, seen, reg, nick, label, localNick, joinSent, inbox,
               wire, arrivals, drops>>

-----------------------------------------------------------------------------
(* The registries of one process. *)

Occupied(r) == ({r.el[s].eid : s \in PeerSlotIds} \ {NoEid}) \cup r.props

(* AllocHostId, AllocLocalId: an id that is taken is popped all the same.   *)
Popped(r) == [r EXCEPT !.free = Front(@)]
CanAlloc(r) == r.free # <<>> /\ Last(r.free) \notin Occupied(r)

OwnEid(r) == IF r.me = Unknown THEN NoEid ELSE r.el[r.me].eid

DropPlayerElement(r, s) ==
    [r EXCEPT !.el[s] = NoElement,
              !.free = IF r.el[s].eid = NoEid \/ r.el[s].mirror THEN @
                       ELSE Append(@, r.el[s].eid)]

AllocPlayerElement(r, s, puppet) ==
    IF r.free = <<>> THEN r
    ELSE IF ~ CanAlloc(r) THEN Popped(r)
    ELSE [Popped(r) EXCEPT !.el[s] =
            [eid |-> Last(r.free), mirror |-> FALSE, puppet |-> puppet]]

(* Mutant: a mirror is replaced when the puppet turns up.                  *)
EnsureReplacing(r, s, puppet) ==
    IF r.el[s] # NoElement /\ r.el[s].puppet = puppet THEN r
    ELSE AllocPlayerElement(DropPlayerElement(r, s), s, puppet)

EnsurePlayerElement(r, s, puppet) ==
    IF r.el[s] # NoElement /\ r.el[s].puppet = puppet THEN r
    ELSE IF r.el[s].mirror THEN [r EXCEPT !.el[s].puppet = puppet]
    ELSE AllocPlayerElement(DropPlayerElement(r, s), s, puppet)

(* SetLocalPeerBand. *)
TakePeerBand(r, id) ==
    [r EXCEPT !.free = DescendingStack(BandBase(id), BandEnd(id))]

(* Mutant: the own element is minted before the band is switched.          *)
SetLocalPeerIdLate(r, id) ==
    IF r.me = id /\ r.el[id] # NoElement THEN r
    ELSE LET made == EnsurePlayerElement([r EXCEPT !.me = id], id, FALSE) IN
         IF id = HostSlot THEN made ELSE TakePeerBand(made, id)

SetLocalPeerId(r, id) ==
    IF r.me = id /\ r.el[id] # NoElement THEN r
    ELSE LET known == [(IF r.me \in {Unknown, id} THEN r ELSE DropPlayerElement(r, r.me))
                          EXCEPT !.me = id]
         IN EnsurePlayerElement(
              IF id = HostSlot \/ r.me = id THEN known ELSE TakePeerBand(known, id),
              id, FALSE)

EstablishMirrorForSlot(r, s, eid) ==
    LET free == DropPlayerElement(r, s) IN
    IF r.el[s].mirror /\ r.el[s].eid = eid THEN r
    ELSE IF eid \in Occupied(free) THEN free       \* RegisterMirror refuses
    ELSE [free EXCEPT !.el[s] = [eid |-> eid, mirror |-> TRUE, puppet |-> r.el[s].puppet]]

(* A process starts; a client has seeded its props by the time it connects. *)
Fresh(p) ==
    LET stack == IF p = HostSlot THEN DescendingStack(1, HostRangeSize)
                 ELSE DescendingStack(BandBase(0), BandEnd(0))
        seeded == IF p = HostSlot THEN 0 ELSE Seeds
    IN [me |-> Unknown,
        free |-> SubSeq(stack, 1, Len(stack) - seeded),
        el |-> [s \in PeerSlotIds |-> NoElement],
        props |-> {stack[i] : i \in Len(stack) - seeded + 1 .. Len(stack)}]

(* A prop takes the next free id, and gives it back.                        *)
MintProp(r) == [Popped(r) EXCEPT !.props = @ \cup {Last(r.free)}]
FreeProp(r, id) == [r EXCEPT !.props = @ \ {id}, !.free = Append(@, id)]

-----------------------------------------------------------------------------
(* Nicknames. *)

(* The loop over the characters of SanitizeNickname: what may be shown, and *)
(* one space between such characters, until the name is full.              *)
Stripped(raw) ==
    LET stays == {i \in DOMAIN raw :
            \/ raw[i] \in Shown
            \/ raw[i] = Blank /\ \E j \in 1 .. i - 1 :
                  raw[j] \in Shown /\ \A k \in j + 1 .. i - 1 : raw[k] \notin Shown \cup {Blank}}
    IN  Kept(raw, {i \in stays : RankIn(stays, i) =< MaxNickLen})

TrimRight(n) == SubSeq(n, 1, Max({0} \cup {i \in DOMAIN n : n[i] \notin {Blank, Dash}}))
TrimLeft(n) == SubSeq(n, Min({Len(n) + 1} \cup {i \in DOMAIN n : n[i] # Dash}), Len(n))
OrPlayer(n) == IF n = <<>> THEN <<"a">> ELSE n

(* Mutant: trimmed first, cut to length afterwards.                        *)
SanitizeThenCut(raw) ==
    OrPlayer(Stripped(TrimLeft(TrimRight(raw))))

SanitizeNickname(raw) == OrPlayer(TrimLeft(TrimRight(Stripped(raw))))

-----------------------------------------------------------------------------
(* The session: what is sent to a process arrives in order, or not at all. *)

Assign(s, eid) == [kind |-> "AssignPeerSlot", from |-> HostSlot, slot |-> s,
                   eid |-> eid, nick |-> NoNick]
Join(p) == [kind |-> "Join", from |-> p, slot |-> p,
            eid |-> OwnEid(reg[p]), nick |-> localNick[p]]
PlayerJoined(s, eid, n) == [kind |-> "PlayerJoined", from |-> HostSlot, slot |-> s,
                            eid |-> eid, nick |-> n]

(* GNS completes a connection and the Connected callback configures the    *)
(* lanes: the slot is ready.  The host's tick has seen the last one go.    *)
Arrive(c) ==
    /\ c \notin up \cup seen /\ arrivals < MaxArrivals
    /\ up' = up \cup {c} /\ seen' = seen \cup {c} /\ arrivals' = arrivals + 1
    /\ reg' = [reg EXCEPT ![c] = Fresh(c)]
    /\ \E raw \in RawNicks : localNick' = [localNick EXCEPT ![c] = SanitizeNickname(raw)]
    /\ UNCHANGED <<greeted, nick, label, joinSent, inbox, wire, drops>>

(* The rest of the Connected callback: AssignPeerSlot, with the host's own *)
(* element if the game thread has published one.                           *)
Greet(c) ==
    /\ c \in up \ greeted
    /\ greeted' = greeted \cup {c}
    /\ inbox' = [inbox EXCEPT ![c] = Append(@, Assign(c, OwnEid(reg[HostSlot])))]
    /\ UNCHANGED <<up, seen, reg, nick, label, localNick, joinSent, wire, arrivals, drops>>

(* A client's process ends.  The Closed callback purges what it has sent   *)
(* and the host has not handled; nobody tells the other clients.           *)
Leave(c) ==
    /\ c \in up
    /\ up' = up \ {c} /\ greeted' = greeted \ {c}
    /\ reg' = [reg EXCEPT ![c] = Fresh(c)]
    /\ nick' = [nick EXCEPT ![c] = [s \in PeerSlotIds |-> RemotePlayer]]
    /\ label' = [label EXCEPT ![c] = [s \in PeerSlotIds |-> NoPuppet]]
    /\ joinSent' = [joinSent EXCEPT ![c] = {}]
    /\ inbox' = [inbox EXCEPT ![c] = <<>>,
                              ![HostSlot] = Kept(@, {i \in DOMAIN @ : @[i].from # c})]
    /\ wire' = [wire EXCEPT ![c] = {}]
    /\ drops' = [drops EXCEPT ![c] = 0]
    /\ UNCHANGED <<seen, localNick, arrivals>>

(* The disconnect edge of net_pump::Tick and of event_feed::Update.         *)
SeesLeft(c) ==
    /\ c \in seen \ up
    /\ seen' = seen \ {c}
    /\ reg' = [reg EXCEPT ![HostSlot] = DropPlayerElement(@, c)]
    /\ label' = [label EXCEPT ![HostSlot][c] = NoPuppet]
    /\ nick' = [nick EXCEPT ![HostSlot][c] = NoNick]
    /\ joinSent' = [joinSent EXCEPT ![HostSlot] = @ \ {c}]
    /\ UNCHANGED <<up, greeted, localNick, inbox, wire, arrivals, drops>>

-----------------------------------------------------------------------------
(* The game thread's tick of process p.                                    *)

Running(p) == p \in up \/ (p = HostSlot /\ reg[p].me = HostSlot)

(* The host's first tick assigns it slot 0; later ones find it assigned.    *)
HostStarts ==
    /\ reg[HostSlot].me = Unknown
    /\ reg' = [reg EXCEPT ![HostSlot] = SetLocalPeerId(@, HostSlot)]
    /\ UNCHANGED <<up, greeted, seen, nick, label, localNick, joinSent, inbox, wire,
                   arrivals, drops>>

(* The first pose of slot s, sent by a client to the host, by the host, or  *)
(* passed on by the host: net_pump spawns a puppet and RegisterPuppet.      *)
SpawnPuppet(p, s) ==
    /\ Running(p) /\ s # reg[p].me /\ (s \in up \/ s = HostSlot) /\ p # s
    /\ label[p][s] = NoPuppet
    /\ reg' = [reg EXCEPT ![p] = EnsurePlayerElement(@, s, TRUE)]
    /\ label' = [label EXCEPT ![p][s] = nick[p][s]]
    /\ UNCHANGED <<up, greeted, seen, nick, localNick, joinSent, inbox, wire, arrivals, drops>>

MaybeSendJoinToSlot(p, s) ==
    /\ Running(p) /\ s \notin joinSent[p]
    /\ s \in (IF p = HostSlot THEN up ELSE {HostSlot})
    /\ OwnEid(reg[p]) # NoEid
    /\ joinSent' = [joinSent EXCEPT ![p] = @ \cup {s}]
    /\ inbox' = [inbox EXCEPT ![s] = Append(@, Join(p))]
    /\ UNCHANGED <<up, greeted, seen, reg, nick, label, localNick, wire, arrivals, drops>>

(* The mirror and the nickname of HandleJoinMessage and HandlePlayerJoined. *)
Identify(p, s, eid, n) ==
    /\ reg' = [reg EXCEPT ![p] =
                 IF IsAllowedSenderEid(s = HostSlot, eid)
                 THEN EstablishMirrorForSlot(@, s, eid) ELSE @]
    /\ nick' = [nick EXCEPT ![p][s] = SanitizeNickname(n)]
    /\ label' = [label EXCEPT ![p][s] = IF @ = NoPuppet THEN @ ELSE SanitizeNickname(n)]

(* Mutant: the joiner is told only what the host has a puppet of.          *)
IntroductionsOfPuppets(s, eid, n) ==
    [x \in Processes |->
        IF x \in up \ {s} THEN <<PlayerJoined(s, eid, n)>>
        ELSE IF x = s
        THEN SetToSeq({PlayerJoined(y, reg[HostSlot].el[y].eid, nick[HostSlot][y]) :
                          y \in {z \in up \ {s} : reg[HostSlot].el[z].puppet}})
        ELSE <<>>]

(* BroadcastPlayerJoinedFromHost: what each process is sent.                *)
Introductions(s, eid, n) ==
    [x \in Processes |->
        IF x \in up \ {s} THEN <<PlayerJoined(s, eid, n)>>
        ELSE IF x = s
        THEN SetToSeq({PlayerJoined(y, reg[HostSlot].el[y].eid, nick[HostSlot][y]) :
                          y \in {z \in up \ {s} : reg[HostSlot].el[z].mirror}})
        ELSE <<>>]

HandleJoin(p, m) ==
    /\ Identify(p, m.from, m.eid, m.nick)
    /\ LET intro == IF p = HostSlot THEN Introductions(m.from, m.eid, SanitizeNickname(m.nick))
                    ELSE [x \in Processes |-> <<>>]
       IN inbox' = [x \in Processes |->
                      (IF x = p THEN Tail(inbox[x]) ELSE inbox[x]) \o intro[x]]

HandlePlayerJoined(p, m) ==
    /\ inbox' = [inbox EXCEPT ![p] = Tail(@)]
    /\ IF m.slot # reg[p].me /\ IsAllowedPeerAllocatedEid(m.eid)
       THEN Identify(p, m.slot, m.eid, m.nick)
       ELSE UNCHANGED <<reg, nick, label>>

HandleAssignPeerSlot(p, m) ==
    LET known == SetLocalPeerId(reg[p], m.slot) IN
    /\ inbox' = [inbox EXCEPT ![p] = Tail(@)]
    /\ reg' = [reg EXCEPT ![p] =
                 IF IsAllowedHostAllocatedEid(m.eid)
                 THEN EstablishMirrorForSlot(known, HostSlot, m.eid) ELSE known]
    /\ UNCHANGED <<nick, label>>

(* TryGetReliable and the handler of the message that it returns. *)
HandleReliable(p) ==
    /\ Running(p) /\ inbox[p] # <<>>
    /\ LET m == Head(inbox[p]) IN
       \/ m.kind = "Join" /\ HandleJoin(p, m)
       \/ m.kind = "PlayerJoined" /\ HandlePlayerJoined(p, m)
       \/ m.kind = "AssignPeerSlot" /\ HandleAssignPeerSlot(p, m)
    /\ UNCHANGED <<up, greeted, seen, localNick, joinSent, wire, arrivals, drops>>

-----------------------------------------------------------------------------
(* Props of a client: one that it drops is minted and broadcast, one that  *)
(* is destroyed gives its id back.                                         *)

DropProp(c) ==
    /\ c \in up /\ drops[c] < MaxDrops /\ CanAlloc(reg[c])
    /\ EarlyDrops \/ reg[c].me = c
    /\ reg' = [reg EXCEPT ![c] = MintProp(@)]
    /\ wire' = [wire EXCEPT ![c] = @ \cup {Last(reg[c].free)}]
    /\ drops' = [drops EXCEPT ![c] = @ + 1]
    /\ UNCHANGED <<up, greeted, seen, nick, label, localNick, joinSent, inbox, arrivals>>

PropDies(c, id) ==
    /\ c \in up /\ id \in reg[c].props
    /\ reg' = [reg EXCEPT ![c] = FreeProp(@, id)]
    /\ wire' = [wire EXCEPT ![c] = @ \ {id}]
    /\ UNCHANGED <<up, greeted, seen, nick, label, localNick, joinSent, inbox, arrivals, drops>>

-----------------------------------------------------------------------------
PeersInit ==
    /\ up = {} /\ greeted = {} /\ seen = {}
    /\ reg = [p \in Processes |-> Fresh(p)]
    /\ nick = [p \in Processes |-> [s \in PeerSlotIds |-> RemotePlayer]]
    /\ label = [p \in Processes |-> [s \in PeerSlotIds |-> NoPuppet]]
    /\ localNick = [p \in Processes |-> <<"a">>]
    /\ joinSent = [p \in Processes |-> {}]
    /\ inbox = [p \in Processes |-> <<>>]
    /\ wire = [p \in Processes |-> {}]
    /\ arrivals = 0 /\ drops = [p \in Processes |-> 0]

PeersNext ==
    \/ HostStarts
    \/ \E c \in ClientSlotIds :
          Arrive(c) \/ Greet(c) \/ Leave(c) \/ SeesLeft(c) \/ DropProp(c)
    \/ \E c \in ClientSlotIds : \E id \in reg[c].props : PropDies(c, id)
    \/ \E p \in Processes :
          HandleReliable(p)
          \/ \E s \in PeerSlotIds : SpawnPuppet(p, s) \/ MaybeSendJoinToSlot(p, s)

PeersSpec == PeersInit /\ [][PeersNext]_peersVars

PeersTypeOK ==
    /\ greeted \subseteq up /\ up \subseteq seen \cup up /\ seen \subseteq ClientSlotIds
    /\ \A p \in Processes :
         /\ reg[p].me \in {Unknown, p}
         /\ reg[p].free \in Seq(Ids) /\ reg[p].props \subseteq Ids
         /\ \A s \in PeerSlotIds : reg[p].el[s].eid \in Ids
    /\ \A p \in Processes : joinSent[p] \subseteq PeerSlotIds /\ wire[p] \subseteq Ids

-----------------------------------------------------------------------------
Present == up \cup {HostSlot}

(* No process runs out of ids, whatever it mints.                           *)
EnoughIds ==
    Seeds + MaxDrops + PeerBandCount =< SlotBandSize /\ PeerBandCount < HostRangeSize

(* Nothing is under way and every Join has been sent.                       *)
Quiet ==
    /\ greeted = up /\ seen = up
    /\ joinSent[HostSlot] = up
    /\ \A c \in up : joinSent[c] = {HostSlot}
    /\ \A p \in Present : inbox[p] = <<>>

(* Once all messages are handled, every process has each other player's    *)
(* element under the id that player's own process uses, bound to the       *)
(* puppet if there is one, and a name above the puppet: in whatever order   *)
(* slot assignment, Joins, introductions and first poses came, and also     *)
(* when the slot had another holder before (player_handshake.cpp, A4), as   *)
(* long as nobody runs out of ids.                                         *)
Acquainted ==
    Quiet => \A p \in Present : \A s \in Present \ {p} :
        /\ reg[p].el[s] = [eid |-> OwnEid(reg[s]), mirror |-> TRUE,
                           puppet |-> label[p][s] # NoPuppet]
        /\ nick[p][s] \notin {RemotePlayer, NoNick}
        /\ label[p][s] \in {NoPuppet, nick[p][s]}

(* An id names one player only: what a process mints for its own player    *)
(* element no other process uses for a player, its own or a mirror, even    *)
(* after ids of the pre-slot band have come back to the free stack.         *)
OneIdOnePlayer ==
    \A p, q \in Present : \A s, t \in PeerSlotIds :
        /\ s # t
        /\ reg[p].el[s].mirror \/ s = p
        /\ reg[q].el[t].mirror \/ t = q
        => reg[p].el[s].eid # reg[q].el[t].eid \/ reg[p].el[s].eid = NoEid

(* What a nameplate shows fits the limit and neither begins nor ends with a *)
(* dash, nor ends with a space, whatever a player calls itself.             *)
LabelsDisplayable ==
    \A p \in Processes : \A s \in PeerSlotIds :
        label[p][s] \notin {NoPuppet, RemotePlayer, NoNick} =>
            /\ Len(label[p][s]) \in 1 .. MaxNickLen
            /\ Head(label[p][s]) # Dash /\ Last(label[p][s]) \notin {Dash, Blank}

(* Two client processes never mint the same id, or one under which the     *)
(* other has an element of its own (registry.h, AllocLocalId).              *)
NoIdMintedTwice ==
    \A c, d \in up : c # d => wire[c] \cap wire[d] = {}

(* Everybody shows a player under the same name (SetLocalNickname: both     *)
(* ends agree on the displayable form).                                    *)
NamesAgree ==
    Quiet => \A p \in Present : \A s \in up \ {p} : nick[p][s] = localNick[s]

(* A client shows no puppet of a player that has left.                      *)
NoGhostPuppets ==
    \A c \in up : \A s \in ClientSlotIds : label[c][s] # NoPuppet => s \in up
=============================================================================
