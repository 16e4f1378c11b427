---------------------------- MODULE Flashlight -----------------------------
(***************************************************************************)
(* Item activation, which is the flashlight: item_activate.cpp and the     *)
(* ItemActivate handler of event_feed.cpp.                                 *)
(*                                                                         *)
(* Every player announces a change of the own lamp; every other one shows  *)
(* it on the puppet of the player's slot, or stashes it until there is a   *)
(* puppet.  The host keeps the last lamp of each client and replays the    *)
(* lit ones to a client that has come later; meanwhile its net thread      *)
(* passes every announcement on to the other clients, before the game      *)
(* thread has seen it.                                                     *)
(*                                                                         *)
(* A player is its slot, 0 the host.  A client is a process; its slot is   *)
(* taken again only after the host's tick has seen it free.                *)
(***************************************************************************)
EXTENDS Filter

CONSTANTS
    LampClients,    \* the slots clients take, 1 and up
    Beams,          \* the ways a lamp can be lit: mode, intensity and cones
    Dark,           \* the lamp is off
    NoLamp,         \* no stash, no cache, nothing sent yet (kNoSendYet)
    LampUsers,      \* the players who touch their lamp; a puppet is looked at
                    \* only if it is one of theirs
    MaxLampWire     \* bound: announcements on one stretch of their way

ASSUME FlashlightAssumption ==
    /\ IsFiniteSet(LampClients) /\ LampClients = 1 .. Cardinality(LampClients)
    /\ LampUsers \subseteq LampClients \cup {0}
    /\ Dark # NoLamp /\ {Dark, NoLamp} \cap Beams = {}
    /\ {"idle", "flipped"} \cap (Beams \cup {Dark}) = {}
    /\ MaxLampWire \in Nat

VARIABLES
    lamp,           \* lamp[p]: the lamp of p's own player
    lastSig,        \* g_lastSentSig
    debug,          \* DebugForceToggle on a worker thread of the host
    linked,         \* the clients with a connection (peerConns_)
    joined,         \* those whose slot is ready
    edges,          \* edges[p]: the slots p's tick knows ready
                    \* (g_wasConnectedBySlot)
    up, down,       \* up[c], down[c]: from client c to the host and back
    inbox,          \* the host's reliable inbox
    lampCache,      \* g_peerActivateCache, NoLamp unless g_peerActivateValid
    stash,          \* stash[v][p]: g_pendingApplyPayload of v, NoLamp if none
    puppet,         \* puppet[v][p]: the lamp of p's puppet, NoLamp without
    lampTold,       \* ghost: lampTold[v][p]: the last of p's lamps sent to v
    astray          \* ghost: astray[v][p]: the last thing v was told of p, or
                    \* not told, leaves it with another lamp than p has

peerVars == <<linked, joined, edges>>
pathVars == <<up, down, inbox>>
showVars == <<stash, puppet>>
ghostVars == <<lampTold, astray>>
lampVars == <<lamp, lastSig, debug, peerVars, pathVars, lampCache, showVars,
              ghostVars>>

LampPlayers == {0} \cup LampClients
Lights == Beams \cup {Dark}
LampMsgs == [from : LampPlayers, light : Lights]
ForEveryPair(x) == [v \in LampPlayers |-> [p \in LampPlayers |-> x]]

FlashlightInit ==
    /\ lamp = [p \in LampPlayers |-> Dark]
    /\ lastSig = [p \in LampPlayers |-> NoLamp]
    /\ debug = "idle"
    /\ linked = {} /\ joined = {}
    /\ edges = [p \in LampPlayers |-> {}]
    /\ up = [c \in LampClients |-> <<>>] /\ down = up
    /\ inbox = <<>>
    /\ lampCache = [c \in LampClients |-> NoLamp]
    /\ stash = ForEveryPair(NoLamp) /\ puppet = ForEveryPair(NoLamp)
    /\ lampTold = ForEveryPair(NoLamp) /\ astray = ForEveryPair(FALSE)

(* What a player shows who has been told, or not. *)
AsLight(x) == IF x = NoLamp THEN Dark ELSE x

(* The last of p's announcements in a sequence, or else. *)
LastOf(p, msgs, else) ==
    LET at == {i \in DOMAIN msgs : msgs[i].from = p}
    IN  IF at = {} THEN else
        ELSE msgs[CHOOSE i \in at : \A j \in at : j <= i].light

-----------------------------------------------------------------------------
(* A player and the own lamp. *)

(* The ghosts after the players vs have been told light of p. *)
Told(p, vs, light) ==
    /\ lampTold' = [v \in LampPlayers |->
          IF v \in vs THEN [lampTold[v] EXCEPT ![p] = light] ELSE lampTold[v]]
    /\ astray' = [v \in LampPlayers |->
          IF v \in vs THEN [astray[v] EXCEPT ![p] = light # lamp'[p]] ELSE astray[v]]

(* SendReliable. *)
SendLamp(p, light) ==
    LET msg == [from |-> p, light |-> light] IN
    /\ lastSig' = [lastSig EXCEPT ![p] = light]
    /\ IF p = 0
       THEN /\ \A c \in joined : Len(down[c]) < MaxLampWire
            /\ down' = [c \in LampClients |->
                  IF c \in joined THEN Append(down[c], msg) ELSE down[c]]
            /\ Told(0, joined, light)
            /\ UNCHANGED up
       ELSE /\ Len(up[p]) < MaxLampWire
            /\ up' = [up EXCEPT ![p] = Append(@, msg)]
            /\ Told(p, {0}, light)
            /\ UNCHANGED down

(* Nothing is sent. *)
KeepQuiet(p) ==
    /\ astray' = [v \in LampPlayers |->
          IF p = 0 /\ v \in joined /\ lastSig[0] = lamp'[0] /\ lampTold[v][0] # lamp'[0]
          THEN [astray[v] EXCEPT ![0] = TRUE] ELSE astray[v]]
    /\ UNCHANGED <<lastSig, up, down, lampTold>>

(* SignaturePayload finds what was sent last. *)
SameSig(p, light) == lastSig[p] = light

(* OnUpdateFlashlightPost, after the player has toggled the lamp or        *)
(* changed its mode. *)
Touch(p, light) ==
    /\ p \in {0} \cup joined
    /\ light # lamp[p] /\ lamp' = [lamp EXCEPT ![p] = light]
    /\ IF SameSig(p, light) \/ (p = 0 /\ joined = {})
       THEN KeepQuiet(p) ELSE SendLamp(p, light)
    /\ UNCHANGED <<debug, peerVars, inbox, lampCache, showVars>>

(* DebugForceToggle: its posted task, which no observer sees, and then, on *)
(* the worker thread, the payload and the announcement. *)
DebugFlips(light) ==
    /\ debug = "idle" /\ debug' = "flipped"
    /\ (light = Dark) # (lamp[0] = Dark)
    /\ lamp' = [lamp EXCEPT ![0] = light]
    /\ KeepQuiet(0)
    /\ UNCHANGED <<peerVars, inbox, lampCache, showVars>>

DebugReads ==
    /\ debug = "flipped"
    /\ debug' = IF joined = {} THEN "idle" ELSE lamp[0]
    /\ UNCHANGED <<lamp, lastSig, peerVars, pathVars, lampCache, showVars, ghostVars>>

DebugSends ==
    /\ debug \in Lights /\ debug' = "idle"
    /\ UNCHANGED lamp
    /\ IF joined = {} THEN UNCHANGED <<lastSig, up, down, ghostVars>>
       ELSE SendLamp(0, debug)
    /\ UNCHANGED <<peerVars, inbox, lampCache, showVars>>

-----------------------------------------------------------------------------
(* A lamp that is not one's own. *)

(* ApplyToPuppet: a puppet that is there takes the light. *)
Applied(had, light) == IF had = NoLamp \/ light = NoLamp THEN had ELSE light

(* Mutant: the stash stays when a later announcement is applied.           *)
StashKept(had, live, light) == IF live THEN had ELSE light

(* ApplyToPuppetOrDefer clears the stash when it applies. *)
StashAfter(had, live, light) == IF live THEN NoLamp ELSE light

(* TickConnect drains v's stashes onto the puppets there are. *)
Drained(v) ==
    /\ puppet' = [puppet EXCEPT ![v] = [p \in LampPlayers |->
          Applied(puppet[v][p], stash[v][p])]]
    /\ stash' = [stash EXCEPT ![v] = [p \in LampPlayers |->
          IF puppet[v][p] # NoLamp THEN NoLamp ELSE stash[v][p]]]

(* The first pose of p spawns a puppet, its lamp off. *)
PuppetAppears(v, p) ==
    /\ p \in LampUsers /\ v # p /\ {v, p} \subseteq {0} \cup joined
    /\ puppet[v][p] = NoLamp
    /\ puppet' = [puppet EXCEPT ![v][p] = Dark]
    /\ UNCHANGED <<lamp, lastSig, debug, peerVars, pathVars, lampCache, stash,
                   ghostVars>>

OnItsWay(v, p) ==
    LastOf(p, IF v = 0 THEN inbox \o up[p] ELSE down[v], NoLamp) # NoLamp

(* v's level changes, and the puppets are gone with it. *)
LevelChanges(v) ==
    /\ v \in {0} \cup joined
    /\ \E p \in LampPlayers : puppet[v][p] # NoLamp
    /\ puppet' = [puppet EXCEPT ![v] = [p \in LampPlayers |-> NoLamp]]
    /\ astray' = [astray EXCEPT ![v] = [p \in LampPlayers |->
          astray[v][p] \/ (puppet[v][p] \in Beams /\ ~OnItsWay(v, p))]]
    /\ UNCHANGED <<lamp, lastSig, debug, peerVars, pathVars, lampCache, stash,
                   lampTold>>

-----------------------------------------------------------------------------
(* The host. *)

(* HandleMessage on the net thread: into the inbox, and on to every other  *)
(* client with a connection (RelayReliableToOtherClients). *)
HostReceives(c) ==
    /\ up[c] # <<>> /\ Len(inbox) < MaxLampWire
    /\ LET msg == Head(up[c])
           others == linked \ {c}
       IN  /\ \A d \in others : Len(down[d]) < MaxLampWire
           /\ up' = [up EXCEPT ![c] = Tail(@)]
           /\ inbox' = Append(inbox, msg)
           /\ down' = [d \in LampClients |->
                 IF d \in others THEN Append(down[d], msg) ELSE down[d]]
           /\ lampTold' = [v \in LampPlayers |->
                 IF v \in others THEN [lampTold[v] EXCEPT ![c] = msg.light]
                 ELSE lampTold[v]]
           /\ astray' = [v \in LampPlayers |->
                 IF v \in others THEN [astray[v] EXCEPT ![c] = FALSE]
                 ELSE astray[v]]
    /\ UNCHANGED <<lamp, lastSig, debug, peerVars, lampCache, showVars>>

(* At c's ready edge: the host's lamp, then those of the cache, dark ones  *)
(* left out.  The edges go by slot: a client with a higher slot that has   *)
(* left is still in the cache. *)
Replay(c) ==
    LET lit(p) == IF p = 0 THEN lamp[0] ELSE lampCache[p]
        replays == {p \in LampPlayers \ {c} :
                      lit(p) \in Beams /\ ~(p \in edges[0] \ joined /\ p < c)}
        inOrder == Kept([i \in 1 .. Cardinality(LampPlayers) |-> i - 1],
                        {p + 1 : p \in replays})
    IN  [i \in DOMAIN inOrder |-> [from |-> inOrder[i], light |-> lit(inOrder[i])]]

(* OnDisconnectForSlot, for the slots that have gone down.                 *)
Forget(falling, f) ==
    [p \in DOMAIN f |-> IF p \in falling THEN NoLamp ELSE f[p]]

(* net_pump::Tick, and the tasks its event feed posts. *)
LampHostTick ==
    LET rising == joined \ edges[0]
        falling == edges[0] \ joined
        replay == [c \in rising |-> Replay(c)]
        newest(p) == LastOf(p, inbox, lampCache[p])
        seenLamp(p) == IF p = 0 THEN lamp[0] ELSE AsLight(newest(p))
        live(p) == puppet[0][p] # NoLamp
        shows(p) == LastOf(p, inbox, stash[0][p])
    IN  /\ \A c \in rising : Len(down[c]) + Len(replay[c]) <= MaxLampWire
        /\ edges' = [edges EXCEPT ![0] = joined]
        /\ down' = [c \in LampClients |->
              IF c \in rising THEN down[c] \o replay[c] ELSE down[c]]
        /\ lastSig' = IF rising # {} /\ lamp[0] \in Beams
                      THEN [lastSig EXCEPT ![0] = lamp[0]] ELSE lastSig
        /\ inbox' = <<>>
        /\ lampCache' = Forget(falling, [c \in LampClients |-> newest(c)])
        /\ puppet' = [puppet EXCEPT ![0] =
              Forget(falling, [p \in LampPlayers |-> Applied(puppet[0][p], shows(p))])]
        /\ stash' = [stash EXCEPT ![0] =
              Forget(falling, [p \in LampPlayers |-> IF live(p) THEN NoLamp ELSE shows(p)])]
        /\ lampTold' = [v \in LampPlayers |->
              IF v \in rising
              THEN [p \in LampPlayers |-> LastOf(p, replay[v], lampTold[v][p])]
              ELSE IF v = 0 THEN Forget(falling, lampTold[0]) ELSE lampTold[v]]
        /\ astray' = [v \in LampPlayers |->
              IF v \in rising
              THEN [p \in LampPlayers |->
                      \/ astray[v][p] /\ LastOf(p, replay[v], NoLamp) = NoLamp
                      \/ p \in {0} \cup joined /\ AsLight(lampTold'[v][p]) # seenLamp(p)]
              ELSE astray[v]]
        /\ UNCHANGED <<lamp, debug, linked, joined, up>>

-----------------------------------------------------------------------------
(* Clients. *)

(* A connection, which the host's net thread relays to, and then a slot    *)
(* that is ready.  A client that had the slot before may have left its     *)
(* lamp on the puppets. *)
Link(c) ==
    /\ c \notin linked \cup edges[0]
    /\ linked' = linked \cup {c}
    /\ astray' = [v \in LampPlayers |->
          [astray[v] EXCEPT ![c] = v \in LampClients /\ lampTold[v][c] \in Beams]]
    /\ UNCHANGED <<lamp, lastSig, debug, joined, edges, pathVars, lampCache,
                   showVars, lampTold>>

LampJoin(c) ==
    /\ c \in linked \ joined
    /\ joined' = joined \cup {c}
    /\ UNCHANGED <<lamp, lastSig, debug, linked, edges, pathVars, lampCache,
                   showVars, ghostVars>>

(* The process ends; the net thread empties the slot and the inbox of it.  *)
LampLeave(c) ==
    LET none == [p \in LampPlayers |-> NoLamp] IN
    /\ c \in linked
    /\ linked' = linked \ {c} /\ joined' = joined \ {c}
    /\ edges' = [edges EXCEPT ![c] = {}]
    /\ lamp' = [lamp EXCEPT ![c] = Dark]
    /\ lastSig' = [lastSig EXCEPT ![c] = NoLamp]
    /\ up' = [up EXCEPT ![c] = <<>>] /\ down' = [down EXCEPT ![c] = <<>>]
    /\ inbox' = Kept(inbox, {i \in DOMAIN inbox : inbox[i].from # c})
    /\ stash' = [stash EXCEPT ![c] = none]
    /\ puppet' = [puppet EXCEPT ![c] = none]
    /\ lampTold' = [lampTold EXCEPT ![c] = none]
    /\ astray' = [astray EXCEPT ![c] = [p \in LampPlayers |-> FALSE]]
    /\ UNCHANGED <<debug, lampCache>>

(* A client's tick: at the edge to the host the own lamp, unless it is     *)
(* dark; then TickConnect. *)
LampClientTick(c) ==
    /\ c \in joined
    /\ edges' = [edges EXCEPT ![c] = {0}]
    /\ UNCHANGED lamp
    /\ IF edges[c] = {} /\ lamp[c] \in Beams
       THEN SendLamp(c, lamp[c]) ELSE UNCHANGED <<lastSig, up, down, ghostVars>>
    /\ Drained(c)
    /\ UNCHANGED <<debug, linked, joined, inbox, lampCache>>

(* The posted task of the ItemActivate handler. *)
HandleItemActivate(c) ==
    /\ c \in joined /\ down[c] # <<>>
    /\ LET p == Head(down[c]).from
           light == Head(down[c]).light
           live == puppet[c][p] # NoLamp
       IN  /\ puppet' = [puppet EXCEPT ![c][p] = Applied(@, light)]
           /\ stash' = [stash EXCEPT ![c][p] = StashAfter(@, live, light)]
    /\ down' = [down EXCEPT ![c] = Tail(@)]
    /\ UNCHANGED <<lamp, lastSig, debug, peerVars, up, inbox, lampCache, ghostVars>>

-----------------------------------------------------------------------------
FlashlightNext ==
    \/ \E p \in LampUsers, light \in Lights : Touch(p, light)
    \/ 0 \in LampUsers /\ \E light \in Lights : DebugFlips(light)
    \/ DebugReads \/ DebugSends
    \/ LampHostTick
    \/ \E v, p \in LampPlayers : PuppetAppears(v, p)
    \/ \E v \in LampPlayers : LevelChanges(v)
    \/ \E c \in LampClients :
          \/ HostReceives(c) \/ Link(c) \/ LampJoin(c) \/ LampLeave(c)
          \/ LampClientTick(c) \/ HandleItemActivate(c)

FlashlightSpec == FlashlightInit /\ [][FlashlightNext]_lampVars

-----------------------------------------------------------------------------
(* Types. *)
FlashlightTypeOK ==
    LET perPlayer(S) == [LampPlayers -> S]
        perPair(S) == [LampPlayers -> [LampPlayers -> S]]
    IN  /\ lamp \in perPlayer(Lights)
        /\ lastSig \in perPlayer(Lights \cup {NoLamp})
        /\ debug \in Lights \cup {"idle", "flipped"}
        /\ joined \subseteq linked /\ linked \subseteq LampClients
        /\ edges \in perPlayer(SUBSET LampPlayers)
        /\ up \in [LampClients -> Seq(LampMsgs)]
        /\ down \in [LampClients -> Seq(LampMsgs)]
        /\ inbox \in Seq(LampMsgs)
        /\ lampCache \in [LampClients -> Lights \cup {NoLamp}]
        /\ stash \in perPair(Lights \cup {NoLamp})
        /\ puppet \in perPair(Lights \cup {NoLamp})
        /\ lampTold \in perPair(Lights \cup {NoLamp})
        /\ astray \in perPair(BOOLEAN)

(* Both are here, and nothing of p is on its way to v or stashed. *)
AllShown(v, p) ==
    /\ v # p /\ {v, p} \subseteq {0} \cup joined
    /\ v = 0 => p \in edges[0]
    /\ v # 0 => v \in edges[0]
    /\ p # 0 => up[p] = <<>>
    /\ ~OnItsWay(v, p) /\ LastOf(p, inbox, NoLamp) = NoLamp
    /\ stash[v][p] = NoLamp /\ puppet[v][p] # NoLamp
    /\ debug = "idle"

(* In the end every player shows everyone's lamp as it is, through stash   *)
(* and puppet, dedup, relay, cache and replay: except where astray says    *)
(* what went wrong (a change the dedup swallowed, a replay the relay has   *)
(* overtaken, a level or an occupant that is gone). *)
LampsAgree ==
    \A v, p \in LampPlayers : AllShown(v, p) /\ ~astray[v][p] => puppet[v][p] = lamp[p]

(* Whoever lights the lamp while others are there has it seen: "When the   *)
(* local user toggles to ON later, the normal POST observer path ships it" *)
(* (item_activate.cpp:684-687). *)
LaterToggleShips ==
    [][\A c \in joined \cap edges[0], light \in Beams :
         Touch(0, light) => lampTold'[c][0] = light]_lampVars

(* A replay leaves nobody with a lamp its owner has changed since.         *)
ReplayIsCurrent ==
    [][LampHostTick => \A c \in joined \ edges[0], p \in LampPlayers : ~astray'[c][p]]_lampVars
=============================================================================
