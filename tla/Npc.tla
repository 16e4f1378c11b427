-------------------------------- MODULE Npc --------------------------------
(***************************************************************************)
(* NPCs: npc_sync.cpp, npc_mirror.cpp and the EntitySpawn and              *)
(* EntityDestroy handlers of event_feed.cpp.                               *)
(*                                                                         *)
(* Around the engine's BeginDeferredActorSpawnFromClass the host runs an   *)
(* interceptor, which allocates an element and announces it, and a POST    *)
(* observer, which binds the actor to the element; before an actor's       *)
(* K2_DestroyActor it releases the element and announces that.  The        *)
(* observers run on whichever thread dispatches the function; the pump's   *)
(* OnDisconnect and the flush of the ElementDeleter run on the game        *)
(* thread, between any two of their steps.                                 *)
(*                                                                         *)
(* An NPC is one life of an actor, at an address of its own.  Where its    *)
(* dispatches are is stage[n]:                                             *)
(*    unborn     not spawned                                               *)
(*    asked      the interceptor has found the session connected           *)
(*    installed  it has an element, of which nobody has been told          *)
(*    spawning   the interceptor has returned, the engine spawns           *)
(*    found      the POST observer has its element in hand                 *)
(*    alive      the spawn is over                                         *)
(*    dying      the PRE observer of its destruction has removed it from   *)
(*               the reverse map                                           *)
(*    taken      and has taken the element                                 *)
(*    dead                                                                 *)
(* There is one client at a time, told by the lane that both kinds share;  *)
(* the next one may come before the host's tick has seen the last one go.  *)
(***************************************************************************)
EXTENDS Naturals, Sequences

CONSTANTS
    Npcs,           \* lives of NPCs; each is lived once
    Eids,           \* the host's element ids, as far as NPCs get them
    NoNpc, NoEid,
    MaxNpcWire      \* bound: messages on their way to the client

ASSUME NpcAssumption ==
    NoNpc \notin Npcs /\ NoEid \notin Eids /\ MaxNpcWire \in Nat

VARIABLES
    stage,          \* see above
    within,         \* within[n]: the NPC whose spawn n's is nested in, or n
    pendingNpc,     \* pendingNpc[r]: t_pendingNpc of the thread r's spawn is
                    \* outermost on; an NPC stands for eid and params
    eid,            \* eid[n]: the id a dispatch of n has in hand
    element,        \* NpcMirrors and Registry: element[e] is that NPC's
    doomed,         \* the ids whose elements wait for the ElementDeleter
    reverse,        \* g_actorToNpcId
    guest,          \* the client is connected
    wasConnected,   \* net_pump's g_wasConnected
    clearing,       \* OnDisconnect has drained, not yet cleared the map
    guestWire,      \* what is on its way to the client
    mirror,         \* the client's NpcMirrors: whose mirror, by id
    bypass,         \* g_incomingNpcSpawnClass is set
    marking,        \* OnEntitySpawn of the first message has set it
    straddled,      \* ghost: NPCs with a dispatch under way at an OnDisconnect,
                    \* and those that lost their element to one of them
    unclaimed       \* ghost: NPCs that were announced and failed to spawn, or
                    \* lost their element to a nested spawn

spawnVars == <<stage, within, pendingNpc, eid>>
npcHostVars == <<element, doomed, reverse, wasConnected, clearing>>
guestVars == <<guest, guestWire, mirror, bypass, marking>>
npcVars == <<spawnVars, npcHostVars, guestVars, straddled, unclaimed>>

Spawning == {"asked", "installed", "spawning", "found"}
Stages == Spawning \cup {"unborn", "alive", "dying", "taken", "dead"}
NpcMsgs == [kind : {"EntitySpawn", "EntityDestroy"}, eid : Eids, npc : Npcs]

NpcInit ==
    /\ stage = [n \in Npcs |-> "unborn"]
    /\ within = [n \in Npcs |-> n]
    /\ pendingNpc = [n \in Npcs |-> NoNpc]
    /\ eid = [n \in Npcs |-> NoEid] /\ reverse = eid
    /\ element = [e \in Eids |-> NoNpc] /\ mirror = element
    /\ doomed = {} /\ straddled = {} /\ unclaimed = {}
    /\ guest = FALSE /\ wasConnected = FALSE /\ clearing = FALSE
    /\ guestWire = <<>>
    /\ bypass = FALSE /\ marking = FALSE

-----------------------------------------------------------------------------
(* The host's dispatches. *)

Goto(n, s) == stage' = [stage EXCEPT ![n] = s]

(* n's is the innermost spawn of its thread. *)
OnTop(n) ==
    \A m \in Npcs \ {n} : within[m] = n => stage[m] \notin Spawning

(* Mutant: EntityDestroy has a lane of its own, and overtakes.             *)
TellFaster(kind, n, e) ==
    LET msg == [kind |-> kind, eid |-> e, npc |-> n] IN
    IF guest
    THEN /\ Len(guestWire) < MaxNpcWire
         /\ guestWire' = IF kind = "EntityDestroy" THEN <<msg>> \o guestWire
                         ELSE Append(guestWire, msg)
    ELSE UNCHANGED guestWire

(* SendReliable, which reaches the client if it is there. *)
Tell(kind, n, e) ==
    IF guest
    THEN /\ Len(guestWire) < MaxNpcWire
         /\ guestWire' = Append(guestWire, [kind |-> kind, eid |-> e, npc |-> n])
    ELSE UNCHANGED guestWire

(* The engine spawns an NPC, by itself or in the midst of another spawn,   *)
(* and the interceptor asks for the session. *)
SpawnBegins(n, m) ==
    /\ stage[n] = "unborn"
    /\ m = n \/ (stage[m] = "spawning" /\ within[m] = m /\ OnTop(m))
    /\ within' = [within EXCEPT ![n] = m]
    /\ Goto(n, IF guest THEN "asked" ELSE "spawning")
    /\ UNCHANGED <<pendingNpc, eid, npcHostVars, guestVars, straddled, unclaimed>>

(* AllocAndInstall, and t_pendingNpc; without a free id nothing is said. *)
Installs(n) ==
    LET free == {e \in Eids : element[e] = NoNpc} IN
    /\ stage[n] = "asked"
    /\ \/ /\ free = {} /\ Goto(n, "spawning")
          /\ UNCHANGED <<element, eid, pendingNpc>>
       \/ \E e \in free :
            /\ Goto(n, "installed")
            /\ element' = [element EXCEPT ![e] = n]
            /\ eid' = [eid EXCEPT ![n] = e]
            /\ pendingNpc' = [pendingNpc EXCEPT ![within[n]] = n]
    /\ UNCHANGED <<within, doomed, reverse, wasConnected, clearing, guestVars,
                   straddled, unclaimed>>

(* SendEntitySpawn. *)
Broadcasts(n) ==
    /\ stage[n] = "installed" /\ Goto(n, "spawning")
    /\ Tell("EntitySpawn", n, eid[n])
    /\ UNCHANGED <<within, pendingNpc, eid, npcHostVars, guest, mirror, bypass,
                   marking, straddled, unclaimed>>

(* NpcSpawn_POST is that of the interceptor that has filled t_pendingNpc.  *)
MatchesPending(n) == pendingNpc[within[n]] = n

(* The spawn nested in n's has overwritten t_pendingNpc, and n has no      *)
(* element that anyone would destroy. *)
Orphaned(n) == eid[n] # NoEid /\ ~MatchesPending(n)

(* An element that is released by the dispatch of another NPC.             *)
Victim(n) == {element[e] : e \in {eid[n]} \ {NoEid}} \ {NoNpc, n}

(* The spawn has failed: a null actor.  The element is given back, and     *)
(* nobody is told. *)
SpawnFails(n) ==
    /\ stage[n] = "spawning" /\ OnTop(n)
    /\ Goto(n, "dead")
    /\ pendingNpc' = [pendingNpc EXCEPT ![within[n]] = IF MatchesPending(n) THEN NoNpc ELSE @]
    /\ IF MatchesPending(n)
       THEN doomed' = doomed \cup {e \in Eids : e = eid[n] /\ element[e] # NoNpc}
       ELSE UNCHANGED doomed
    /\ unclaimed' = unclaimed \cup {n}
    /\ straddled' = straddled \cup Victim(n)
    /\ UNCHANGED <<within, eid, element, reverse, wasConnected, clearing, guestVars>>

(* The POST observer's lookup: an element that is there and not doomed.    *)
Looks(n) ==
    /\ stage[n] = "spawning" /\ OnTop(n)
    /\ LET p == pendingNpc[within[n]] IN
       IF MatchesPending(n)
       THEN /\ pendingNpc' = [pendingNpc EXCEPT ![within[n]] = NoNpc]
            /\ eid' = [eid EXCEPT ![n] = eid[p]]
            /\ Goto(n, IF element[eid[p]] # NoNpc /\ eid[p] \notin doomed
                       THEN "found" ELSE "alive")
       ELSE Goto(n, "alive") /\ UNCHANGED <<pendingNpc, eid>>
    /\ unclaimed' = IF Orphaned(n) THEN unclaimed \cup {n} ELSE unclaimed
    /\ UNCHANGED <<within, npcHostVars, guestVars, straddled>>

(* SetActor, and the reverse map. *)
Binds(n) ==
    /\ stage[n] = "found" /\ Goto(n, "alive")
    /\ reverse' = [reverse EXCEPT ![n] = eid[n]]
    /\ UNCHANGED <<within, pendingNpc, eid, element, doomed, wasConnected,
                   clearing, guestVars, straddled, unclaimed>>

(* NpcDestroy_PRE: the reverse map, NpcMirrors().Take, SendEntityDestroy.  *)
DestroyBegins(n) ==
    /\ stage[n] = "alive"
    /\ Goto(n, IF reverse[n] = NoEid THEN "dead" ELSE "dying")
    /\ eid' = [eid EXCEPT ![n] = reverse[n]]
    /\ reverse' = [reverse EXCEPT ![n] = NoEid]
    /\ UNCHANGED <<within, pendingNpc, element, doomed, wasConnected, clearing,
                   guestVars, straddled, unclaimed>>

DestroyTakes(n) ==
    /\ stage[n] = "dying" /\ Goto(n, "taken")
    /\ doomed' = IF element[eid[n]] # NoNpc THEN doomed \cup {eid[n]} ELSE doomed
    /\ straddled' = straddled \cup Victim(n)
    /\ UNCHANGED <<within, pendingNpc, eid, element, reverse, wasConnected,
                   clearing, guestVars, unclaimed>>

DestroyTells(n) ==
    /\ stage[n] = "taken" /\ Goto(n, "dead")
    /\ Tell("EntityDestroy", n, eid[n])
    /\ UNCHANGED <<within, pendingNpc, eid, npcHostVars, guest, mirror, bypass,
                   marking, straddled, unclaimed>>

-----------------------------------------------------------------------------
(* The host's game thread. *)

(* ElementDeleter::Flush. *)
Flush ==
    /\ doomed # {} /\ doomed' = {}
    /\ element' = [e \in Eids |-> IF e \in doomed THEN NoNpc ELSE element[e]]
    /\ UNCHANGED <<spawnVars, reverse, wasConnected, clearing, guestVars,
                   straddled, unclaimed>>

TickConnected ==
    /\ guest /\ ~wasConnected /\ ~clearing /\ wasConnected' = TRUE
    /\ UNCHANGED <<spawnVars, element, doomed, reverse, clearing, guestVars,
                   straddled, unclaimed>>

(* OnDisconnect: DrainClientMirrors destroys what NpcMirrors owns, that is *)
(* everything that is not doomed already. *)
DrainsNpcs ==
    /\ wasConnected /\ ~guest /\ ~clearing
    /\ wasConnected' = FALSE /\ clearing' = TRUE
    /\ element' = [e \in Eids |-> IF e \in doomed THEN element[e] ELSE NoNpc]
    /\ straddled' = straddled \cup
         {n \in Npcs : stage[n] \in Spawning \cup {"dying", "taken"}}
    /\ UNCHANGED <<spawnVars, doomed, reverse, guestVars, unclaimed>>

(* Mutant: the map is left as it is.                                       *)
MapKept(n) == reverse[n]

(* g_actorToNpcId.clear(). *)
MapCleared(n) == NoEid

ClearsMap ==
    /\ clearing /\ clearing' = FALSE
    /\ reverse' = [n \in Npcs |-> MapCleared(n)]
    /\ straddled' = straddled \cup
         {n \in Npcs : \/ stage[n] \in {"found", "dying", "taken"}
                       \/ \E e \in Eids : reverse[n] = e /\ element[e] = n}
    /\ UNCHANGED <<spawnVars, element, doomed, wasConnected, guestVars, unclaimed>>

-----------------------------------------------------------------------------
(* The client. *)

Comes ==
    /\ ~guest /\ guest' = TRUE
    /\ UNCHANGED <<spawnVars, npcHostVars, guestWire, mirror, bypass, marking,
                   straddled, unclaimed>>

(* Its process ends. *)
Goes ==
    /\ guest /\ guest' = FALSE
    /\ guestWire' = <<>> /\ mirror' = [e \in Eids |-> NoNpc]
    /\ bypass' = FALSE /\ marking' = FALSE
    /\ UNCHANGED <<spawnVars, npcHostVars, straddled, unclaimed>>

Arrived(kind) == guest /\ guestWire # <<>> /\ Head(guestWire).kind = kind

(* OnEntitySpawn does not drop the message as a duplicate. *)
Fresh(e) == mirror[e] = NoNpc

(* It marks the class: it is loaded, and there is a world. *)
Marks ==
    /\ Arrived("EntitySpawn") /\ ~marking
    /\ Fresh(Head(guestWire).eid)
    /\ bypass' = TRUE /\ marking' = TRUE
    /\ UNCHANGED <<spawnVars, npcHostVars, guest, guestWire, mirror, straddled, unclaimed>>

(* Or it drops it, at any of its checks. *)
DropsSpawn ==
    /\ Arrived("EntitySpawn") /\ ~marking
    /\ guestWire' = Tail(guestWire)
    /\ UNCHANGED <<spawnVars, npcHostVars, guest, mirror, bypass, marking, straddled, unclaimed>>

(* Its own spawn comes to the interceptor, which lets it through if the    *)
(* class is still marked; if not, the spawn is null and the slot cleared.  *)
Mirrors ==
    /\ marking /\ marking' = FALSE /\ bypass' = FALSE
    /\ guestWire' = Tail(guestWire)
    /\ mirror' = IF bypass
                 THEN [mirror EXCEPT ![Head(guestWire).eid] = Head(guestWire).npc]
                 ELSE mirror
    /\ UNCHANGED <<spawnVars, npcHostVars, guest, straddled, unclaimed>>

(* The client's own game spawns an NPC of the class on another thread,     *)
(* while OnEntitySpawn has it marked: it takes the mark. *)
OwnSpawn ==
    /\ guest /\ bypass /\ bypass' = FALSE
    /\ UNCHANGED <<spawnVars, npcHostVars, guest, guestWire, mirror, marking,
                   straddled, unclaimed>>

(* OnEntityDestroy. *)
Unmirrors ==
    /\ Arrived("EntityDestroy")
    /\ guestWire' = Tail(guestWire)
    /\ mirror' = [mirror EXCEPT ![Head(guestWire).eid] = NoNpc]
    /\ UNCHANGED <<spawnVars, npcHostVars, guest, bypass, marking, straddled, unclaimed>>

-----------------------------------------------------------------------------
NpcNext ==
    \/ \E n, m \in Npcs : SpawnBegins(n, m)
    \/ \E n \in Npcs :
         \/ Installs(n) \/ Broadcasts(n) \/ SpawnFails(n) \/ Looks(n) \/ Binds(n)
         \/ DestroyBegins(n) \/ DestroyTakes(n) \/ DestroyTells(n)
    \/ Flush \/ TickConnected \/ DrainsNpcs \/ ClearsMap
    \/ Comes \/ Goes
    \/ Marks \/ DropsSpawn \/ Mirrors \/ OwnSpawn \/ Unmirrors

NpcSpec == NpcInit /\ [][NpcNext]_npcVars

-----------------------------------------------------------------------------
(* Types. *)
NpcTypeOK ==
    /\ stage \in [Npcs -> Stages] /\ within \in [Npcs -> Npcs]
    /\ pendingNpc \in [Npcs -> Npcs \cup {NoNpc}]
    /\ eid \in [Npcs -> Eids \cup {NoEid}] /\ reverse \in [Npcs -> Eids \cup {NoEid}]
    /\ element \in [Eids -> Npcs \cup {NoNpc}] /\ mirror \in [Eids -> Npcs \cup {NoNpc}]
    /\ doomed \subseteq Eids /\ unclaimed \subseteq Npcs /\ straddled \subseteq Npcs
    /\ {guest, wasConnected, clearing, bypass, marking} \subseteq BOOLEAN
    /\ guestWire \in Seq(NpcMsgs)

(* What the reverse map says of an actor is true: the element of that id   *)
(* is its own and not doomed, and so is the one that its destruction is    *)
(* about to take and announce.  This is once OnDisconnect is through, and  *)
(* if none of the actor's dispatches were under way at one. *)
MapPointsHome ==
    \A n \in Npcs \ straddled :
        LET held == IF stage[n] = "dying" THEN eid[n] ELSE reverse[n] IN
        ~clearing /\ held # NoEid => element[held] = n /\ held \notin doomed

(* The same for every actor.  "The old clear-then-drain order left a       *)
(* window where the re-inserted entry survived, pointing at a freed eid    *)
(* into the next session" (npc_sync.cpp:520-522), which the order          *)
(* drain-then-clear is to close. *)
MapNeverStale ==
    \A n \in Npcs : ~clearing /\ reverse[n] # NoEid => element[reverse[n]] = n

(* A client does not keep the mirror of an NPC that is gone: when nothing  *)
(* is on its way, each mirror is that of an NPC that has not died since,   *)
(* except where the host announced an NPC and never said that its spawn    *)
(* failed, lost the element to a nested spawn (unclaimed), or announced it *)
(* across its OnDisconnect. *)
NoGhostNpcs ==
    guestWire = <<>> =>
        \A e \in Eids :
            mirror[e] \in Npcs \ (straddled \cup unclaimed) => stage[mirror[e]] # "dead"
=============================================================================
