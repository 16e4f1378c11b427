--------------------------- MODULE WorldSyncProofs ---------------------------
(***************************************************************************)
(* Proofs about what a session keeps in step besides props and players.    *)
(*                                                                         *)
(* NPCs.  MapPointsHome needs the whole life of an element on the host:    *)
(* who has it in hand during the dispatches around a spawn, that the       *)
(* pending slot of a thread belongs to a spawn of that thread, and that    *)
(* whoever releases the element of another NPC is counted (NpcHostInv).    *)
(* NoGhostNpcs needs what a client has been told or is about to be: whose  *)
(* mirror it has or will get, the host still has that element in hand, or  *)
(* the EntityDestroy is on its way behind every EntitySpawn (ToldInv).     *)
(*                                                                         *)
(* Weather.  The last weather a client was told is at one place: the end   *)
(* of its queue, its stash, or its sky (KnowsLatest).  What an engine      *)
(* class still loaded allows to observe bounds what ever was observed      *)
(* (ObserversInv).                                                         *)
(*                                                                         *)
(* Lamps.  Whose lamp a player has heard of last is read off the queues,   *)
(* the stash, the cache and the puppet (Heard for the host, Shows for a    *)
(* client), and what a client was told last is the lamp as it is, but for  *)
(* what its owner has said since (ToldRight).                              *)
(***************************************************************************)
EXTENDS Npc, Weather, Flashlight, QueueLemmas

-----------------------------------------------------------------------------
(* NPCs: the inductive invariant. *)

(* t_pendingNpc is that of a spawn under way on its thread, which has got  *)
(* an id. *)
PendingSpawns ==
    \A r \in Npcs : pendingNpc[r] # NoNpc =>
        /\ eid[pendingNpc[r]] # NoEid /\ within[pendingNpc[r]] = r
        /\ stage[pendingNpc[r]] \in {"installed", "spawning"}

HandsFull ==
    \A n \in Npcs :
        /\ stage[n] \in {"installed", "found", "dying", "taken"} => eid[n] # NoEid
        /\ stage[n] \in {"unborn", "asked"} => eid[n] = NoEid
        /\ reverse[n] # NoEid => stage[n] = "alive"

DoomedThere == \A e \in doomed : element[e] # NoNpc

Owns(n, e) == element[e] = n /\ e \notin doomed

SpawnsOwn ==
    \A n \in Npcs \ straddled :
        stage[n] \in {"installed", "spawning", "found"} /\ eid[n] # NoEid
            => Owns(n, eid[n])

MapHome ==
    ~clearing =>
        \A n \in Npcs \ straddled :
            /\ reverse[n] # NoEid => Owns(n, reverse[n])
            /\ stage[n] = "dying" => Owns(n, eid[n])

NpcHostInv ==
    NpcTypeOK /\ PendingSpawns /\ HandsFull /\ DoomedThere /\ SpawnsOwn /\ MapHome

GuestInv ==
    /\ ~guest => guestWire = <<>> /\ ~marking /\ \A e \in Eids : mirror[e] = NoNpc
    /\ marking => guestWire # <<>> /\ Head(guestWire).kind = "EntitySpawn"

(* What is said in the wire w of the NPC n with the id e. *)
Announced(w, i, e, n) ==
    i \in DOMAIN w /\ w[i].kind = "EntitySpawn" /\ w[i].eid = e /\ w[i].npc = n

Announces(w, e, n) == \E i \in DOMAIN w : Announced(w, i, e, n)

(* An EntityDestroy of the id comes after every EntitySpawn. *)
Withdraws(w, e, n) ==
    \E j \in DOMAIN w : /\ w[j].kind = "EntityDestroy" /\ w[j].eid = e
                        /\ \A i \in DOMAIN w : Announced(w, i, e, n) => i < j

ToldOf(e, n) == mirror[e] = n \/ Announces(guestWire, e, n)

(* The host still has in hand what the client has been told. *)
InHand(e, n) ==
    /\ stage[n] \in {"spawning", "found", "alive", "dying", "taken", "dead"}
    /\ stage[n] \in {"spawning", "found", "dying", "taken"} => eid[n] = e
    /\ stage[n] = "alive" => reverse[n] = e /\ Owns(n, e)

ToldInv ==
    \A n \in Npcs \ (straddled \cup unclaimed), e \in Eids :
        ToldOf(e, n) =>
            InHand(e, n) /\ (stage[n] = "dead" => Withdraws(guestWire, e, n))

NpcInv == NpcHostInv /\ GuestInv /\ ToldInv

-----------------------------------------------------------------------------
(* What becomes of announcements on a wire. *)

LEMMA NpcAppended ==
    ASSUME NEW w \in Seq(NpcMsgs), NEW msg \in NpcMsgs, NEW e \in Eids, NEW n \in Npcs
    PROVE  /\ Announces(Append(w, msg), e, n) <=>
                \/ Announces(w, e, n)
                \/ msg.kind = "EntitySpawn" /\ msg.eid = e /\ msg.npc = n
           /\ Withdraws(w, e, n) /\ ~ (msg.kind = "EntitySpawn" /\ msg.eid = e /\ msg.npc = n)
                => Withdraws(Append(w, msg), e, n)
           /\ msg.kind = "EntityDestroy" /\ msg.eid = e => Withdraws(Append(w, msg), e, n)
<1> DEFINE l == Len(w)
           v == Append(w, msg)
<1>1. l \in Nat /\ DOMAIN w = 1 .. l
  BY LenProperties
<1>2. DOMAIN v = 1 .. l + 1 /\ v[l + 1] = msg /\ \A i \in 1 .. l : v[i] = w[i]
  BY AppendProperties, LenProperties
<1>3. l + 1 \in DOMAIN v /\ \A i \in DOMAIN w : i \in DOMAIN v /\ i < l + 1
  BY <1>1, <1>2
<1>4. \A i \in DOMAIN v : i = l + 1 \/ i \in DOMAIN w
  BY <1>1, <1>2
<1>5. \A i \in DOMAIN w : Announced(v, i, e, n) <=> Announced(w, i, e, n)
  BY <1>1, <1>2, <1>3 DEF Announced
<1>6. Announced(v, l + 1, e, n) <=>
          msg.kind = "EntitySpawn" /\ msg.eid = e /\ msg.npc = n
  BY <1>2, <1>3 DEF Announced
<1>7. \A i \in DOMAIN w : v[i] = w[i]
  BY <1>1, <1>2
<1> HIDE DEF v
<1>8. Announces(v, e, n) <=>
          \/ Announces(w, e, n)
          \/ msg.kind = "EntitySpawn" /\ msg.eid = e /\ msg.npc = n
  BY <1>3, <1>4, <1>5, <1>6 DEF Announces
<1>9. ASSUME Withdraws(w, e, n),
             ~ (msg.kind = "EntitySpawn" /\ msg.eid = e /\ msg.npc = n)
      PROVE  Withdraws(v, e, n)
  <2>1. PICK j \in DOMAIN w : /\ w[j].kind = "EntityDestroy" /\ w[j].eid = e
                              /\ \A i \in DOMAIN w : Announced(w, i, e, n) => i < j
    BY <1>9 DEF Withdraws
  <2>2. j \in DOMAIN v /\ v[j].kind = "EntityDestroy" /\ v[j].eid = e
    BY <2>1, <1>3, <1>7
  <2>3. \A i \in DOMAIN v : Announced(v, i, e, n) => i < j
    BY <2>1, <1>4, <1>5, <1>6, <1>9
  <2> QED BY <2>2, <2>3 DEF Withdraws
<1>10. ASSUME msg.kind = "EntityDestroy", msg.eid = e PROVE Withdraws(v, e, n)
  <2>1. \A i \in DOMAIN v : Announced(v, i, e, n) => i < l + 1
    BY <1>10, <1>3, <1>4, <1>6
  <2>2. v[l + 1].kind = "EntityDestroy" /\ v[l + 1].eid = e
    BY <1>10, <1>2 DEF v
  <2> QED BY <1>3, <2>1, <2>2 DEF Withdraws
<1> QED BY <1>8, <1>9, <1>10 DEF v

LEMMA NpcTailed ==
    ASSUME NEW w \in Seq(NpcMsgs), w # <<>>, NEW e \in Eids, NEW n \in Npcs
    PROVE  /\ Head(w) \in NpcMsgs /\ Tail(w) \in Seq(NpcMsgs)
           /\ Announces(Tail(w), e, n) => Announces(w, e, n)
           /\ Head(w).kind = "EntitySpawn" /\ Head(w).eid = e /\ Head(w).npc = n
                => Announces(w, e, n)
           /\ /\ Withdraws(w, e, n)
              /\ Announces(Tail(w), e, n) \/ Head(w).kind = "EntitySpawn" \/ Head(w).eid # e
              => Withdraws(Tail(w), e, n)
<1> DEFINE t == Tail(w)
<1>1. /\ Head(w) \in NpcMsgs /\ t \in Seq(NpcMsgs) /\ Head(w) = w[1] /\ 1 \in DOMAIN w
      /\ \A i \in DOMAIN t : i + 1 \in DOMAIN w /\ t[i] = w[i + 1]
  BY TailElements
<1>2. /\ \A i \in DOMAIN w : i \in Nat /\ (i = 1 \/ i - 1 \in DOMAIN t)
      /\ \A i \in DOMAIN t : i \in Nat /\ i >= 1
  <2>1. Len(w) \in Nat \ {0} /\ DOMAIN w = 1 .. Len(w) /\ Len(t) = Len(w) - 1
    BY EmptySeq, LenProperties
  <2>2. DOMAIN t = 1 .. Len(w) - 1
    BY <1>1, <2>1, LenProperties
  <2> QED BY <2>1, <2>2
<1> HIDE DEF t
<1>3. \A i \in DOMAIN t : Announced(t, i, e, n) <=> Announced(w, i + 1, e, n)
  BY <1>1 DEF Announced
<1>4. Announces(t, e, n) => Announces(w, e, n)
  BY <1>1, <1>3 DEF Announces
<1>5. Head(w).kind = "EntitySpawn" /\ Head(w).eid = e /\ Head(w).npc = n
          => Announces(w, e, n)
  BY <1>1 DEF Announces, Announced
<1>6. ASSUME Withdraws(w, e, n),
             Announces(t, e, n) \/ Head(w).kind = "EntitySpawn" \/ Head(w).eid # e
      PROVE  Withdraws(t, e, n)
  <2>1. PICK j \in DOMAIN w : /\ w[j].kind = "EntityDestroy" /\ w[j].eid = e
                              /\ \A i \in DOMAIN w : Announced(w, i, e, n) => i < j
    BY <1>6 DEF Withdraws
  <2>2. j # 1
    <3>1. CASE Announces(t, e, n)
      <4>1. PICK i \in DOMAIN t : Announced(t, i, e, n)
        BY <3>1 DEF Announces
      <4>2. i + 1 \in DOMAIN w /\ Announced(w, i + 1, e, n)
        BY <4>1, <1>1, <1>3
      <4> QED BY <4>2, <2>1, <1>2
    <3>2. CASE Head(w).kind = "EntitySpawn" \/ Head(w).eid # e
      BY <3>2, <2>1, <1>1
    <3> QED BY <3>1, <3>2, <1>6
  <2>3. j - 1 \in DOMAIN t /\ j \in Nat /\ (j - 1) + 1 = j
    BY <2>2, <1>2
  <2>4. t[j - 1].kind = "EntityDestroy" /\ t[j - 1].eid = e
    BY <2>1, <2>3, <1>1
  <2>5. ASSUME NEW i \in DOMAIN t, Announced(t, i, e, n) PROVE i < j - 1
    <3>1. i + 1 \in DOMAIN w /\ Announced(w, i + 1, e, n)
      BY <2>5, <1>1, <1>3
    <3>2. i + 1 < j
      BY <3>1, <2>1
    <3> QED BY <3>2, <2>3, <1>2
  <2> QED BY <2>3, <2>4, <2>5 DEF Withdraws
<1> QED BY <1>1, <1>4, <1>5, <1>6 DEF t

-----------------------------------------------------------------------------
(* NPCs: the host. *)

LEMMA NpcInitInv == NpcInit => NpcInv
<1> SUFFICES ASSUME NpcInit PROVE NpcInv
  OBVIOUS
<1> USE NpcAssumption DEF NpcInit
<1>1. NpcTypeOK
  <2>1. guestWire \in Seq(NpcMsgs)
    OBVIOUS
  <2> QED BY <2>1 DEF NpcTypeOK, Stages, Spawning
<1>2. PendingSpawns /\ HandsFull /\ DoomedThere /\ SpawnsOwn /\ MapHome
  BY DEF PendingSpawns, HandsFull, DoomedThere, SpawnsOwn, MapHome
<1>3. GuestInv
  BY DEF GuestInv
<1>4. ToldInv
  BY DEF ToldInv, ToldOf, Announces
<1> QED BY <1>1, <1>2, <1>3, <1>4 DEF NpcInv, NpcHostInv

(* Telling appends the message, or nobody is there. *)
LEMMA NpcTells ==
    ASSUME NEW kind \in {"EntitySpawn", "EntityDestroy"}, NEW n \in Npcs,
           NEW e \in Eids, Tell(kind, n, e), NpcTypeOK
    PROVE  /\ guestWire' \in Seq(NpcMsgs)
           /\ \/ /\ guest
                 /\ guestWire' = Append(guestWire, [kind |-> kind, eid |-> e, npc |-> n])
              \/ ~guest /\ guestWire' = guestWire
           /\ [kind |-> kind, eid |-> e, npc |-> n] \in NpcMsgs
<1>1. [kind |-> kind, eid |-> e, npc |-> n] \in NpcMsgs
  BY DEF NpcMsgs
<1>2. guestWire \in Seq(NpcMsgs)
  BY DEF NpcTypeOK
<1> QED BY <1>1, <1>2, AppendProperties DEF Tell

LEMMA NpcTyped == NpcInv /\ [NpcNext]_npcVars => NpcTypeOK'
<1> SUFFICES ASSUME NpcTypeOK, HandsFull, PendingSpawns, GuestInv, [NpcNext]_npcVars
             PROVE  NpcTypeOK'
  BY DEF NpcInv, NpcHostInv
<1> USE NpcAssumption DEF NpcTypeOK
<1>1. ASSUME NEW n \in Npcs, NEW m \in Npcs, SpawnBegins(n, m) PROVE NpcTypeOK'
  <2>1. stage' \in [Npcs -> Stages]
    BY <1>1 DEF SpawnBegins, Goto, Stages, Spawning
  <2>2. within' \in [Npcs -> Npcs]
    BY <1>1 DEF SpawnBegins
  <2> QED BY <1>1, <2>1, <2>2 DEF SpawnBegins, npcHostVars, guestVars
<1>2. ASSUME NEW n \in Npcs, Installs(n) PROVE NpcTypeOK'
  <2>1. stage' \in [Npcs -> Stages]
    BY <1>2 DEF Installs, Goto, Stages, Spawning
  <2>2. /\ element' \in [Eids -> Npcs \cup {NoNpc}] /\ eid' \in [Npcs -> Eids \cup {NoEid}]
        /\ pendingNpc' \in [Npcs -> Npcs \cup {NoNpc}]
    BY <1>2 DEF Installs
  <2> QED BY <1>2, <2>1, <2>2 DEF Installs, guestVars
<1>3. ASSUME NEW n \in Npcs, Broadcasts(n) PROVE NpcTypeOK'
  <2>1. eid[n] \in Eids
    BY <1>3 DEF Broadcasts, HandsFull
  <2>2. guestWire' \in Seq(NpcMsgs)
    BY <1>3, <2>1, NpcTells DEF Broadcasts
  <2> QED BY <1>3, <2>2 DEF Broadcasts, Goto, Stages, Spawning, npcHostVars
<1>4. ASSUME NEW n \in Npcs, SpawnFails(n) PROVE NpcTypeOK'
  <2>1. doomed' \subseteq Eids
    BY <1>4 DEF SpawnFails
  <2>2. straddled' \subseteq Npcs
    BY <1>4 DEF SpawnFails, Victim
  <2>3. stage' \in [Npcs -> Stages]
    BY <1>4 DEF SpawnFails, Goto, Stages
  <2>4. pendingNpc' \in [Npcs -> Npcs \cup {NoNpc}]
    BY <1>4 DEF SpawnFails
  <2> QED BY <1>4, <2>1, <2>2, <2>3, <2>4 DEF SpawnFails, guestVars
<1>5. ASSUME NEW n \in Npcs, Looks(n) PROVE NpcTypeOK'
  <2>1. stage' \in [Npcs -> Stages]
    BY <1>5 DEF Looks, Goto, Stages, Spawning
  <2>2. pendingNpc' \in [Npcs -> Npcs \cup {NoNpc}] /\ eid' \in [Npcs -> Eids \cup {NoEid}]
    BY <1>5 DEF Looks, MatchesPending
  <2> QED BY <1>5, <2>1, <2>2 DEF Looks, npcHostVars, guestVars
<1>6. ASSUME NEW n \in Npcs, Binds(n) PROVE NpcTypeOK'
  BY <1>6 DEF Binds, Goto, Stages, Spawning, guestVars
<1>7. ASSUME NEW n \in Npcs, DestroyBegins(n) PROVE NpcTypeOK'
  BY <1>7 DEF DestroyBegins, Goto, Stages, Spawning, guestVars
<1>8. ASSUME NEW n \in Npcs, DestroyTakes(n) PROVE NpcTypeOK'
  <2>1. straddled' \subseteq Npcs
    BY <1>8 DEF DestroyTakes, Victim
  <2>2. eid[n] \in Eids
    BY <1>8 DEF DestroyTakes, HandsFull
  <2> QED BY <1>8, <2>1, <2>2 DEF DestroyTakes, Goto, Stages, Spawning, guestVars
<1>9. ASSUME NEW n \in Npcs, DestroyTells(n) PROVE NpcTypeOK'
  <2>1. eid[n] \in Eids
    BY <1>9 DEF DestroyTells, HandsFull
  <2>2. guestWire' \in Seq(NpcMsgs)
    BY <1>9, <2>1, NpcTells DEF DestroyTells
  <2> QED BY <1>9, <2>2 DEF DestroyTells, Goto, Stages, Spawning, npcHostVars
<1>10. CASE Flush \/ TickConnected \/ DrainsNpcs
  BY <1>10 DEF Flush, TickConnected, DrainsNpcs, spawnVars, guestVars
<1>11. CASE ClearsMap
  BY <1>11 DEF ClearsMap, MapCleared, spawnVars, guestVars
<1>12. CASE Comes \/ Goes
  <2>1. guestWire' = guestWire \/ guestWire' = <<>>
    BY <1>12 DEF Comes, Goes
  <2>2. guestWire \in Seq(NpcMsgs) /\ <<>> \in Seq(NpcMsgs)
    BY EmptySeq
  <2>3. guestWire' \in Seq(NpcMsgs)
    <3> HIDE DEF NpcTypeOK
    <3> QED BY <2>1, <2>2
  <2> QED BY <1>12, <2>3 DEF Comes, Goes, spawnVars, npcHostVars
<1>13. CASE Marks \/ OwnSpawn
  BY <1>13 DEF Marks, OwnSpawn, spawnVars, npcHostVars
<1>14. ASSUME guestWire # <<>>
       PROVE  Head(guestWire) \in NpcMsgs /\ Tail(guestWire) \in Seq(NpcMsgs)
  BY <1>14, TailElements
<1>15. CASE DropsSpawn
  BY <1>14, <1>15 DEF DropsSpawn, Arrived, spawnVars, npcHostVars
<1>16. CASE Unmirrors
  BY <1>14, <1>16 DEF Unmirrors, Arrived, spawnVars, npcHostVars
<1>17. CASE Mirrors
  <2>1. Tail(guestWire) \in Seq(NpcMsgs) /\ Head(guestWire).npc \in Npcs
    BY <1>14, <1>17 DEF Mirrors, GuestInv, NpcMsgs
  <2>2. mirror' \in [Eids -> Npcs \cup {NoNpc}]
    BY <1>17, <2>1 DEF Mirrors
  <2> QED BY <1>17, <2>1, <2>2 DEF Mirrors, spawnVars, npcHostVars
<1>18. CASE UNCHANGED npcVars
  BY <1>18 DEF npcVars, spawnVars, npcHostVars, guestVars
<1> QED
  BY <1>1, <1>2, <1>3, <1>4, <1>5, <1>6, <1>7, <1>8, <1>9, <1>10, <1>11, <1>12,
     <1>13, <1>15, <1>16, <1>17, <1>18 DEF NpcNext

(* What the guest does is nothing to the host. *)
LEMMA NpcHostUnchanged ==
    ASSUME NpcHostInv, UNCHANGED <<stage, within, pendingNpc, eid, element, doomed, reverse,
                                   clearing, straddled>>
    PROVE  (PendingSpawns /\ HandsFull /\ DoomedThere /\ SpawnsOwn /\ MapHome)'
BY DEF NpcHostInv, PendingSpawns, HandsFull, DoomedThere, SpawnsOwn, MapHome, Owns

(* The release of the element in n's hands: it was n's own, or its owner   *)
(* is counted, or it is gone. *)
LEMMA NpcReleases ==
    ASSUME NpcTypeOK, NEW n \in Npcs, eid[n] \in Eids,
           straddled' = straddled \cup Victim(n),
           doomed' \subseteq doomed \cup {eid[n]}, UNCHANGED element,
           NEW k \in Npcs \ straddled', NEW e \in Eids, Owns(k, e), k # n
    PROVE  Owns(k, e)'
<1>1. e # eid[n]
  BY NpcAssumption DEF Victim, Owns
<1> QED BY <1>1 DEF Owns

LEMMA NpcHostSpawns ==
    ASSUME NpcHostInv, NEW n \in Npcs,
           \/ \E m \in Npcs : SpawnBegins(n, m)
           \/ Installs(n) \/ Broadcasts(n) \/ SpawnFails(n) \/ Looks(n) \/ Binds(n)
    PROVE  (PendingSpawns /\ HandsFull /\ DoomedThere /\ SpawnsOwn /\ MapHome)'
<1> USE NpcAssumption DEF NpcHostInv
<1>1. ASSUME NEW m \in Npcs, SpawnBegins(n, m)
      PROVE  (PendingSpawns /\ HandsFull /\ DoomedThere /\ SpawnsOwn /\ MapHome)'
  <2> USE <1>1 DEF SpawnBegins, Goto, npcHostVars, guestVars, NpcTypeOK
  <2>1. PendingSpawns'
    BY DEF PendingSpawns
  <2>2. HandsFull' /\ DoomedThere'
    BY DEF HandsFull, DoomedThere
  <2>3. SpawnsOwn' /\ MapHome'
    BY DEF HandsFull, SpawnsOwn, MapHome, Owns
  <2> QED BY <2>1, <2>2, <2>3
<1>2. CASE Installs(n)
  <2> USE DEF NpcTypeOK
  <2>1. CASE UNCHANGED <<element, eid, pendingNpc>> /\ Goto(n, "spawning")
    <3> USE <1>2, <2>1 DEF Installs, Goto, guestVars
    <3>1. PendingSpawns'
      BY DEF PendingSpawns
    <3>2. HandsFull' /\ DoomedThere'
      BY DEF HandsFull, DoomedThere
    <3>3. SpawnsOwn' /\ MapHome'
      BY DEF HandsFull, SpawnsOwn, MapHome, Owns
    <3> QED BY <3>1, <3>2, <3>3
  <2>2. ASSUME NEW e \in Eids, element[e] = NoNpc, Goto(n, "installed"),
               element' = [element EXCEPT ![e] = n], eid' = [eid EXCEPT ![n] = e],
               pendingNpc' = [pendingNpc EXCEPT ![within[n]] = n]
        PROVE  (PendingSpawns /\ HandsFull /\ DoomedThere /\ SpawnsOwn /\ MapHome)'
    <3>0. /\ stage[n] = "asked" /\ e \notin doomed
          /\ stage' = [stage EXCEPT ![n] = "installed"]
          /\ UNCHANGED <<within, doomed, reverse, clearing, straddled>>
      BY <1>2, <2>2 DEF Installs, DoomedThere, Goto
    <3>1. PendingSpawns'
      BY <3>0, <2>2 DEF PendingSpawns
    <3>2. HandsFull'
      BY <3>0, <2>2 DEF HandsFull
    <3>3. DoomedThere'
      BY <3>0, <2>2 DEF DoomedThere
    <3>4. Owns(n, e)' /\ \A k \in Npcs, x \in Eids : Owns(k, x) => Owns(k, x)'
      BY <3>0, <2>2 DEF Owns
    <3> HIDE DEF Owns
    <3>5. SpawnsOwn'
      BY <3>0, <3>4, <2>2 DEF SpawnsOwn
    <3>6. MapHome'
      BY <3>0, <3>4, <2>2 DEF MapHome, HandsFull
    <3> QED BY <3>1, <3>2, <3>3, <3>5, <3>6
  <2> QED BY <1>2, <2>1, <2>2 DEF Installs
<1>3. CASE Broadcasts(n)
  <2> USE <1>3 DEF Broadcasts, Goto, npcHostVars, NpcTypeOK
  <2>1. PendingSpawns'
    BY DEF PendingSpawns
  <2>2. HandsFull' /\ DoomedThere'
    BY DEF HandsFull, DoomedThere
  <2>3. SpawnsOwn' /\ MapHome'
    BY DEF HandsFull, SpawnsOwn, MapHome, Owns
  <2> QED BY <2>1, <2>2, <2>3
<1>4. CASE SpawnFails(n)
  <2>0. /\ stage[n] = "spawning" /\ stage' = [stage EXCEPT ![n] = "dead"]
        /\ UNCHANGED <<within, eid, element, reverse, clearing>>
        /\ straddled' = straddled \cup Victim(n)
    BY <1>4 DEF SpawnFails, Goto
  <2>1. /\ MatchesPending(n) =>
             /\ pendingNpc' = [pendingNpc EXCEPT ![within[n]] = NoNpc]
             /\ doomed' = doomed \cup {e \in Eids : e = eid[n] /\ element[e] # NoNpc}
        /\ ~ MatchesPending(n) => pendingNpc' = pendingNpc /\ doomed' = doomed
    BY <1>4 DEF SpawnFails, NpcTypeOK
  <2>2. PendingSpawns'
    BY <2>0, <2>1 DEF PendingSpawns, MatchesPending, NpcTypeOK
  <2>3. HandsFull'
    BY <2>0 DEF HandsFull, NpcTypeOK
  <2>4. DoomedThere'
    BY <2>0, <2>1 DEF DoomedThere
  <2>5. ASSUME NEW k \in Npcs \ straddled', k # n, NEW e \in Eids, Owns(k, e)
        PROVE  Owns(k, e)'
    <3>1. CASE MatchesPending(n)
      <4>1. eid[n] \in Eids
        BY <3>1 DEF MatchesPending, PendingSpawns, NpcTypeOK
      <4> QED BY <4>1, <3>1, <2>0, <2>1, <2>5, NpcReleases
    <3>2. CASE ~ MatchesPending(n)
      BY <3>2, <2>0, <2>1, <2>5 DEF Owns
    <3> QED BY <3>1, <3>2
  <2>6. SpawnsOwn'
    BY <2>0, <2>5 DEF SpawnsOwn, NpcTypeOK
  <2>7. MapHome'
    BY <2>0, <2>5 DEF MapHome, HandsFull, NpcTypeOK
  <2> QED BY <2>2, <2>3, <2>4, <2>6, <2>7
<1>5. CASE Looks(n)
  <2>0. /\ stage[n] = "spawning"
        /\ UNCHANGED <<within, element, doomed, reverse, clearing, straddled>>
    BY <1>5 DEF Looks, npcHostVars
  <2>1. CASE MatchesPending(n)
    <3>0. eid[n] # NoEid /\ pendingNpc[within[n]] = n
      BY <2>1 DEF MatchesPending, PendingSpawns, NpcTypeOK
    <3>1. /\ pendingNpc' = [pendingNpc EXCEPT ![within[n]] = NoNpc]
          /\ eid' = eid
          /\ stage' = [stage EXCEPT ![n] =
                         IF element[eid[n]] # NoNpc /\ eid[n] \notin doomed
                         THEN "found" ELSE "alive"]
      <4>1. /\ pendingNpc' = [pendingNpc EXCEPT ![within[n]] = NoNpc]
            /\ eid' = [eid EXCEPT ![n] = eid[n]]
            /\ Goto(n, IF element[eid[n]] # NoNpc /\ eid[n] \notin doomed
                       THEN "found" ELSE "alive")
        BY <1>5, <2>1, <3>0 DEF Looks
      <4>2. eid' = eid
        BY <4>1 DEF NpcTypeOK
      <4> QED BY <4>1, <4>2 DEF Goto
    <3>2. PendingSpawns'
      BY <2>0, <3>0, <3>1 DEF PendingSpawns, NpcTypeOK
    <3>3. HandsFull' /\ DoomedThere'
      BY <2>0, <3>0, <3>1 DEF HandsFull, DoomedThere, NpcTypeOK
    <3>4. SpawnsOwn' /\ MapHome'
      BY <2>0, <3>0, <3>1 DEF SpawnsOwn, MapHome, HandsFull, Owns, NpcTypeOK
    <3> QED BY <3>2, <3>3, <3>4
  <2>2. CASE ~ MatchesPending(n)
    <3>1. /\ stage' = [stage EXCEPT ![n] = "alive"] /\ UNCHANGED <<eid, pendingNpc>>
      BY <1>5, <2>2 DEF Looks, Goto
    <3>2. PendingSpawns'
      BY <2>0, <2>2, <3>1 DEF PendingSpawns, MatchesPending, NpcTypeOK
    <3>3. HandsFull' /\ DoomedThere'
      BY <2>0, <3>1 DEF HandsFull, DoomedThere, NpcTypeOK
    <3>4. SpawnsOwn' /\ MapHome'
      BY <2>0, <3>1 DEF SpawnsOwn, MapHome, HandsFull, Owns, NpcTypeOK
    <3> QED BY <3>2, <3>3, <3>4
  <2> QED BY <2>1, <2>2
<1>6. CASE Binds(n)
  <2> USE <1>6 DEF Binds, Goto, guestVars, NpcTypeOK
  <2>1. PendingSpawns'
    BY DEF PendingSpawns
  <2>2. HandsFull' /\ DoomedThere'
    BY DEF HandsFull, DoomedThere
  <2>3. SpawnsOwn' /\ MapHome'
    BY DEF HandsFull, SpawnsOwn, MapHome, Owns
  <2> QED BY <2>1, <2>2, <2>3
<1> QED BY <1>1, <1>2, <1>3, <1>4, <1>5, <1>6

LEMMA NpcHostDestroys ==
    ASSUME NpcHostInv, NEW n \in Npcs,
           DestroyBegins(n) \/ DestroyTakes(n) \/ DestroyTells(n)
    PROVE  (PendingSpawns /\ HandsFull /\ DoomedThere /\ SpawnsOwn /\ MapHome)'
<1> USE NpcAssumption DEF NpcHostInv
<1>1. CASE DestroyBegins(n)
  <2> USE <1>1 DEF DestroyBegins, Goto, guestVars, NpcTypeOK
  <2>1. PendingSpawns'
    BY DEF PendingSpawns
  <2>2. HandsFull' /\ DoomedThere'
    BY DEF HandsFull, DoomedThere
  <2>3. SpawnsOwn'
    BY DEF HandsFull, SpawnsOwn, Owns
  <2>4. MapHome'
    BY DEF HandsFull, MapHome, Owns
  <2> QED BY <2>1, <2>2, <2>3, <2>4
<1>2. CASE DestroyTakes(n)
  <2>0. /\ stage[n] = "dying" /\ stage' = [stage EXCEPT ![n] = "taken"]
        /\ UNCHANGED <<within, pendingNpc, eid, element, reverse, clearing>>
        /\ straddled' = straddled \cup Victim(n)
        /\ doomed' = IF element[eid[n]] # NoNpc THEN doomed \cup {eid[n]} ELSE doomed
        /\ eid[n] \in Eids
    BY <1>2 DEF DestroyTakes, Goto, HandsFull, NpcTypeOK
  <2>1. PendingSpawns'
    BY <2>0 DEF PendingSpawns, NpcTypeOK
  <2>2. HandsFull'
    BY <2>0 DEF HandsFull, NpcTypeOK
  <2>3. DoomedThere'
    BY <2>0 DEF DoomedThere
  <2>4. ASSUME NEW k \in Npcs \ straddled', k # n, NEW e \in Eids, Owns(k, e)
        PROVE  Owns(k, e)'
    BY <2>0, <2>4, NpcReleases
  <2>5. SpawnsOwn'
    BY <2>0, <2>4 DEF SpawnsOwn, NpcTypeOK
  <2>6. MapHome'
    BY <2>0, <2>4 DEF MapHome, HandsFull, NpcTypeOK
  <2> QED BY <2>1, <2>2, <2>3, <2>5, <2>6
<1>3. CASE DestroyTells(n)
  <2> USE <1>3 DEF DestroyTells, Goto, npcHostVars, NpcTypeOK
  <2>1. PendingSpawns'
    BY DEF PendingSpawns
  <2>2. HandsFull' /\ DoomedThere'
    BY DEF HandsFull, DoomedThere
  <2>3. SpawnsOwn' /\ MapHome'
    BY DEF HandsFull, SpawnsOwn, MapHome, Owns
  <2> QED BY <2>1, <2>2, <2>3
<1> QED BY <1>1, <1>2, <1>3

LEMMA NpcHostKept ==
    NpcInv /\ [NpcNext]_npcVars => NpcHostInv'
<1> SUFFICES ASSUME NpcInv, [NpcNext]_npcVars
             PROVE  (PendingSpawns /\ HandsFull /\ DoomedThere /\ SpawnsOwn /\ MapHome)'
  BY NpcTyped DEF NpcHostInv
<1> USE DEF NpcInv
<1>1. ASSUME NEW n \in Npcs,
             \/ \E m \in Npcs : SpawnBegins(n, m)
             \/ Installs(n) \/ Broadcasts(n) \/ SpawnFails(n) \/ Looks(n) \/ Binds(n)
      PROVE  (PendingSpawns /\ HandsFull /\ DoomedThere /\ SpawnsOwn /\ MapHome)'
  BY <1>1, NpcHostSpawns
<1>2. ASSUME NEW n \in Npcs, DestroyBegins(n) \/ DestroyTakes(n) \/ DestroyTells(n)
      PROVE  (PendingSpawns /\ HandsFull /\ DoomedThere /\ SpawnsOwn /\ MapHome)'
  BY <1>2, NpcHostDestroys
<1>3. CASE Flush
  <2>1. /\ doomed' = {} /\ UNCHANGED <<stage, within, pendingNpc, eid, reverse, clearing, straddled>>
        /\ element' = [e \in Eids |-> IF e \in doomed THEN NoNpc ELSE element[e]]
    BY <1>3 DEF Flush, spawnVars
  <2>2. \A k \in Npcs, e \in Eids : Owns(k, e) => Owns(k, e)'
    BY <2>1 DEF Owns
  <2>3. PendingSpawns' /\ HandsFull' /\ DoomedThere'
    BY <2>1 DEF NpcHostInv, PendingSpawns, HandsFull, DoomedThere
  <2>4. SpawnsOwn' /\ MapHome'
    BY <2>1, <2>2 DEF NpcHostInv, SpawnsOwn, MapHome, HandsFull, NpcTypeOK
  <2> QED BY <2>3, <2>4
<1>4. CASE DrainsNpcs
  <2>1. /\ clearing' = TRUE /\ UNCHANGED <<stage, within, pendingNpc, eid, reverse, doomed>>
        /\ element' = [e \in Eids |-> IF e \in doomed THEN element[e] ELSE NoNpc]
        /\ straddled' = straddled \cup
             {n \in Npcs : stage[n] \in Spawning \cup {"dying", "taken"}}
    BY <1>4 DEF DrainsNpcs, spawnVars
  <2>2. PendingSpawns' /\ HandsFull'
    BY <2>1 DEF NpcHostInv, PendingSpawns, HandsFull
  <2>3. DoomedThere'
    BY <2>1 DEF NpcHostInv, DoomedThere, NpcTypeOK
  <2>4. SpawnsOwn' /\ MapHome'
    BY <2>1 DEF SpawnsOwn, MapHome, Spawning
  <2> QED BY <2>2, <2>3, <2>4
<1>5. CASE ClearsMap
  <2>1. /\ UNCHANGED <<stage, within, pendingNpc, eid, element, doomed>>
        /\ reverse' = [n \in Npcs |-> NoEid] /\ straddled \subseteq straddled'
        /\ \A n \in Npcs : stage[n] = "dying" => n \in straddled'
    BY <1>5 DEF ClearsMap, MapCleared, spawnVars
  <2>2. PendingSpawns' /\ HandsFull' /\ DoomedThere'
    BY <2>1 DEF NpcHostInv, PendingSpawns, HandsFull, DoomedThere
  <2>3. SpawnsOwn' /\ MapHome'
    BY <2>1 DEF NpcHostInv, SpawnsOwn, MapHome, Owns
  <2> QED BY <2>2, <2>3
<1>6. CASE TickConnected \/ Comes \/ Goes \/ Marks \/ DropsSpawn \/ Mirrors \/ OwnSpawn
           \/ Unmirrors \/ UNCHANGED npcVars
  <2>1. UNCHANGED <<stage, within, pendingNpc, eid, element, doomed, reverse, clearing, straddled>>
    BY <1>6 DEF TickConnected, Comes, Goes, Marks, DropsSpawn, Mirrors, OwnSpawn,
                Unmirrors, npcVars, spawnVars, npcHostVars
  <2> QED BY <2>1, NpcHostUnchanged
<1> QED BY <1>1, <1>2, <1>3, <1>4, <1>5, <1>6 DEF NpcNext

-----------------------------------------------------------------------------
(* NPCs: the client, and what it has been told. *)

LEMMA NpcGuestKept == NpcInv /\ [NpcNext]_npcVars => GuestInv'
<1> SUFFICES ASSUME NpcInv, [NpcNext]_npcVars PROVE GuestInv'
  OBVIOUS
<1>0. NpcTypeOK /\ HandsFull /\ GuestInv
  BY DEF NpcInv, NpcHostInv
<1>1. ASSUME NEW kind \in {"EntitySpawn", "EntityDestroy"}, NEW n \in Npcs, NEW e \in Eids,
             Tell(kind, n, e), UNCHANGED <<guest, marking, mirror>>
      PROVE  GuestInv'
  <2>1. CASE ~ guest
    BY <2>1, <1>0, <1>1 DEF GuestInv, Tell
  <2>2. CASE guest
    <3>1. /\ guestWire \in Seq(NpcMsgs) /\ [kind |-> kind, eid |-> e, npc |-> n] \in NpcMsgs
          /\ guestWire' = Append(guestWire, [kind |-> kind, eid |-> e, npc |-> n])
      BY <1>0, <1>1, <2>2, NpcTells DEF NpcTypeOK
    <3>2. guestWire # <<>> => guestWire' # <<>> /\ Head(guestWire') = Head(guestWire)
      BY <3>1
    <3> QED BY <2>2, <3>2, <1>0, <1>1 DEF GuestInv
  <2> QED BY <2>1, <2>2
<1>2. ASSUME NEW n \in Npcs, Broadcasts(n) \/ DestroyTells(n) PROVE GuestInv'
  <2>1. eid[n] \in Eids
    BY <1>0, <1>2, NpcAssumption DEF Broadcasts, DestroyTells, HandsFull, NpcTypeOK
  <2> QED BY <2>1, <1>1, <1>2 DEF Broadcasts, DestroyTells
<1>3. ASSUME UNCHANGED <<guest, marking, mirror, guestWire>> PROVE GuestInv'
  BY <1>0, <1>3 DEF GuestInv
<1>4. ASSUME NEW n \in Npcs, NEW m \in Npcs,
             \/ SpawnBegins(n, m) \/ Installs(n) \/ SpawnFails(n) \/ Looks(n) \/ Binds(n)
             \/ DestroyBegins(n) \/ DestroyTakes(n)
      PROVE  GuestInv'
  <2>1. UNCHANGED guestVars
    BY <1>4 DEF SpawnBegins, Installs, SpawnFails, Looks, Binds, DestroyBegins, DestroyTakes
  <2> QED BY <2>1, <1>3 DEF guestVars
<1>5. CASE Flush \/ TickConnected \/ DrainsNpcs \/ ClearsMap \/ OwnSpawn \/ UNCHANGED npcVars
  <2>1. UNCHANGED <<guest, marking, mirror, guestWire>>
    BY <1>5 DEF Flush, TickConnected, DrainsNpcs, ClearsMap, OwnSpawn, npcVars, guestVars
  <2> QED BY <2>1, <1>3
<1>6. CASE Comes
  BY <1>0, <1>6 DEF Comes, GuestInv
<1>7. CASE Goes
  BY <1>7 DEF Goes, GuestInv
<1>8. CASE Marks
  BY <1>0, <1>8 DEF Marks, Arrived, GuestInv
<1>9. CASE DropsSpawn \/ Unmirrors
  <2>1. guest' /\ ~ marking'
    <3>1. CASE DropsSpawn
      BY <3>1 DEF DropsSpawn, Arrived
    <3>2. CASE Unmirrors
      BY <3>2, <1>0 DEF Unmirrors, Arrived, GuestInv
    <3> QED BY <1>9, <3>1, <3>2
  <2> QED BY <2>1 DEF GuestInv
<1>10. CASE Mirrors
  BY <1>0, <1>10 DEF Mirrors, GuestInv
<1> QED BY <1>2, <1>4, <1>5, <1>6, <1>7, <1>8, <1>9, <1>10 DEF NpcNext

(* Nobody is told, and whoever has been told of is not disturbed. *)
LEMMA NpcToldUnchanged ==
    ASSUME ToldInv, UNCHANGED <<guestWire, mirror>>,
           \A n \in Npcs \ (straddled' \cup unclaimed') : \A e \in Eids :
               /\ n \notin straddled \cup unclaimed
               /\ ToldOf(e, n) /\ InHand(e, n) =>
                     InHand(e, n)' /\ (stage'[n] = "dead" => stage[n] = "dead")
    PROVE  ToldInv'
<1> SUFFICES ASSUME NEW n \in Npcs \ (straddled' \cup unclaimed'), NEW e \in Eids,
                    ToldOf(e, n)'
             PROVE  InHand(e, n)' /\ (stage'[n] = "dead" => Withdraws(guestWire', e, n))
  BY DEF ToldInv
<1>1. ToldOf(e, n)
  BY DEF ToldOf
<1>2. InHand(e, n) /\ (stage[n] = "dead" => Withdraws(guestWire, e, n))
  BY <1>1 DEF ToldInv
<1> QED BY <1>1, <1>2

(* What the guest knows shrinks, or becomes what it is about to know. *)
LEMMA NpcToldTaken ==
    ASSUME NpcInv, guestWire # <<>>, guestWire' = Tail(guestWire),
           UNCHANGED <<stage, eid, element, doomed, reverse, straddled, unclaimed>>,
           \A e \in Eids :
               \/ mirror'[e] \in {mirror[e], NoNpc}
               \/ /\ Head(guestWire).kind = "EntitySpawn" /\ Head(guestWire).eid = e
                  /\ mirror'[e] = Head(guestWire).npc,
           Head(guestWire).kind = "EntityDestroy" => mirror'[Head(guestWire).eid] = NoNpc
    PROVE  ToldInv'
<1> SUFFICES ASSUME NEW n \in Npcs \ (straddled \cup unclaimed), NEW e \in Eids, ToldOf(e, n)'
             PROVE  InHand(e, n)' /\ (stage[n] = "dead" => Withdraws(guestWire', e, n))
  BY DEF ToldInv
<1>1. guestWire \in Seq(NpcMsgs) /\ ToldInv
  BY DEF NpcInv, NpcHostInv, NpcTypeOK
<1>2. /\ Head(guestWire) \in NpcMsgs
      /\ Announces(guestWire', e, n) => Announces(guestWire, e, n)
      /\ Head(guestWire).kind = "EntitySpawn" /\ Head(guestWire).eid = e
             /\ Head(guestWire).npc = n => Announces(guestWire, e, n)
  BY <1>1, NpcTailed
<1>3. /\ Withdraws(guestWire, e, n)
      /\ Announces(guestWire', e, n) \/ Head(guestWire).kind = "EntitySpawn" \/ Head(guestWire).eid # e
      => Withdraws(guestWire', e, n)
  BY <1>1, NpcTailed
<1>4. n # NoNpc
  BY NpcAssumption
<1>5. ToldOf(e, n)
  BY <1>2, <1>4 DEF ToldOf
<1>6. InHand(e, n) /\ (stage[n] = "dead" => Withdraws(guestWire, e, n))
  BY <1>1, <1>5 DEF ToldInv
<1>7. InHand(e, n)'
  BY <1>6 DEF InHand, Owns
<1>8. Announces(guestWire', e, n) \/ Head(guestWire).kind = "EntitySpawn" \/ Head(guestWire).eid # e
  <2>1. ASSUME Head(guestWire).kind # "EntitySpawn", Head(guestWire).eid = e
        PROVE  Announces(guestWire', e, n)
    BY <2>1, <1>2, <1>4 DEF ToldOf, NpcMsgs
  <2> QED BY <2>1
<1> QED BY <1>3, <1>6, <1>7, <1>8

LEMMA NpcToldSpawns ==
    ASSUME NpcInv, NEW n \in Npcs,
           \/ \E m \in Npcs : SpawnBegins(n, m)
           \/ Installs(n) \/ Broadcasts(n) \/ SpawnFails(n) \/ Looks(n) \/ Binds(n)
    PROVE  ToldInv'
<1> USE NpcAssumption
<1>0. NpcTypeOK /\ PendingSpawns /\ HandsFull /\ DoomedThere /\ SpawnsOwn /\ ToldInv
  BY DEF NpcInv, NpcHostInv
<1>1. ASSUME NEW m \in Npcs, SpawnBegins(n, m) PROVE ToldInv'
  <2>1. /\ stage[n] = "unborn" /\ \A k \in Npcs : k # n => stage'[k] = stage[k]
        /\ UNCHANGED <<eid, element, doomed, reverse, guestWire, mirror, straddled, unclaimed>>
    BY <1>0, <1>1 DEF SpawnBegins, Goto, npcHostVars, guestVars, NpcTypeOK
  <2>2. \A k \in Npcs, e \in Eids : InHand(e, k) =>
            InHand(e, k)' /\ (stage'[k] = "dead" => stage[k] = "dead")
    BY <2>1 DEF InHand, Owns
  <2> QED BY <1>0, <2>1, <2>2, NpcToldUnchanged
<1>2. CASE Installs(n)
  <2>1. /\ stage[n] = "asked" /\ \A k \in Npcs : k # n => stage'[k] = stage[k] /\ eid'[k] = eid[k]
        /\ \A e \in Eids, k \in Npcs : element[e] = k => element'[e] = k
        /\ UNCHANGED <<doomed, reverse, guestWire, mirror, straddled, unclaimed>>
    BY <1>0, <1>2 DEF Installs, Goto, guestVars, NpcTypeOK
  <2>2. \A k \in Npcs, e \in Eids : InHand(e, k) =>
            InHand(e, k)' /\ (stage'[k] = "dead" => stage[k] = "dead")
    BY <2>1 DEF InHand, Owns
  <2> QED BY <1>0, <2>1, <2>2, NpcToldUnchanged
<1>3. CASE Broadcasts(n)
  <2>1. /\ stage[n] = "installed" /\ stage'[n] = "spawning" /\ eid[n] \in Eids
        /\ \A k \in Npcs : k # n => stage'[k] = stage[k]
        /\ Tell("EntitySpawn", n, eid[n])
        /\ UNCHANGED <<eid, element, doomed, reverse, mirror, straddled, unclaimed>>
    BY <1>0, <1>3 DEF Broadcasts, Goto, npcHostVars, NpcTypeOK, HandsFull
  <2> DEFINE msg == [kind |-> "EntitySpawn", eid |-> eid[n], npc |-> n]
  <2>2. /\ msg \in NpcMsgs /\ guestWire \in Seq(NpcMsgs)
        /\ msg.kind = "EntitySpawn" /\ msg.eid = eid[n] /\ msg.npc = n
        /\ guestWire' = Append(guestWire, msg) \/ guestWire' = guestWire
    BY <1>0, <2>1, NpcTells DEF NpcTypeOK
  <2> HIDE DEF msg
  <2> SUFFICES ASSUME NEW k \in Npcs \ (straddled \cup unclaimed), NEW e \in Eids, ToldOf(e, k)'
               PROVE  InHand(e, k)' /\ (stage'[k] = "dead" => Withdraws(guestWire', e, k))
    BY <2>1 DEF ToldInv
  <2>3. /\ Announces(Append(guestWire, msg), e, k) <=>
              Announces(guestWire, e, k) \/ (eid[n] = e /\ k = n)
        /\ Withdraws(guestWire, e, k) /\ k # n => Withdraws(Append(guestWire, msg), e, k)
    BY <2>2, NpcAppended
  <2>4. CASE k = n
    <3>1. ~ ToldOf(e, n)
      BY <1>0, <2>1, <2>4 DEF ToldInv, InHand
    <3>2. e = eid[n]
      BY <2>1, <2>2, <2>4, <3>1, <2>3 DEF ToldOf
    <3> QED BY <2>1, <2>4, <3>2 DEF InHand
  <2>5. CASE k # n
    <3>1. ToldOf(e, k) /\ (Withdraws(guestWire, e, k) => Withdraws(guestWire', e, k))
      BY <2>1, <2>2, <2>5, <2>3 DEF ToldOf
    <3>2. InHand(e, k) /\ (stage[k] = "dead" => Withdraws(guestWire, e, k))
      BY <1>0, <3>1 DEF ToldInv
    <3> QED BY <2>1, <2>5, <3>1, <3>2 DEF InHand, Owns
  <2> QED BY <2>4, <2>5
<1>4. CASE SpawnFails(n)
  <2>1. /\ \A k \in Npcs : k # n => stage'[k] = stage[k]
        /\ UNCHANGED <<eid, element, reverse, guestWire, mirror>>
        /\ straddled' = straddled \cup Victim(n) /\ unclaimed' = unclaimed \cup {n}
        /\ MatchesPending(n) => doomed' \subseteq doomed \cup {eid[n]}
        /\ ~ MatchesPending(n) => doomed' = doomed
    BY <1>0, <1>4 DEF SpawnFails, Goto, guestVars, NpcTypeOK
  <2>2. ASSUME NEW k \in Npcs \ straddled', k # n, NEW e \in Eids, Owns(k, e)
        PROVE  Owns(k, e)'
    <3>1. CASE MatchesPending(n)
      <4>1. eid[n] \in Eids
        BY <1>0, <3>1 DEF MatchesPending, PendingSpawns, NpcTypeOK
      <4> QED BY <1>0, <4>1, <3>1, <2>1, <2>2, NpcReleases
    <3>2. CASE ~ MatchesPending(n)
      BY <3>2, <2>1, <2>2 DEF Owns
    <3> QED BY <3>1, <3>2
  <2>3. \A k \in Npcs \ (straddled' \cup unclaimed') : \A e \in Eids :
            /\ k \notin straddled \cup unclaimed
            /\ InHand(e, k) => InHand(e, k)' /\ (stage'[k] = "dead" => stage[k] = "dead")
    BY <2>1, <2>2 DEF InHand
  <2> QED BY <1>0, <2>1, <2>3, NpcToldUnchanged
<1>5. CASE Looks(n)
  <2>1. /\ stage[n] = "spawning" /\ \A k \in Npcs : k # n => stage'[k] = stage[k] /\ eid'[k] = eid[k]
        /\ UNCHANGED <<element, doomed, reverse, guestWire, mirror, straddled>>
        /\ Orphaned(n) => n \in unclaimed'
        /\ unclaimed \subseteq unclaimed'
    BY <1>0, <1>5 DEF Looks, Goto, npcHostVars, guestVars, NpcTypeOK
  <2>2. ASSUME n \notin straddled' \cup unclaimed', NEW e \in Eids, ToldOf(e, n), InHand(e, n)
        PROVE  InHand(e, n)' /\ (stage'[n] = "dead" => stage[n] = "dead")
    <3>1. eid[n] = e /\ eid[n] # NoEid
      BY <2>1, <2>2 DEF InHand
    <3>2. MatchesPending(n)
      BY <2>1, <2>2, <3>1 DEF Orphaned
    <3>3. element[e] = n /\ e \notin doomed
      BY <1>0, <2>1, <2>2, <3>1 DEF SpawnsOwn, Owns
    <3>4. eid'[n] = e
      BY <1>0, <1>5, <3>1, <3>2 DEF Looks, MatchesPending, NpcTypeOK
    <3>5. stage'[n] = "found"
      BY <1>0, <1>5, <3>1, <3>2, <3>3 DEF Looks, Goto, MatchesPending, NpcTypeOK
    <3> QED BY <3>4, <3>5 DEF InHand
  <2>3. \A k \in Npcs, e \in Eids : k # n /\ InHand(e, k) =>
            InHand(e, k)' /\ (stage'[k] = "dead" => stage[k] = "dead")
    BY <2>1 DEF InHand, Owns
  <2> QED BY <1>0, <2>1, <2>2, <2>3, NpcToldUnchanged
<1>6. CASE Binds(n)
  <2>1. /\ stage[n] = "found" /\ stage'[n] = "alive" /\ reverse'[n] = eid[n]
        /\ \A k \in Npcs : k # n => stage'[k] = stage[k] /\ reverse'[k] = reverse[k]
        /\ UNCHANGED <<eid, element, doomed, guestWire, mirror, straddled, unclaimed>>
    BY <1>0, <1>6 DEF Binds, Goto, guestVars, NpcTypeOK
  <2>2. ASSUME n \notin straddled, NEW e \in Eids, InHand(e, n)
        PROVE  InHand(e, n)' /\ (stage'[n] = "dead" => stage[n] = "dead")
    <3>1. eid[n] = e /\ Owns(n, e)
      BY <1>0, <2>1, <2>2 DEF InHand, SpawnsOwn
    <3> QED BY <2>1, <3>1 DEF InHand, Owns
  <2>3. \A k \in Npcs, e \in Eids : k # n /\ InHand(e, k) =>
            InHand(e, k)' /\ (stage'[k] = "dead" => stage[k] = "dead")
    BY <2>1 DEF InHand, Owns
  <2> QED BY <1>0, <2>1, <2>2, <2>3, NpcToldUnchanged
<1> QED BY <1>1, <1>2, <1>3, <1>4, <1>5, <1>6

LEMMA NpcToldDestroys ==
    ASSUME NpcInv, NEW n \in Npcs,
           DestroyBegins(n) \/ DestroyTakes(n) \/ DestroyTells(n)
    PROVE  ToldInv'
<1> USE NpcAssumption
<1>0. NpcTypeOK /\ HandsFull /\ GuestInv /\ ToldInv
  BY DEF NpcInv, NpcHostInv
<1>1. CASE DestroyBegins(n)
  <2>1. /\ stage[n] = "alive" /\ stage'[n] = IF reverse[n] = NoEid THEN "dead" ELSE "dying"
        /\ eid'[n] = reverse[n]
        /\ \A k \in Npcs : k # n => stage'[k] = stage[k] /\ eid'[k] = eid[k] /\ reverse'[k] = reverse[k]
        /\ UNCHANGED <<element, doomed, guestWire, mirror, straddled, unclaimed>>
    BY <1>0, <1>1 DEF DestroyBegins, Goto, guestVars, NpcTypeOK
  <2>2. \A e \in Eids : InHand(e, n) => InHand(e, n)' /\ stage'[n] # "dead"
    BY <2>1 DEF InHand
  <2>3. \A k \in Npcs, e \in Eids : k # n /\ InHand(e, k) =>
            InHand(e, k)' /\ (stage'[k] = "dead" => stage[k] = "dead")
    BY <2>1 DEF InHand, Owns
  <2> QED BY <1>0, <2>1, <2>2, <2>3, NpcToldUnchanged
<1>2. CASE DestroyTakes(n)
  <2>1. /\ stage[n] = "dying" /\ stage'[n] = "taken" /\ eid[n] \in Eids
        /\ \A k \in Npcs : k # n => stage'[k] = stage[k]
        /\ UNCHANGED <<eid, element, reverse, guestWire, mirror, unclaimed>>
        /\ straddled' = straddled \cup Victim(n)
        /\ doomed' \subseteq doomed \cup {eid[n]}
    BY <1>0, <1>2 DEF DestroyTakes, Goto, guestVars, HandsFull, NpcTypeOK
  <2>2. ASSUME NEW k \in Npcs \ straddled', k # n, NEW e \in Eids, Owns(k, e)
        PROVE  Owns(k, e)'
    BY <1>0, <2>1, <2>2, NpcReleases
  <2>3. \A k \in Npcs \ straddled' : \A e \in Eids :
            /\ k \notin straddled
            /\ InHand(e, k) => InHand(e, k)' /\ (stage'[k] = "dead" => stage[k] = "dead")
    BY <2>1, <2>2 DEF InHand
  <2> QED BY <1>0, <2>1, <2>3, NpcToldUnchanged
<1>3. CASE DestroyTells(n)
  <2>1. /\ stage[n] = "taken" /\ stage'[n] = "dead" /\ eid[n] \in Eids
        /\ \A k \in Npcs : k # n => stage'[k] = stage[k]
        /\ Tell("EntityDestroy", n, eid[n])
        /\ UNCHANGED <<eid, element, doomed, reverse, mirror, straddled, unclaimed>>
    BY <1>0, <1>3 DEF DestroyTells, Goto, npcHostVars, NpcTypeOK, HandsFull
  <2> DEFINE msg == [kind |-> "EntityDestroy", eid |-> eid[n], npc |-> n]
  <2>2. /\ msg \in NpcMsgs /\ guestWire \in Seq(NpcMsgs)
        /\ msg.kind = "EntityDestroy" /\ msg.eid = eid[n] /\ msg.npc = n
        /\ \/ guestWire' = Append(guestWire, msg)
           \/ ~ guest /\ guestWire' = guestWire
    BY <1>0, <2>1, NpcTells DEF NpcTypeOK
  <2> HIDE DEF msg
  <2> SUFFICES ASSUME NEW k \in Npcs \ (straddled \cup unclaimed), NEW e \in Eids, ToldOf(e, k)'
               PROVE  InHand(e, k)' /\ (stage'[k] = "dead" => Withdraws(guestWire', e, k))
    BY <2>1 DEF ToldInv
  <2>3. ToldOf(e, k) /\ guestWire' = Append(guestWire, msg)
    <3>0. Announces(Append(guestWire, msg), e, k) <=> Announces(guestWire, e, k)
      BY <2>2, NpcAppended
    <3>1. ToldOf(e, k)
      BY <2>1, <2>2, <3>0 DEF ToldOf
    <3>2. guest
      BY <1>0, <3>1 DEF GuestInv, ToldOf, Announces
    <3> QED BY <3>1, <3>2, <2>2
  <2>4. InHand(e, k) /\ (stage[k] = "dead" => Withdraws(guestWire, e, k))
    BY <1>0, <2>3 DEF ToldInv
  <2>5. Withdraws(guestWire, e, k) => Withdraws(guestWire', e, k)
    BY <2>2, <2>3, NpcAppended
  <2>6. CASE k = n
    <3>1. e = eid[n]
      BY <2>1, <2>4, <2>6 DEF InHand
    <3>2. Withdraws(guestWire', e, k)
      BY <2>2, <2>3, <3>1, NpcAppended
    <3> QED BY <2>1, <2>6, <3>2 DEF InHand
  <2>7. CASE k # n
    BY <2>1, <2>4, <2>5, <2>7 DEF InHand, Owns
  <2> QED BY <2>6, <2>7
<1> QED BY <1>1, <1>2, <1>3

LEMMA NpcToldKept == NpcInv /\ [NpcNext]_npcVars => ToldInv'
<1> SUFFICES ASSUME NpcInv, [NpcNext]_npcVars PROVE ToldInv'
  OBVIOUS
<1> USE NpcAssumption
<1>0. NpcTypeOK /\ HandsFull /\ GuestInv /\ ToldInv
  BY DEF NpcInv, NpcHostInv
<1>1. ASSUME NEW n \in Npcs,
             \/ \E m \in Npcs : SpawnBegins(n, m)
             \/ Installs(n) \/ Broadcasts(n) \/ SpawnFails(n) \/ Looks(n) \/ Binds(n)
      PROVE  ToldInv'
  BY <1>1, NpcToldSpawns
<1>2. ASSUME NEW n \in Npcs, DestroyBegins(n) \/ DestroyTakes(n) \/ DestroyTells(n)
      PROVE  ToldInv'
  BY <1>2, NpcToldDestroys
<1>3. CASE Flush
  <2>1. /\ doomed' = {} /\ \A e \in Eids : e \notin doomed => element'[e] = element[e]
        /\ UNCHANGED <<stage, eid, reverse, guestWire, mirror, straddled, unclaimed>>
    BY <1>3 DEF Flush, spawnVars, guestVars
  <2>2. \A k \in Npcs, e \in Eids : InHand(e, k) =>
            InHand(e, k)' /\ (stage'[k] = "dead" => stage[k] = "dead")
    BY <2>1 DEF InHand, Owns
  <2> QED BY <1>0, <2>1, <2>2, NpcToldUnchanged
<1>4. CASE DrainsNpcs
  <2>1. /\ ~ guest /\ UNCHANGED <<guestWire, mirror>>
    BY <1>4 DEF DrainsNpcs, guestVars
  <2>2. \A k \in Npcs, e \in Eids : ~ ToldOf(e, k)'
    BY <1>0, <2>1 DEF GuestInv, ToldOf, Announces
  <2> QED BY <2>2 DEF ToldInv
<1>5. CASE ClearsMap
  <2>1. /\ UNCHANGED <<stage, eid, element, doomed, guestWire, mirror, unclaimed>>
        /\ straddled \subseteq straddled'
        /\ \A n \in Npcs, e \in Eids : reverse[n] = e /\ element[e] = n => n \in straddled'
    BY <1>5 DEF ClearsMap, spawnVars, guestVars
  <2>2. \A k \in Npcs \ straddled' : \A e \in Eids : InHand(e, k) => InHand(e, k)'
    BY <2>1 DEF InHand, Owns
  <2> QED BY <1>0, <2>1, <2>2, NpcToldUnchanged
<1>6. CASE Goes
  <2>1. \A k \in Npcs, e \in Eids : ~ ToldOf(e, k)'
    BY <1>6 DEF Goes, ToldOf, Announces
  <2> QED BY <2>1 DEF ToldInv
<1>7. CASE DropsSpawn \/ Unmirrors \/ Mirrors
  <2>1. /\ guestWire # <<>> /\ guestWire' = Tail(guestWire)
        /\ UNCHANGED <<stage, eid, element, doomed, reverse, straddled, unclaimed>>
    BY <1>0, <1>7 DEF DropsSpawn, Unmirrors, Mirrors, Arrived, GuestInv, spawnVars, npcHostVars
  <2>2. Head(guestWire) \in NpcMsgs
    BY <1>0, <2>1, TailElements DEF NpcTypeOK
  <2>3. CASE DropsSpawn
    BY <2>1, <2>3, NpcToldTaken DEF DropsSpawn, Arrived
  <2>4. CASE Unmirrors
    <3>1. /\ Head(guestWire).kind = "EntityDestroy" /\ Head(guestWire).eid \in Eids
          /\ mirror' = [mirror EXCEPT ![Head(guestWire).eid] = NoNpc]
      BY <2>2, <2>4 DEF Unmirrors, Arrived, NpcMsgs
    <3>2. \A e \in Eids : mirror'[e] = mirror[e] \/ mirror'[e] = NoNpc
      BY <1>0, <3>1 DEF NpcTypeOK
    <3>3. mirror'[Head(guestWire).eid] = NoNpc
      BY <1>0, <3>1 DEF NpcTypeOK
    <3> QED BY <2>1, <3>1, <3>2, <3>3, NpcToldTaken
  <2>5. CASE Mirrors
    <3>1. /\ Head(guestWire).kind = "EntitySpawn"
          /\ \/ mirror' = mirror
             \/ mirror' = [mirror EXCEPT ![Head(guestWire).eid] = Head(guestWire).npc]
      BY <1>0, <2>5 DEF Mirrors, GuestInv
    <3>2. \A e \in Eids : mirror'[e] = mirror[e] \/ (Head(guestWire).eid = e
                                /\ mirror'[e] = Head(guestWire).npc)
      BY <1>0, <3>1 DEF NpcTypeOK
    <3> QED BY <2>1, <3>1, <3>2, NpcToldTaken
  <2> QED BY <1>7, <2>3, <2>4, <2>5
<1>8. CASE TickConnected \/ Comes \/ Marks \/ OwnSpawn \/ UNCHANGED npcVars
  <2>1. UNCHANGED <<stage, eid, element, doomed, reverse, guestWire, mirror, straddled, unclaimed>>
    BY <1>8 DEF TickConnected, Comes, Marks, OwnSpawn, npcVars, spawnVars, npcHostVars, guestVars
  <2>2. \A k \in Npcs, e \in Eids : InHand(e, k) => InHand(e, k)'
    BY <2>1 DEF InHand, Owns
  <2> QED BY <1>0, <2>1, <2>2, NpcToldUnchanged
<1> QED BY <1>1, <1>2, <1>3, <1>4, <1>5, <1>6, <1>7, <1>8 DEF NpcNext

-----------------------------------------------------------------------------
(* NPCs: the theorems. *)

(* The invariant holds in every behaviour of the host and its one client.  *)
THEOREM NpcInvariance == NpcSpec => []NpcInv
<1>1. NpcInit => NpcInv
  BY NpcInitInv
<1>2. NpcInv /\ [NpcNext]_npcVars => NpcInv'
  BY NpcHostKept, NpcGuestKept, NpcToldKept DEF NpcInv
<1> QED BY <1>1, <1>2, PTL DEF NpcSpec

(* npc_sync.cpp's reverse map, and the id a destruction has taken from it, *)
(* lead to the actor's own element, for any number of NPCs and ids, except *)
(* for those whose dispatches a disconnect ran into. *)
THEOREM MapAlwaysPointsHome == NpcSpec => []MapPointsHome
<1>1. NpcInv => MapPointsHome
  BY DEF NpcInv, NpcHostInv, MapHome, HandsFull, MapPointsHome, Owns
<1> QED BY <1>1, NpcInvariance, PTL

(* A client whose queue is empty has no mirror of an NPC that has died,    *)
(* but for those that OnDisconnect or a failed or nested spawn have lost.  *)
THEOREM NeverGhostNpcs == NpcSpec => []NoGhostNpcs
<1>1. NpcInv => NoGhostNpcs
  <2> SUFFICES ASSUME NpcInv, guestWire = <<>>, NEW e \in Eids,
                      mirror[e] \in Npcs \ (straddled \cup unclaimed),
                      stage[mirror[e]] = "dead"
               PROVE  FALSE
    BY DEF NoGhostNpcs
  <2>1. ToldOf(e, mirror[e])
    BY DEF ToldOf
  <2>2. Withdraws(guestWire, e, mirror[e])
    BY <2>1 DEF NpcInv, ToldInv
  <2> QED BY <2>2 DEF Withdraws
<1> QED BY <1>1, NpcInvariance, PTL

(* The last word on the weather in a queue, if there is one, is s.         *)
LastWord(queue, s) ==
    \A i \in DOMAIN queue :
        /\ queue[i].kind = "WeatherState"
        /\ \A j \in DOMAIN queue : j > i => queue[j].kind # "WeatherState"
        => queue[i].value = s

Speaks(queue) == \E i \in DOMAIN queue : queue[i].kind = "WeatherState"

(* The last weather that c was told is at one place: the end of its queue, *)
(* the stash, or the sky of the level, unless an event of its own game has *)
(* changed that since; and only a client that has not installed lets its   *)
(* own schedulers run, with what it has heard stashed. *)
KnowsLatest(c) ==
    /\ LastWord(wire[c], told[c])
    /\ heard[c] /\ ~ installed[c] => pending[c] # NoSky
    /\ ~ Speaks(wire[c]) /\ ~ raced[c] =>
          /\ pending[c] # NoSky => pending[c] = told[c]
          /\ pending[c] = NoSky /\ heard[c] /\ sky[c] # NoSky /\ ~ strayed[c] => sky[c] = told[c]

(* What was ever observed can be again: the engine's classes stay loaded.  *)
Observable ==
    {"sky", "redSpawn"} \cup (IF "redSky" \in hostLoaded THEN {"redSet"} ELSE {})
        \cup (IF "strike" \in hostLoaded THEN {"strike"} ELSE {})

ObserversInv ==
    /\ observing \subseteq Observable /\ everObserved \subseteq Observable
    /\ ~ hostInstalled => observing \subseteq {"sky"}
    /\ ObserversComeBack

WeatherInv == WeatherTypeOK /\ ObserversInv /\ \A c \in Clients : KnowsLatest(c)


-----------------------------------------------------------------------------
(* Weather: what more messages do to the last word.                        *)
LEMMA WordsJoined ==
    ASSUME NEW q \in Seq(WeatherMessages), NEW ms \in Seq(WeatherMessages), NEW r, r = q \o ms
    PROVE  /\ r \in Seq(WeatherMessages)
           /\ Speaks(r) <=> Speaks(q) \/ Speaks(ms)
           /\ \A s : ~ Speaks(ms) /\ LastWord(q, s) => LastWord(r, s)
           /\ \A s : Speaks(ms) /\ LastWord(ms, s) => LastWord(r, s)
<1>1. /\ r \in Seq(WeatherMessages) /\ Len(r) = Len(q) + Len(ms)
      /\ Len(q) \in Nat /\ Len(ms) \in Nat
      /\ DOMAIN q = 1 .. Len(q) /\ DOMAIN ms = 1 .. Len(ms) /\ DOMAIN r = 1 .. Len(r)
      /\ \A i \in 1 .. Len(q) : r[i] = q[i]
      /\ \A i \in 1 .. Len(ms) : r[Len(q) + i] = ms[i]
  BY ConcatProperties, LenProperties
<1>2. \A i \in DOMAIN r : \/ i \in DOMAIN q /\ r[i] = q[i]
                          \/ i - Len(q) \in DOMAIN ms /\ r[i] = ms[i - Len(q)]
  BY <1>1
<1>3. /\ \A i \in DOMAIN q : i \in DOMAIN r
      /\ \A i \in DOMAIN ms : Len(q) + i \in DOMAIN r
  BY <1>1
<1>4. Speaks(r) <=> Speaks(q) \/ Speaks(ms)
  BY <1>1, <1>2, <1>3 DEF Speaks
<1>5. ASSUME NEW s, ~ Speaks(ms), LastWord(q, s) PROVE LastWord(r, s)
  <2> SUFFICES ASSUME NEW i \in DOMAIN r, r[i].kind = "WeatherState",
                      \A j \in DOMAIN r : j > i => r[j].kind # "WeatherState"
               PROVE  r[i].value = s
    BY DEF LastWord
  <2>1. i \in DOMAIN q /\ r[i] = q[i]
    BY <1>2, <1>5 DEF Speaks
  <2>2. \A j \in DOMAIN q : j > i => q[j].kind # "WeatherState"
    BY <1>1, <1>3
  <2> QED BY <1>5, <2>1, <2>2 DEF LastWord
<1>6. ASSUME NEW s, Speaks(ms), LastWord(ms, s) PROVE LastWord(r, s)
  <2> SUFFICES ASSUME NEW i \in DOMAIN r, r[i].kind = "WeatherState",
                      \A j \in DOMAIN r : j > i => r[j].kind # "WeatherState"
               PROVE  r[i].value = s
    BY DEF LastWord
  <2>1. PICK n \in DOMAIN ms : ms[n].kind = "WeatherState"
    BY <1>6 DEF Speaks
  <2>2. ~ (Len(q) + n > i)
    BY <1>1, <1>3, <2>1
  <2>3. PICK k \in DOMAIN ms : k = i - Len(q) /\ r[i] = ms[k]
    BY <1>1, <1>2, <2>2
  <2>4. ASSUME NEW j \in DOMAIN ms, j > k PROVE ms[j].kind # "WeatherState"
    <3>1. Len(q) + j \in DOMAIN r /\ r[Len(q) + j] = ms[j]
      BY <1>1, <1>3
    <3>2. Len(q) + j > i
      BY <1>1, <2>3, <2>4
    <3> QED BY <3>1, <3>2
  <2> QED BY <1>6, <2>3, <2>4 DEF LastWord
<1> QED BY <1>1, <1>4, <1>5, <1>6

LEMMA OneWord ==
    ASSUME NEW s \in Skies
    PROVE  /\ WeatherMsg(s) \in WeatherMessages /\ <<WeatherMsg(s)>> \in Seq(WeatherMessages)
           /\ Speaks(<<WeatherMsg(s)>>) /\ LastWord(<<WeatherMsg(s)>>, s)
<1>1. WeatherMsg(s) \in WeatherMessages
  BY DEF WeatherMessages
<1> DEFINE m == WeatherMsg(s)
<1>2. m.kind = "WeatherState" /\ m.value = s
  BY DEF WeatherMsg
<1> HIDE DEF m
<1>3. Speaks(<<m>>) /\ LastWord(<<m>>, s) /\ <<m>> \in Seq({m})
  BY <1>2 DEF Speaks, LastWord
<1> QED BY <1>1, <1>3 DEF m

LEMMA NoWord ==
    /\ <<>> \in Seq(WeatherMessages) /\ ~ Speaks(<<>>)
    /\ <<StrikeMsg>> \in Seq(WeatherMessages) /\ ~ Speaks(<<StrikeMsg>>)
    /\ \A r \in {"red", "clear"} :
          <<RedSkyMsg(r)>> \in Seq(WeatherMessages) /\ ~ Speaks(<<RedSkyMsg(r)>>)
<1>1. <<>> \in Seq(WeatherMessages) /\ ~ Speaks(<<>>)
  BY EmptySeq DEF Speaks
<1>2. ASSUME NEW m \in WeatherMessages, m.kind # "WeatherState"
      PROVE  <<m>> \in Seq(WeatherMessages) /\ ~ Speaks(<<m>>)
  BY <1>2 DEF Speaks
<1>3. StrikeMsg \in WeatherMessages /\ StrikeMsg.kind # "WeatherState"
  BY DEF WeatherMessages, StrikeMsg
<1>4. ASSUME NEW r \in {"red", "clear"}
      PROVE  RedSkyMsg(r) \in WeatherMessages /\ RedSkyMsg(r).kind # "WeatherState"
  BY DEF WeatherMessages, RedSkyMsg
<1> HIDE DEF WeatherMessages
<1> QED BY <1>1, <1>2, <1>3, <1>4

LEMMA WordTaken ==
    ASSUME NEW q \in Seq(WeatherMessages), q # <<>>
    PROVE  /\ Head(q) \in WeatherMessages /\ Tail(q) \in Seq(WeatherMessages)
           /\ \A s : LastWord(q, s) => LastWord(Tail(q), s)
           /\ Speaks(q) <=> Head(q).kind = "WeatherState" \/ Speaks(Tail(q))
           /\ \A s : LastWord(q, s) /\ ~ Speaks(Tail(q)) /\ Head(q).kind = "WeatherState"
                     => Head(q).value = s
<1> DEFINE t == Tail(q)
<1>1. /\ Head(q) \in WeatherMessages /\ t \in Seq(WeatherMessages)
      /\ Head(q) = q[1] /\ 1 \in DOMAIN q
      /\ \A i \in DOMAIN t : i + 1 \in DOMAIN q /\ t[i] = q[i + 1]
  BY TailElements
<1>2. \A i \in DOMAIN q : i = 1 \/ (i - 1 \in DOMAIN t /\ t[i - 1] = q[i])
  <2>1. /\ Len(t) = Len(q) - 1 /\ Len(q) \in Nat
        /\ DOMAIN q = 1 .. Len(q) /\ DOMAIN t = 1 .. Len(t)
        /\ \A i \in 1 .. Len(t) : t[i] = q[i + 1]
    BY <1>1, HeadTailProperties, LenProperties
  <2> HIDE DEF t
  <2>2. ASSUME NEW i \in DOMAIN q, i # 1 PROVE i - 1 \in DOMAIN t /\ t[i - 1] = q[i]
    <3>1. i - 1 \in 1 .. Len(t)
      BY <2>1, <2>2
    <3>2. t[i - 1] = q[(i - 1) + 1]
      BY <2>1, <3>1
    <3> QED BY <2>1, <2>2, <3>1, <3>2
  <2> QED BY <2>2
<1>3. DOMAIN q \subseteq Nat /\ DOMAIN t \subseteq Nat /\ \A i \in DOMAIN t : i >= 1
  <2>1. DOMAIN q = 1 .. Len(q) /\ DOMAIN t = 1 .. Len(t) /\ Len(q) \in Nat /\ Len(t) \in Nat
    BY <1>1, LenProperties
  <2> QED BY <2>1
<1> HIDE DEF t
<1>4. ASSUME NEW s, LastWord(q, s) PROVE LastWord(t, s)
  <2> SUFFICES ASSUME NEW i \in DOMAIN t, t[i].kind = "WeatherState",
                      \A j \in DOMAIN t : j > i => t[j].kind # "WeatherState"
               PROVE  t[i].value = s
    BY DEF LastWord
  <2>1. i + 1 \in DOMAIN q /\ q[i + 1] = t[i]
    BY <1>1
  <2>2. \A j \in DOMAIN q : j > i + 1 => q[j].kind # "WeatherState"
    BY <1>2, <1>3
  <2> QED BY <1>4, <2>1, <2>2 DEF LastWord
<1>5. Speaks(q) <=> Head(q).kind = "WeatherState" \/ Speaks(t)
  <2>1. ASSUME Speaks(q) PROVE Head(q).kind = "WeatherState" \/ Speaks(t)
    <3>1. PICK i \in DOMAIN q : q[i].kind = "WeatherState"
      BY <2>1 DEF Speaks
    <3>2. CASE i = 1
      BY <1>1, <3>1, <3>2
    <3>3. CASE i - 1 \in DOMAIN t /\ t[i - 1] = q[i]
      BY <3>1, <3>3 DEF Speaks
    <3> QED BY <1>2, <3>2, <3>3
  <2>2. ASSUME Speaks(t) PROVE Speaks(q)
    <3>1. PICK i \in DOMAIN t : t[i].kind = "WeatherState"
      BY <2>2 DEF Speaks
    <3>2. i + 1 \in DOMAIN q /\ q[i + 1] = t[i]
      BY <1>1
    <3> QED BY <3>1, <3>2 DEF Speaks
  <2>3. Head(q).kind = "WeatherState" => Speaks(q)
    BY <1>1 DEF Speaks
  <2> QED BY <2>1, <2>2, <2>3
<1>6. ASSUME NEW s, LastWord(q, s), ~ Speaks(t), Head(q).kind = "WeatherState"
      PROVE  Head(q).value = s
  <2>1. \A j \in DOMAIN q : j > 1 => q[j].kind # "WeatherState"
    BY <1>2, <1>3, <1>6 DEF Speaks
  <2> QED BY <1>1, <1>6, <2>1 DEF LastWord
<1> QED BY <1>1, <1>4, <1>5, <1>6 DEF t


-----------------------------------------------------------------------------
(* Weather: the observers.                                                 *)
LEMMA ObserversKept ==
    WeatherTypeOK /\ ObserversInv /\ [WeatherNext]_weatherVars => ObserversInv'
<1> SUFFICES ASSUME WeatherTypeOK, ObserversInv, [WeatherNext]_weatherVars PROVE ObserversInv'
  OBVIOUS
<1> USE DEF ObserversInv, ObserversComeBack, Observable
<1>1. CASE HostTick
  <2> DEFINE dropped == seen # {} /\ ready = {}
             had == KeptObservers(dropped)
             stays == GoesOnInstalled(dropped)
  <2>1. /\ hostInstalled' = (stays \/ hostSky # NoSky)
        /\ observing' = IF stays \/ hostSky = NoSky THEN had ELSE InstalledObservers(had)
        /\ everObserved' = everObserved \cup observing'
        /\ hostLoaded' = hostLoaded
    BY <1>1 DEF HostTick
  <2>2. had \subseteq observing /\ (dropped => had \subseteq {"sky"}) /\ (~ dropped => had = observing)
    BY DEF KeptObservers
  <2>3. stays <=> hostInstalled /\ ~ dropped
    BY DEF GoesOnInstalled, WeatherTypeOK
  <2> HIDE DEF dropped, had, stays
  <2>4. CASE stays
    BY <2>1, <2>2, <2>3, <2>4
  <2>5. CASE ~ stays /\ hostSky = NoSky
    BY <2>1, <2>2, <2>3, <2>5
  <2>6. CASE ~ stays /\ hostSky # NoSky
    <3>1. had \subseteq {"sky"}
      BY <2>2, <2>3, <2>6
    <3>2. InstalledObservers(had) = Observable
      BY <3>1 DEF InstalledObservers, RedObservers, StrikeObserver
    <3> QED BY <2>1, <2>6, <3>2
  <2> QED BY <2>4, <2>5, <2>6
<1>2. CASE ~ HostTick
  <2>1. /\ hostInstalled' = hostInstalled /\ observing' = observing
        /\ everObserved' = everObserved /\ hostLoaded \subseteq hostLoaded'
    BY <1>2 DEF WeatherNext, weatherVars, hostVars, SkyChanges, ForceSnow, ForceRain, Observed,
       SkyChangesSilently, HostLoads, HostUnloads, SpawnRedSky, SetRedSky, ForceRedSky, Strike,
       Event, Join, Leave, ClientLoads, ClientUnloads, OwnSky, OwnEvent, ClientTick, TickBegins, TickEnds,
       HandleWeather, HandleRedSky, HandleStrike
  <2> QED BY <2>1
<1> QED BY <1>1, <1>2

-----------------------------------------------------------------------------
(* Weather: types. *)
HostTypeOK ==
    /\ hostSky \in Skies \cup {NoSky} /\ hostRed \in {"none", "red", "clear"}
    /\ hostLoaded \subseteq ContentClasses
    /\ hostInstalled \in BOOLEAN
    /\ observing \subseteq WeatherObservers
    /\ everObserved \subseteq WeatherObservers
    /\ lastSent \in Skies \cup {NoSky}

LinkTypeOK ==
    /\ ready \subseteq Clients /\ seen \subseteq Clients
    /\ wire \in [Clients -> Seq(WeatherMessages)]
    /\ told \in [Clients -> Skies \cup {NoSky}]

ClientTypeOK ==
    /\ sky \in [Clients -> Skies \cup {NoSky}]
    /\ red \in [Clients -> {"none", "red", "clear"}]
    /\ installed \in [Clients -> BOOLEAN]
    /\ pending \in [Clients -> Skies \cup {NoSky}]
    /\ busy \in [Clients -> BOOLEAN] /\ heard \in [Clients -> BOOLEAN]
    /\ raced \in [Clients -> BOOLEAN] /\ strayed \in [Clients -> BOOLEAN]

LEMMA TypeParts == WeatherTypeOK <=> HostTypeOK /\ LinkTypeOK /\ ClientTypeOK
BY DEF WeatherTypeOK, HostTypeOK, LinkTypeOK, ClientTypeOK

LEMMA WeatherHostTyped ==
    HostTypeOK /\ ObserversInv' /\ [WeatherNext]_weatherVars => HostTypeOK'
<1> SUFFICES ASSUME HostTypeOK, ObserversInv', [WeatherNext]_weatherVars PROVE HostTypeOK'
  OBVIOUS
<1>1. /\ hostSky' \in Skies \cup {NoSky} /\ hostRed' \in {"none", "red", "clear"}
      /\ hostLoaded' \subseteq ContentClasses /\ lastSent' \in Skies \cup {NoSky}
      /\ hostInstalled' \in BOOLEAN
  <2>1. CASE HostTick
    BY <2>1 DEF HostTick, HostTypeOK, GoesOnInstalled
  <2>2. CASE \E s, t \in Skies : SkyChanges(s) \/ SkyChangesSilently(s) \/ ForceSnow(s) \/ ForceRain(s, t)
    BY <2>2 DEF SkyChanges, ForceSnow, ForceRain, Observed, SkyChangesSilently, HostTypeOK
  <2>3. CASE \/ \E s \in Skies, cs \in SUBSET ContentClasses : HostLoads(s, cs)
             \/ HostUnloads
    BY <2>3 DEF HostLoads, HostUnloads, HostTypeOK
  <2>4. CASE SpawnRedSky \/ Strike \/ \E r \in {"red", "clear"} : SetRedSky(r) \/ ForceRedSky(r)
    BY <2>4 DEF SpawnRedSky, Strike, SetRedSky, ForceRedSky, Event, HostTypeOK, ContentClasses
  <2>5. CASE UNCHANGED hostVars
    BY <2>5 DEF hostVars, HostTypeOK
  <2>6. \/ HostTick \/ HostUnloads
        \/ \E s, t \in Skies : SkyChanges(s) \/ SkyChangesSilently(s) \/ ForceSnow(s) \/ ForceRain(s, t)
        \/ \E s \in Skies, cs \in SUBSET ContentClasses : HostLoads(s, cs)
        \/ SpawnRedSky \/ Strike \/ \E r \in {"red", "clear"} : SetRedSky(r) \/ ForceRedSky(r)
        \/ UNCHANGED hostVars
    BY DEF WeatherNext, weatherVars, Join, Leave, ClientLoads, ClientUnloads, OwnSky, OwnEvent, ClientTick,
       TickBegins, TickEnds, HandleWeather, HandleRedSky, HandleStrike
  <2> QED BY <2>1, <2>2, <2>3, <2>4, <2>5, <2>6
<1>2. Observable' \subseteq WeatherObservers
  BY DEF Observable, WeatherObservers
<1> QED BY <1>1, <1>2 DEF HostTypeOK, ObserversInv

-----------------------------------------------------------------------------
(* Weather: the clients.  What the host says.                              *)
Untouched(c) ==
    /\ sky'[c] = sky[c] /\ installed'[c] = installed[c] /\ pending'[c] = pending[c]
    /\ heard'[c] = heard[c] /\ raced'[c] = raced[c] /\ strayed'[c] = strayed[c]

LEMMA KnowsUnchanged ==
    ASSUME NEW c \in Clients, KnowsLatest(c), Untouched(c), wire'[c] = wire[c], told'[c] = told[c]
    PROVE  KnowsLatest(c)'
BY DEF KnowsLatest, Untouched, LastWord, Speaks

LEMMA KnowsWhatIsSaid ==
    ASSUME NEW c \in Clients, KnowsLatest(c), Untouched(c), wire[c] \in Seq(WeatherMessages),
           NEW ms \in Seq(WeatherMessages), wire'[c] = wire[c] \o ms,
           \/ ~ Speaks(ms) /\ told'[c] = told[c]
           \/ Speaks(ms) /\ LastWord(ms, told'[c])
    PROVE  KnowsLatest(c)' /\ wire'[c] \in Seq(WeatherMessages)
<1>1. PICK q : q = wire[c]
  OBVIOUS
<1>2. PICK r : r = wire'[c]
  OBVIOUS
<1>3. PICK t : t = told'[c]
  OBVIOUS
<1>4. /\ r \in Seq(WeatherMessages)
      /\ Speaks(r) <=> Speaks(q) \/ Speaks(ms)
      /\ ~ Speaks(ms) /\ LastWord(q, t) => LastWord(r, t)
      /\ Speaks(ms) /\ LastWord(ms, t) => LastWord(r, t)
  BY <1>1, <1>2, WordsJoined
<1>5. LastWord(r, t)
  BY <1>1, <1>3, <1>4 DEF KnowsLatest
<1>6. /\ heard'[c] /\ ~ installed'[c] => pending'[c] # NoSky
      /\ ~ Speaks(r) /\ ~ raced'[c] =>
          /\ pending'[c] # NoSky => pending'[c] = t
          /\ pending'[c] = NoSky /\ heard'[c] /\ sky'[c] # NoSky /\ ~ strayed'[c] => sky'[c] = t
  BY <1>1, <1>3, <1>4 DEF KnowsLatest, Untouched
<1>7. LastWord(wire[c], told[c])' <=> LastWord(r, t)
  BY <1>2, <1>3 DEF LastWord
<1>8. Speaks(wire[c])' <=> Speaks(r)
  BY <1>2 DEF Speaks
<1> QED BY <1>2, <1>3, <1>4, <1>5, <1>6, <1>7, <1>8 DEF KnowsLatest

LEMMA SaidToAll ==
    ASSUME LinkTypeOK, \A c \in Clients : KnowsLatest(c), UNCHANGED <<ready, seen, clientVars>>,
           NEW ms \in Seq(WeatherMessages), Announce(ms),
           \/ ~ Speaks(ms) /\ UNCHANGED told
           \/ \E s \in Skies : /\ Speaks(ms) /\ LastWord(ms, s)
                               /\ told' = [c \in Clients |-> IF c \in ready THEN s ELSE told[c]]
    PROVE  LinkTypeOK' /\ \A c \in Clients : KnowsLatest(c)'
<1>1. ASSUME NEW c \in Clients
      PROVE  KnowsLatest(c)' /\ wire'[c] \in Seq(WeatherMessages) /\ told'[c] \in Skies \cup {NoSky}
  <2>1. Untouched(c) /\ wire[c] \in Seq(WeatherMessages) /\ told'[c] \in Skies \cup {NoSky}
    BY DEF LinkTypeOK, Untouched, clientVars
  <2>2. CASE c \in ready
    <3>1. wire'[c] = wire[c] \o ms
      BY <2>2 DEF Announce
    <3>2. \/ ~ Speaks(ms) /\ told'[c] = told[c]
          \/ Speaks(ms) /\ LastWord(ms, told'[c])
      BY <2>2
    <3> QED BY <2>1, <3>1, <3>2, KnowsWhatIsSaid
  <2>3. CASE c \notin ready
    <3>1. wire'[c] = wire[c] /\ told'[c] = told[c]
      BY <2>3 DEF Announce
    <3> QED BY <2>1, <3>1, KnowsUnchanged
  <2> QED BY <2>2, <2>3
<1>2. wire' = [c \in Clients |-> wire'[c]] /\ told' = [c \in Clients |-> told'[c]]
  BY DEF Announce, LinkTypeOK
<1>3. ready' \subseteq Clients /\ seen' \subseteq Clients
  BY DEF LinkTypeOK
<1> QED BY <1>1, <1>2, <1>3 DEF LinkTypeOK


LEMMA SaidUnless ==
    ASSUME NEW last, NEW s \in Skies, NEW ms, ms = Unless(last, s)
    PROVE  /\ ms \in Seq(WeatherMessages)
           /\ ms = <<>> \/ (Speaks(ms) /\ LastWord(ms, s))
           /\ last = s => ms = <<>>
BY OneWord, NoWord DEF Unless

LEMMA SaidObserved ==
    ASSUME LinkTypeOK, \A c \in Clients : KnowsLatest(c),
           NEW s \in Skies, NEW ms \in Seq(WeatherMessages), Observed(s, ms),
           ms = <<>> \/ (Speaks(ms) /\ LastWord(ms, s))
    PROVE  LinkTypeOK' /\ \A c \in Clients : KnowsLatest(c)'
<1>1. UNCHANGED <<ready, seen, clientVars>>
  BY DEF Observed
<1>2. CASE "sky" \in observing /\ ready # {}
  <2>1. Announce(ms) /\ told' = [c \in Clients |-> IF ms # <<>> /\ c \in ready THEN s ELSE told[c]]
    BY <1>2 DEF Observed
  <2>2. CASE ms = <<>>
    <3>1. UNCHANGED told
      BY <2>1, <2>2 DEF LinkTypeOK
    <3> QED BY <1>1, <2>1, <2>2, <3>1, NoWord, SaidToAll
  <2>3. CASE ms # <<>>
    <3>1. told' = [c \in Clients |-> IF c \in ready THEN s ELSE told[c]]
      BY <2>1, <2>3
    <3> QED BY <1>1, <2>1, <2>3, <3>1, SaidToAll
  <2> QED BY <2>2, <2>3
<1>3. CASE ~ ("sky" \in observing /\ ready # {})
  <2>1. UNCHANGED <<wire, told>>
    BY <1>3 DEF Observed
  <2>2. \A c \in Clients : KnowsLatest(c)'
    BY <1>1, <2>1, KnowsUnchanged DEF Untouched, clientVars
  <2> QED BY <1>1, <2>1, <2>2 DEF LinkTypeOK
<1> QED BY <1>2, <1>3

LEMMA SaidEvent ==
    ASSUME LinkTypeOK, \A c \in Clients : KnowsLatest(c), NEW class, NEW observer, NEW msg,
           Event(class, observer, msg),
           <<msg>> \in Seq(WeatherMessages), ~ Speaks(<<msg>>)
    PROVE  LinkTypeOK' /\ \A c \in Clients : KnowsLatest(c)'
<1>1. UNCHANGED <<ready, seen, clientVars>> /\ UNCHANGED told
  BY DEF Event
<1>2. CASE observer \in observing /\ hostInstalled
  <2>1. Announce(<<msg>>)
    BY <1>2 DEF Event
  <2> QED BY <1>1, <2>1, SaidToAll
<1>3. CASE ~ (observer \in observing /\ hostInstalled)
  <2>1. UNCHANGED wire
    BY <1>3 DEF Event
  <2>2. \A c \in Clients : KnowsLatest(c)'
    BY <1>1, <2>1, KnowsUnchanged DEF Untouched, clientVars
  <2> QED BY <1>1, <2>1, <2>2 DEF LinkTypeOK
<1> QED BY <1>2, <1>3

LEMMA SaidByEngine ==
    ASSUME LinkTypeOK, \A c \in Clients : KnowsLatest(c),
           \/ \E s \in Skies : SkyChanges(s) \/ ForceSnow(s)
           \/ \E s, t \in Skies : ForceRain(s, t)
           \/ SpawnRedSky \/ Strike
           \/ \E r \in {"red", "clear"} : SetRedSky(r) \/ ForceRedSky(r)
    PROVE  LinkTypeOK' /\ \A c \in Clients : KnowsLatest(c)'
<1>1. ASSUME NEW s \in Skies, SkyChanges(s) \/ ForceSnow(s)
      PROVE  LinkTypeOK' /\ \A c \in Clients : KnowsLatest(c)'
  <2>1. PICK ms : ms = Unless(lastSent, s)
    OBVIOUS
  <2>2. Observed(s, ms)
    BY <1>1, <2>1 DEF SkyChanges, ForceSnow
  <2>3. ms \in Seq(WeatherMessages) /\ (ms = <<>> \/ (Speaks(ms) /\ LastWord(ms, s)))
    BY <2>1, SaidUnless
  <2> QED BY <2>2, <2>3, SaidObserved
<1>2. ASSUME NEW s \in Skies, NEW t \in Skies, ForceRain(s, t)
      PROVE  LinkTypeOK' /\ \A c \in Clients : KnowsLatest(c)'
  <2>1. PICK first : first = Unless(lastSent, s)
    OBVIOUS
  <2>2. PICK second : second = Unless(s, t)
    OBVIOUS
  <2>3. PICK ms : ms = first \o second
    OBVIOUS
  <2>4. Observed(t, ms)
    BY <1>2, <2>1, <2>2, <2>3 DEF ForceRain
  <2>5. /\ first \in Seq(WeatherMessages) /\ (first = <<>> \/ (Speaks(first) /\ LastWord(first, s)))
    BY <2>1, SaidUnless
  <2>6. /\ second \in Seq(WeatherMessages)
        /\ second = <<>> \/ (Speaks(second) /\ LastWord(second, t))
        /\ s # t => second # <<>>
    BY <2>2, SaidUnless DEF Unless
  <2>7. ms \in Seq(WeatherMessages) /\ (ms = <<>> \/ (Speaks(ms) /\ LastWord(ms, t)))
    <3>1. CASE second = <<>>
      <4>1. ms = first /\ s = t
        BY <2>3, <2>5, <2>6, <3>1, ConcatEmptySeq
      <4> QED BY <2>5, <4>1
    <3>2. CASE second # <<>>
      BY <2>3, <2>5, <2>6, <3>2, WordsJoined
    <3> QED BY <3>1, <3>2
  <2> QED BY <2>4, <2>7, SaidObserved
<1>3. ASSUME SpawnRedSky \/ \E r \in {"red", "clear"} : SetRedSky(r)
      PROVE  LinkTypeOK' /\ \A c \in Clients : KnowsLatest(c)'
  <2>1. PICK observer, r : r \in {"red", "clear"} /\ Event("redSky", observer, RedSkyMsg(r))
    BY <1>3 DEF SpawnRedSky, SetRedSky
  <2> QED BY <2>1, NoWord, SaidEvent
<1>4. ASSUME Strike PROVE LinkTypeOK' /\ \A c \in Clients : KnowsLatest(c)'
  BY <1>4, NoWord, SaidEvent DEF Strike
<1>5. ASSUME NEW r \in {"red", "clear"}, ForceRedSky(r)
      PROVE  LinkTypeOK' /\ \A c \in Clients : KnowsLatest(c)'
  <2> DEFINE says(o) == IF o \in observing /\ hostInstalled THEN <<RedSkyMsg(r)>> ELSE <<>>
             spawns == hostRed = "none"
  <2>1. PICK first : first = IF spawns THEN says("redSpawn") ELSE <<>>
    OBVIOUS
  <2>2. PICK second : second = says("redSet")
    OBVIOUS
  <2>3. PICK ms : ms = first \o second
    OBVIOUS
  <2>4. Announce(ms) /\ UNCHANGED <<ready, seen, clientVars>> /\ UNCHANGED told
    BY <1>5, <2>1, <2>2, <2>3 DEF ForceRedSky
  <2>5. /\ first \in Seq(WeatherMessages) /\ ~ Speaks(first)
        /\ second \in Seq(WeatherMessages) /\ ~ Speaks(second)
    BY <2>1, <2>2, NoWord
  <2>6. ms \in Seq(WeatherMessages) /\ ~ Speaks(ms)
    BY <2>3, <2>5, WordsJoined
  <2> QED BY <2>4, <2>6, SaidToAll
<1> QED BY <1>1, <1>2, <1>3, <1>4, <1>5

LEMMA SaidByTick ==
    ASSUME HostTypeOK, LinkTypeOK, \A c \in Clients : KnowsLatest(c), HostTick
    PROVE  LinkTypeOK' /\ \A c \in Clients : KnowsLatest(c)'
<1>1. /\ wire' = [c \in Clients |->
              IF c \in Replayed THEN Append(wire[c], WeatherMsg(hostSky)) ELSE wire[c]]
      /\ told' = [c \in Clients |-> IF c \in Replayed THEN hostSky ELSE told[c]]
      /\ seen' = ready /\ ready' = ready /\ UNCHANGED clientVars
  BY DEF HostTick
<1>2. Replayed # {} => hostSky \in Skies
  BY DEF Replayed, HostTypeOK
<1>3. ASSUME NEW c \in Clients
      PROVE  KnowsLatest(c)' /\ wire'[c] \in Seq(WeatherMessages) /\ told'[c] \in Skies \cup {NoSky}
  <2>1. Untouched(c) /\ wire[c] \in Seq(WeatherMessages)
    BY <1>1 DEF LinkTypeOK, Untouched, clientVars
  <2>2. CASE c \in Replayed
    <3>1. PICK ms : ms = <<WeatherMsg(hostSky)>>
      OBVIOUS
    <3>2. ms \in Seq(WeatherMessages) /\ Speaks(ms) /\ LastWord(ms, hostSky)
      BY <1>2, <2>2, <3>1, OneWord
    <3>3. wire'[c] = wire[c] \o ms
      <4>1. wire'[c] = Append(wire[c], WeatherMsg(hostSky)) /\ WeatherMsg(hostSky) \in WeatherMessages
        BY <1>1, <1>2, <2>2, OneWord
      <4> QED BY <2>1, <3>1, <4>1, AppendAsConcat
    <3>4. told'[c] = hostSky
      BY <1>1, <2>2
    <3>5. KnowsLatest(c)' /\ wire'[c] \in Seq(WeatherMessages)
      BY <2>1, <3>2, <3>3, <3>4, KnowsWhatIsSaid
    <3> QED BY <1>2, <2>2, <3>4, <3>5
  <2>3. CASE c \notin Replayed
    <3>1. wire'[c] = wire[c] /\ told'[c] = told[c]
      BY <1>1, <2>3
    <3>2. KnowsLatest(c)'
      BY <2>1, <3>1, KnowsUnchanged
    <3> QED BY <2>1, <3>1, <3>2 DEF LinkTypeOK
  <2> QED BY <2>2, <2>3
<1>4. wire' = [c \in Clients |-> wire'[c]] /\ told' = [c \in Clients |-> told'[c]]
  BY <1>1
<1> QED BY <1>1, <1>3, <1>4 DEF LinkTypeOK


(* What a client does.                                                     *)
LEMMA OthersUntouched ==
    ASSUME NEW c, NEW d \in Clients, d # c, \A e \in Clients : KnowsLatest(e),
           LinkTypeOK, ClientTypeOK,
           Leave(c) \/ TickBegins(c) \/ HandleWeather(c) \/ HandleRedSky(c) \/ HandleStrike(c)
             \/ TickEnds(c) \/ ClientUnloads(c)
             \/ \E s \in Skies : ClientLoads(c, s) \/ OwnSky(c, s) \/ OwnEvent(c, s)
    PROVE  KnowsLatest(d)'
<1>1. wire'[d] = wire[d] /\ told'[d] = told[d]
  BY DEF Leave, TickBegins, HandleWeather, HandleRedSky, HandleStrike, TickEnds, ClientUnloads,
         ClientLoads, OwnSky, OwnEvent, Arrives, linkVars, LinkTypeOK
<1>2. Untouched(d)
  BY DEF Leave, TickBegins, HandleWeather, HandleRedSky, HandleStrike, TickEnds, ClientUnloads,
         ClientLoads, OwnSky, OwnEvent, clientVars, ClientTypeOK, Untouched
<1> QED BY <1>1, <1>2, KnowsUnchanged

LEMMA ClientKept ==
    ASSUME HostTypeOK, LinkTypeOK, ClientTypeOK, \A d \in Clients : KnowsLatest(d),
           NEW c \in Clients,
           Leave(c) \/ TickBegins(c) \/ HandleWeather(c) \/ HandleRedSky(c) \/ HandleStrike(c)
             \/ TickEnds(c) \/ ClientUnloads(c)
             \/ \E s \in Skies : ClientLoads(c, s) \/ OwnSky(c, s) \/ OwnEvent(c, s)
    PROVE  LinkTypeOK' /\ ClientTypeOK' /\ KnowsLatest(c)'
<1>0. KnowsLatest(c) /\ wire[c] \in Seq(WeatherMessages) /\ NoSky \notin Skies
  BY WeatherAssumption DEF LinkTypeOK
<1>1. CASE Leave(c)
  <2>1. /\ wire'[c] = <<>> /\ ~ heard'[c] /\ pending'[c] = NoSky
    BY <1>1 DEF Leave, LinkTypeOK, ClientTypeOK
  <2>2. KnowsLatest(c)'
    BY <2>1 DEF KnowsLatest, LastWord
  <2>3. LinkTypeOK'
    BY <1>1, NoWord DEF Leave, LinkTypeOK
  <2>4. ClientTypeOK'
    BY <1>1 DEF Leave, ClientTypeOK
  <2> QED BY <2>2, <2>3, <2>4
<1>2. CASE TickBegins(c)
  <2>1. /\ wire' = wire /\ told' = told /\ heard' = heard /\ raced' = raced
        /\ sky'[c] = (IF Drains(c) THEN pending[c] ELSE sky[c])
        /\ pending'[c] = (IF Drains(c) THEN NoSky ELSE pending[c])
        /\ installed'[c] = (installed[c] \/ sky[c] # NoSky)
        /\ strayed'[c] = (strayed[c] /\ ~ Drains(c))
    BY <1>2 DEF TickBegins, linkVars, ClientTypeOK
  <2>2. KnowsLatest(c)'
    BY <1>0, <2>1 DEF KnowsLatest, LastWord, Speaks, Drains
  <2>3. LinkTypeOK'
    BY <1>2 DEF TickBegins, linkVars, LinkTypeOK
  <2>4. ClientTypeOK'
    BY <1>2 DEF TickBegins, ClientTypeOK
  <2> QED BY <2>2, <2>3, <2>4
<1>3. CASE HandleWeather(c) \/ HandleRedSky(c) \/ HandleStrike(c)
  <2>1. wire[c] # <<>> /\ wire' = [wire EXCEPT ![c] = Tail(@)] /\ UNCHANGED <<ready, seen, told>>
    BY <1>3 DEF HandleWeather, HandleRedSky, HandleStrike, Arrives
  <2>2. PICK q : q = wire[c]
    OBVIOUS
  <2>3. PICK t : t = Tail(q)
    OBVIOUS
  <2>4. /\ Head(q) \in WeatherMessages /\ t \in Seq(WeatherMessages)
        /\ LastWord(q, told[c]) => LastWord(t, told[c])
        /\ Speaks(q) <=> Head(q).kind = "WeatherState" \/ Speaks(t)
        /\ LastWord(q, told[c]) /\ ~ Speaks(t) /\ Head(q).kind = "WeatherState"
             => Head(q).value = told[c]
    BY <1>0, <2>1, <2>2, <2>3, WordTaken
  <2>5. wire'[c] = t /\ told'[c] = told[c]
    BY <2>1, <2>2, <2>3 DEF LinkTypeOK
  <2>6. LinkTypeOK'
    BY <2>1, <2>2, <2>3, <2>4 DEF LinkTypeOK
  <2>7. LastWord(wire[c], told[c])' /\ (Speaks(wire[c])' <=> Speaks(t))
    BY <1>0, <2>2, <2>4, <2>5 DEF KnowsLatest, LastWord, Speaks
  <2>8. CASE HandleWeather(c)
    <3>1. Head(q).kind = "WeatherState"
      BY <2>2, <2>8 DEF HandleWeather, Arrives
    <3>2. PICK s : s = Head(q).value
      OBVIOUS
    <3>3. s \in Skies
      BY <2>4, <3>1, <3>2 DEF WeatherMessages, WeatherMsg, RedSkyMsg, StrikeMsg
    <3>4. /\ sky' = [sky EXCEPT ![c] = IF AppliesNow(c) THEN s ELSE @]
          /\ pending' = [pending EXCEPT ![c] = IF AppliesNow(c) THEN @ ELSE s]
          /\ heard' = [heard EXCEPT ![c] = TRUE]
          /\ raced' = [raced EXCEPT ![c] = AppliesNow(c) /\ pending[c] # NoSky]
          /\ strayed' = [strayed EXCEPT ![c] = @ /\ ~ AppliesNow(c)]
          /\ installed' = installed /\ red' = red /\ busy' = busy
      BY <2>2, <2>8, <3>2 DEF HandleWeather
    <3>5. /\ sky'[c] = (IF AppliesNow(c) THEN s ELSE sky[c])
          /\ pending'[c] = (IF AppliesNow(c) THEN pending[c] ELSE s)
          /\ raced'[c] <=> AppliesNow(c) /\ pending[c] # NoSky
          /\ strayed'[c] <=> strayed[c] /\ ~ AppliesNow(c)
          /\ installed'[c] = installed[c]
      BY <3>4 DEF ClientTypeOK
    <3>6. ~ Speaks(t) => s = told[c]
      BY <1>0, <2>2, <2>4, <3>1, <3>2 DEF KnowsLatest
    <3>7. KnowsLatest(c)'
      BY <1>0, <2>5, <2>7, <3>3, <3>5, <3>6 DEF KnowsLatest, AppliesNow
    <3>8. ClientTypeOK'
      BY <3>3, <3>4 DEF ClientTypeOK, AppliesNow
    <3> QED BY <2>6, <3>7, <3>8
  <2>9. CASE HandleRedSky(c) \/ HandleStrike(c)
    <3>1. Head(q).kind # "WeatherState"
      BY <2>2, <2>9 DEF HandleRedSky, HandleStrike, Arrives
    <3>2. UNCHANGED <<sky, installed, pending, busy, heard, raced, strayed>>
      BY <2>9 DEF HandleRedSky, HandleStrike, clientVars
    <3>3. KnowsLatest(c)'
      BY <1>0, <2>2, <2>4, <2>5, <2>7, <3>1, <3>2 DEF KnowsLatest
    <3>4. red' \in [Clients -> {"none", "red", "clear"}]
      <4>1. CASE HandleStrike(c)
        BY <4>1 DEF HandleStrike, clientVars, ClientTypeOK
      <4>2. CASE HandleRedSky(c)
        <5>1. PICK r : r = Head(q).value
          OBVIOUS
        <5>2. r \in {"red", "clear"}
          BY <2>2, <2>4, <4>2, <5>1 DEF HandleRedSky, Arrives, WeatherMessages, WeatherMsg,
                                        RedSkyMsg, StrikeMsg
        <5>3. red' = [red EXCEPT ![c] = RedSkyApplied(c, r)]
          BY <2>2, <4>2, <5>1 DEF HandleRedSky
        <5> QED BY <5>2, <5>3 DEF RedSkyApplied, ClientTypeOK
      <4> QED BY <2>9, <4>1, <4>2
    <3> QED BY <2>6, <3>2, <3>3, <3>4 DEF ClientTypeOK
  <2> QED BY <1>3, <2>8, <2>9
<1>4. CASE TickEnds(c) \/ ClientUnloads(c)
  <2>1. UNCHANGED linkVars /\ UNCHANGED <<installed, pending, heard, raced, strayed>>
        /\ (sky'[c] = sky[c] \/ sky'[c] = NoSky)
    BY <1>4 DEF TickEnds, ClientUnloads, ClientTypeOK
  <2>2. KnowsLatest(c)'
    BY <1>0, <2>1 DEF KnowsLatest, LastWord, Speaks, linkVars
  <2>3. ClientTypeOK'
    BY <1>4 DEF TickEnds, ClientUnloads, ClientTypeOK
  <2> QED BY <2>1, <2>2, <2>3 DEF LinkTypeOK, linkVars
<1>5. ASSUME NEW s \in Skies, ClientLoads(c, s) \/ OwnSky(c, s) \/ OwnEvent(c, s)
      PROVE  LinkTypeOK' /\ ClientTypeOK' /\ KnowsLatest(c)'
  <2>1. UNCHANGED linkVars /\ UNCHANGED <<installed, pending, raced>>
        /\ \/ heard'[c] = (pending[c] # NoSky)
           \/ heard' = heard /\ (~ installed[c] \/ strayed'[c])
    BY <1>5 DEF ClientLoads, OwnSky, OwnEvent, Suppressed, ClientTypeOK
  <2>2. KnowsLatest(c)'
    BY <1>0, <2>1 DEF KnowsLatest, LastWord, Speaks, linkVars
  <2>3. ClientTypeOK'
    <3>1. PICK full \in BOOLEAN : full <=> pending[c] # NoSky
      OBVIOUS
    <3>2. CASE ClientLoads(c, s)
      <4>1. /\ UNCHANGED <<red, installed, pending, busy, raced>>
            /\ sky' = [sky EXCEPT ![c] = s] /\ heard' = [heard EXCEPT ![c] = full]
            /\ strayed' = [strayed EXCEPT ![c] = FALSE]
        BY <3>1, <3>2, Zenon DEF ClientLoads
      <4> QED BY <3>1, <4>1 DEF ClientTypeOK
    <3>3. CASE OwnSky(c, s)
      BY <3>3 DEF OwnSky, ClientTypeOK
    <3>4. CASE OwnEvent(c, s)
      BY <3>4 DEF OwnEvent, ClientTypeOK
    <3> QED BY <1>5, <3>2, <3>3, <3>4
  <2> QED BY <2>1, <2>2, <2>3 DEF LinkTypeOK, linkVars
<1> QED BY <1>1, <1>2, <1>3, <1>4, <1>5

LEMMA WeatherKept == WeatherInv /\ [WeatherNext]_weatherVars => WeatherInv'
<1> SUFFICES ASSUME WeatherInv, [WeatherNext]_weatherVars PROVE WeatherInv'
  OBVIOUS
<1>0. HostTypeOK /\ LinkTypeOK /\ ClientTypeOK /\ \A d \in Clients : KnowsLatest(d)
  BY TypeParts DEF WeatherInv
<1>1. ObserversInv'
  BY ObserversKept DEF WeatherInv
<1>2. HostTypeOK'
  BY <1>0, <1>1, WeatherHostTyped
<1>3. LinkTypeOK' /\ ClientTypeOK' /\ \A d \in Clients : KnowsLatest(d)'
  <2>1. CASE HostTick
    <3>1. ClientTypeOK'
      BY <1>0, <2>1 DEF HostTick, clientVars, ClientTypeOK
    <3> QED BY <1>0, <2>1, <3>1, SaidByTick
  <2>2. CASE \/ \E s \in Skies : SkyChanges(s) \/ ForceSnow(s)
             \/ \E s, t \in Skies : ForceRain(s, t)
             \/ SpawnRedSky \/ Strike
             \/ \E r \in {"red", "clear"} : SetRedSky(r) \/ ForceRedSky(r)
    <3>1. UNCHANGED clientVars
      BY <2>2 DEF SkyChanges, ForceSnow, ForceRain, Observed, SpawnRedSky, Strike, SetRedSky,
                  ForceRedSky, Event
    <3>2. ClientTypeOK'
      BY <1>0, <3>1 DEF clientVars, ClientTypeOK
    <3> QED BY <1>0, <2>2, <3>2, SaidByEngine
  <2>3. CASE \/ \E s \in Skies : SkyChangesSilently(s)
             \/ \E s \in Skies, cs \in SUBSET ContentClasses : HostLoads(s, cs)
             \/ HostUnloads \/ UNCHANGED weatherVars
             \/ \E c \in Clients : Join(c)
    <3>1. UNCHANGED <<seen, wire, told, clientVars>> /\ ready' \subseteq Clients
      BY <1>0, <2>3 DEF SkyChangesSilently, HostLoads, HostUnloads, weatherVars, linkVars, Join,
                        LinkTypeOK
    <3>2. \A d \in Clients : KnowsLatest(d)'
      BY <1>0, <3>1, KnowsUnchanged DEF Untouched, clientVars
    <3> QED BY <1>0, <3>1, <3>2 DEF LinkTypeOK, ClientTypeOK, clientVars
  <2>4. ASSUME NEW c \in Clients,
               Leave(c) \/ TickBegins(c) \/ HandleWeather(c) \/ HandleRedSky(c) \/ HandleStrike(c)
                 \/ TickEnds(c) \/ ClientUnloads(c)
                 \/ \E s \in Skies : ClientLoads(c, s) \/ OwnSky(c, s) \/ OwnEvent(c, s)
        PROVE  LinkTypeOK' /\ ClientTypeOK' /\ \A d \in Clients : KnowsLatest(d)'
    BY <1>0, <2>4, ClientKept, OthersUntouched
  <2> QED BY <2>1, <2>2, <2>3, <2>4 DEF WeatherNext, ClientTick
<1>4. WeatherTypeOK'
  BY <1>2, <1>3 DEF WeatherTypeOK, HostTypeOK, LinkTypeOK, ClientTypeOK
<1> QED BY <1>1, <1>3, <1>4 DEF WeatherInv

LEMMA WeatherInitInv == WeatherInit => WeatherInv
<1> SUFFICES ASSUME WeatherInit PROVE WeatherInv
  OBVIOUS
<1>1. <<>> \in Seq(WeatherMessages)
  BY NoWord
<1>2. WeatherTypeOK
  <2> HIDE DEF WeatherMessages
  <2> QED BY <1>1 DEF WeatherInit, WeatherTypeOK
<1>3. ObserversInv
  BY DEF WeatherInit, ObserversInv, ObserversComeBack
<1>4. ASSUME NEW c \in Clients PROVE KnowsLatest(c)
  <2>1. wire[c] = <<>> /\ ~ heard[c] /\ pending[c] = NoSky
    BY DEF WeatherInit
  <2> QED BY <2>1 DEF KnowsLatest, LastWord
<1> QED BY <1>2, <1>3, <1>4 DEF WeatherInv

-----------------------------------------------------------------------------
(* Weather: the theorems. *)

(* The invariant holds in every behaviour of the host and its clients.     *)
THEOREM WeatherInvariance == WeatherSpec => []WeatherInv
BY WeatherInitInv, WeatherKept, PTL DEF WeatherSpec

(* For any clients, skies and lengths of queues, a client to which nothing *)
(* is on its way shows the last weather that the host has sent it, unless  *)
(* HandleWeather applied a message past a stashed one, or the client's own *)
(* game has changed the sky since, by a call other than the five that      *)
(* OnSchedulerPreSuppress cancels. *)
THEOREM LatestAlwaysWinsUndisturbed == WeatherSpec => []LatestWinsUndisturbed
<1>1. WeatherInv => LatestWinsUndisturbed
  <2> SUFFICES ASSUME WeatherInv, NEW c \in Clients, Settled(c), ~ raced[c], ~ strayed[c]
               PROVE  sky[c] = told[c]
    BY DEF LatestWinsUndisturbed
  <2>1. ~ Speaks(wire[c])
    BY DEF Settled, Speaks
  <2> QED BY <2>1 DEF WeatherInv, KnowsLatest, Settled
<1> QED BY <1>1, WeatherInvariance, PTL

(* After any number of sessions in one process of the host, Install leaves *)
(* every observer that one of them had registered.                         *)
THEOREM ObserversAlwaysComeBack == WeatherSpec => []ObserversComeBack
<1>1. WeatherInv => ObserversComeBack
  BY DEF WeatherInv, ObserversInv
<1> QED BY <1>1, WeatherInvariance, PTL

-----------------------------------------------------------------------------
(* Item activation: what a queue says of a lamp.                           *)

(* x, unless there is none; the last of p's lamps in a queue. *)
Over(x, y) == IF x = NoLamp THEN y ELSE x
On(p, msgs) == LastOf(p, msgs, NoLamp)

LEMMA LampFacts ==
    /\ LampClients \subseteq Nat \ {0} /\ 0 \in LampPlayers /\ 0 \notin LampClients
    /\ LampClients = LampPlayers \ {0}
    /\ NoLamp \notin Lights /\ Dark \in Lights /\ Dark \notin Beams /\ Lights = Beams \cup {Dark}
    /\ "idle" \notin Lights /\ "flipped" \notin Lights
<1>1. LampClients \subseteq Nat \ {0}
  <2>1. Cardinality(LampClients) \in Nat /\ LampClients = 1 .. Cardinality(LampClients)
    BY FlashlightAssumption, FS_CardinalityType
  <2> QED BY <2>1
<1> QED BY <1>1, FlashlightAssumption DEF LampPlayers, Lights

(* LastOf is the light of the last announcement of p. *)
LEMMA LastOne ==
    ASSUME NEW q \in Seq(LampMsgs), NEW p, NEW else
    PROVE  \/ /\ \A i \in DOMAIN q : q[i].from # p
              /\ LastOf(p, q, else) = else
           \/ \E i \in DOMAIN q :
                 /\ q[i].from = p /\ LastOf(p, q, else) = q[i].light
                 /\ \A j \in DOMAIN q : q[j].from = p => j <= i
<1>1. PICK at : at = {i \in DOMAIN q : q[i].from = p}
  OBVIOUS
<1>2. CASE at = {}
  BY <1>1, <1>2 DEF LastOf
<1>3. CASE at # {}
  <2>1. PICK len \in Nat : DOMAIN q = 1 .. len
    BY LenProperties
  <2>2. at \in SUBSET (0 .. len)
    BY <1>1, <2>1
  <2>3. PICK top \in at : \A j \in at : j =< top
    BY <1>3, <2>1, <2>2, GreatestPlace
  <2>4. PICK last : last = CHOOSE i \in at : \A j \in at : j <= i
    OBVIOUS
  <2>5. last \in at /\ \A j \in at : j <= last
    BY <2>3, <2>4
  <2>6. LastOf(p, q, else) = q[last].light
    BY <1>1, <1>3, <2>4 DEF LastOf
  <2> QED BY <1>1, <2>5, <2>6
<1> QED BY <1>2, <1>3

IsLast(i, p, q) ==
    /\ i \in DOMAIN q /\ q[i].from = p /\ On(p, q) = q[i].light
    /\ \A j \in DOMAIN q : q[j].from = p => j <= i

LEMMA LastThere ==
    ASSUME NEW q \in Seq(LampMsgs), NEW p, NEW k \in DOMAIN q, q[k].from = p
    PROVE  \E i : IsLast(i, p, q)
BY LastOne DEF On, IsLast

(* A default counts when the queue says nothing. *)
LEMMA LastOver ==
    ASSUME NEW q \in Seq(LampMsgs), NEW p, NEW else
    PROVE  /\ LastOf(p, q, else) = Over(On(p, q), else)
           /\ On(p, q) \in Lights \cup {NoLamp}
           /\ On(p, q) = NoLamp <=> \A i \in DOMAIN q : q[i].from # p
<1>0. PICK len \in Nat : DOMAIN q = 1 .. len
  BY LenProperties
<1>1. ASSUME NEW i \in DOMAIN q PROVE q[i].light \in Lights
  <2>1. q[i] \in LampMsgs
    BY LenProperties, ElementOfSeq
  <2> QED BY <2>1 DEF LampMsgs
<1>2. CASE \A i \in DOMAIN q : q[i].from # p
  <2>1. LastOf(p, q, else) = else /\ On(p, q) = NoLamp
    BY <1>2, LastOne DEF On
  <2> QED BY <1>2, <2>1 DEF Over
<1>3. CASE \E i \in DOMAIN q : q[i].from = p
  <2>1. PICK i \in DOMAIN q : q[i].from = p /\ LastOf(p, q, else) = q[i].light
                              /\ \A j \in DOMAIN q : q[j].from = p => j <= i
    BY <1>3, LastOne
  <2>2. PICK k \in DOMAIN q : q[k].from = p /\ On(p, q) = q[k].light
                              /\ \A j \in DOMAIN q : q[j].from = p => j <= k
    BY <1>3, LastOne DEF On
  <2>3. i = k
    BY <1>0, <2>1, <2>2
  <2> QED BY <1>1, <1>3, <2>1, <2>2, <2>3, LampFacts DEF Over
<1> QED BY <1>2, <1>3

(* What comes later counts. *)
LEMMA OnConcat ==
    ASSUME NEW a \in Seq(LampMsgs), NEW b \in Seq(LampMsgs), NEW p
    PROVE  /\ a \o b \in Seq(LampMsgs)
           /\ On(p, a \o b) = Over(On(p, b), On(p, a))
<1>1. PICK c : c = a \o b
  OBVIOUS
<1>2. PICK k \in Nat, n \in Nat : k = Len(a) /\ n = Len(b)
  BY LenProperties
<1>3. /\ c \in Seq(LampMsgs) /\ Len(c) = k + n
      /\ \A i \in 1 .. k + n : c[i] = IF i <= k THEN a[i] ELSE b[i - k]
  BY <1>1, <1>2, ConcatProperties
<1>4. DOMAIN a = 1 .. k /\ DOMAIN b = 1 .. n /\ DOMAIN c = 1 .. k + n
  BY <1>2, <1>3, LenProperties
<1>5. \A i \in DOMAIN a : i \in DOMAIN c /\ c[i] = a[i]
  BY <1>3, <1>4
<1>6. \A i \in DOMAIN b : i + k \in DOMAIN c /\ c[i + k] = b[i]
  <2> SUFFICES ASSUME NEW i \in 1 .. n PROVE i + k \in 1 .. k + n /\ c[i + k] = b[i]
    BY <1>4
  <2>1. i + k \in 1 .. k + n /\ ~ (i + k <= k) /\ i + k - k = i
    OBVIOUS
  <2> QED BY <1>3, <2>1
<1>7. \A i \in DOMAIN c : \/ i \in DOMAIN a /\ c[i] = a[i]
                          \/ i - k \in DOMAIN b /\ c[i] = b[i - k]
  BY <1>3, <1>4
<1>8. CASE \E i \in DOMAIN b : b[i].from = p
  <2>1. PICK i \in DOMAIN b : b[i].from = p /\ On(p, b) = b[i].light
                              /\ \A j \in DOMAIN b : b[j].from = p => j <= i
    BY <1>8, LastOne DEF On
  <2>a. i + k \in DOMAIN c /\ c[i + k].from = p
    BY <1>6, <2>1
  <2>b. PICK j : IsLast(j, p, c)
    BY <1>3, <2>a, LastThere
  <2>2. j \in DOMAIN c /\ c[j].from = p /\ On(p, c) = c[j].light
        /\ \A l \in DOMAIN c : c[l].from = p => l <= j
    BY <2>b DEF IsLast
  <2>3. i + k <= j
    BY <1>6, <2>1, <2>2
  <2>4. j - k \in DOMAIN b /\ c[j] = b[j - k]
    BY <1>3, <1>4, <2>1, <2>2, <2>3
  <2>5. j - k <= i
    BY <2>1, <2>2, <2>4
  <2>6. j = i + k
    BY <1>4, <2>1, <2>2, <2>3, <2>5
  <2>7. On(p, c) = On(p, b)
    BY <1>6, <2>1, <2>2, <2>6
  <2>8. On(p, b) # NoLamp
    BY <1>8, LastOver
  <2> QED BY <1>1, <1>3, <2>7, <2>8 DEF Over
<1>9. CASE ~ \E i \in DOMAIN b : b[i].from = p
  <2>1. On(p, b) = NoLamp
    BY <1>9, LastOver
  <2>2. CASE \E i \in DOMAIN a : a[i].from = p
    <3>1. PICK i \in DOMAIN a : a[i].from = p /\ On(p, a) = a[i].light
                                /\ \A j \in DOMAIN a : a[j].from = p => j <= i
      BY <2>2, LastOne DEF On
    <3>a. i \in DOMAIN c /\ c[i].from = p
      BY <1>5, <3>1
    <3>b. PICK j : IsLast(j, p, c)
      BY <1>3, <3>a, LastThere
    <3>2. j \in DOMAIN c /\ c[j].from = p /\ On(p, c) = c[j].light
          /\ \A l \in DOMAIN c : c[l].from = p => l <= j
      BY <3>b DEF IsLast
    <3>3. j \in DOMAIN a /\ c[j] = a[j]
      BY <1>7, <1>9, <3>2
    <3>4. i = j
      BY <1>4, <1>5, <3>1, <3>2, <3>3
    <3> QED BY <1>1, <1>3, <2>1, <3>1, <3>2, <3>3, <3>4 DEF Over
  <2>3. CASE ~ \E i \in DOMAIN a : a[i].from = p
    <3>1. \A i \in DOMAIN c : c[i].from # p
      BY <1>7, <1>9, <2>3
    <3>2. On(p, c) = NoLamp /\ On(p, a) = NoLamp
      BY <1>3, <2>3, <3>1, LastOver
    <3> QED BY <1>1, <1>3, <2>1, <3>2 DEF Over
  <2> QED BY <2>2, <2>3
<1> QED BY <1>8, <1>9

LEMMA OnNothing == <<>> \in Seq(LampMsgs) /\ \A p : On(p, <<>>) = NoLamp
<1>1. <<>> \in Seq(LampMsgs) /\ DOMAIN <<>> = {}
  BY EmptySeq
<1> QED BY <1>1, LastOver

LEMMA Singleton ==
    ASSUME NEW T, NEW m \in T
    PROVE  <<m>> \in Seq(T) /\ DOMAIN <<m>> = {1} /\ <<m>>[1] = m
<1>1. <<m>> \in Seq(T) /\ Len(<<m>>) = 1 /\ <<m>>[1] = m
  OBVIOUS
<1> QED BY <1>1, LenProperties

LEMMA OnOne ==
    ASSUME NEW m \in LampMsgs, NEW p
    PROVE  /\ <<m>> \in Seq(LampMsgs)
           /\ On(p, <<m>>) = IF m.from = p THEN m.light ELSE NoLamp
<1>1. PICK q : q = <<m>>
  OBVIOUS
<1>2. q \in Seq(LampMsgs) /\ DOMAIN q = {1} /\ q[1] = m
  BY <1>1, Singleton
<1>3. CASE m.from = p
  <2>1. \E i \in DOMAIN q : q[i].from = p /\ On(p, q) = q[i].light
    BY <1>2, <1>3, LastOne DEF On
  <2> QED BY <1>1, <1>2, <1>3, <2>1
<1>4. CASE m.from # p
  <2>1. On(p, q) = NoLamp
    BY <1>2, <1>4, LastOver
  <2> QED BY <1>1, <1>2, <1>4, <2>1
<1> QED BY <1>3, <1>4

LEMMA OnAppend ==
    ASSUME NEW q \in Seq(LampMsgs), NEW m \in LampMsgs, NEW p
    PROVE  /\ Append(q, m) \in Seq(LampMsgs)
           /\ On(p, Append(q, m)) = IF m.from = p THEN m.light ELSE On(p, q)
<1>1. q \o <<m>> = Append(q, m)
  BY AppendAsConcat
<1>2. m.light \in Lights
  BY DEF LampMsgs
<1>3. /\ <<m>> \in Seq(LampMsgs)
      /\ On(p, <<m>>) = IF m.from = p THEN m.light ELSE NoLamp
  BY OnOne
<1>4. /\ q \o <<m>> \in Seq(LampMsgs)
      /\ On(p, q \o <<m>>) = Over(On(p, <<m>>), On(p, q))
  BY <1>3, OnConcat
<1> QED BY <1>1, <1>2, <1>3, <1>4, LampFacts DEF Over

LEMMA OnTail ==
    ASSUME NEW q \in Seq(LampMsgs), q # <<>>, NEW p
    PROVE  /\ Tail(q) \in Seq(LampMsgs) /\ Head(q) \in LampMsgs
           /\ On(p, q) = IF Head(q).from = p THEN Over(On(p, Tail(q)), Head(q).light)
                         ELSE On(p, Tail(q))
<1>1. PICK m, t : m = Head(q) /\ t = Tail(q)
  OBVIOUS
<1>2. m \in LampMsgs /\ t \in Seq(LampMsgs) /\ q = <<m>> \o t
  BY <1>1, HeadAndTail
<1>3. On(p, q) = Over(On(p, t), On(p, <<m>>))
  BY <1>2, OnConcat, OnOne
<1> QED BY <1>1, <1>2, <1>3, OnOne DEF Over

(* The announcements of c are taken out. *)
IsWithout(k, c, q) ==
    /\ k \in Seq(LampMsgs) /\ On(c, k) = NoLamp
    /\ \A p : p # c => On(p, k) = On(p, q)

LEMMA OnKept ==
    ASSUME NEW q \in Seq(LampMsgs), NEW c, NEW S, NEW k, k = Kept(q, S),
           \A i : i \in S <=> i \in DOMAIN q /\ q[i].from # c
    PROVE  IsWithout(k, c, q)
<1>1. \A i : i \in S <=> i \in DOMAIN q /\ q[i].from # c
  OBVIOUS
<1>2. S \in SUBSET DOMAIN q /\ k = Kept(q, S)
  BY <1>1
<1>0. PICK at : ArePlaces(at, k, q, S)
  BY <1>2, KeptPlaces
<1>3. /\ at \in [DOMAIN k -> S]
      /\ \A n \in DOMAIN k : k[n] = q[at[n]]
      /\ \A i \in S : \E n \in DOMAIN k : at[n] = i
      /\ \A m, n \in DOMAIN k : m < n => at[m] < at[n]
  BY <1>0 DEF ArePlaces
<1>4. k \in Seq(LampMsgs)
  BY <1>1, <1>2, KeptElements
<1>5. PICK len \in Nat, klen \in Nat : DOMAIN q = 1 .. len /\ DOMAIN k = 1 .. klen
  BY <1>4, LenProperties
<1>6. On(c, k) = NoLamp
  <2>1. \A n \in DOMAIN k : k[n].from # c
    BY <1>1, <1>3
  <2> QED BY <1>4, <2>1, LastOver
<1>7. ASSUME NEW p, p # c PROVE On(p, k) = On(p, q)
  <2>1. CASE \E i \in DOMAIN q : q[i].from = p
    <3>1. PICK i \in DOMAIN q : q[i].from = p /\ On(p, q) = q[i].light
                                /\ \A j \in DOMAIN q : q[j].from = p => j <= i
      BY <2>1, LastOne DEF On
    <3>2. PICK n \in DOMAIN k : at[n] = i
      BY <1>1, <1>3, <1>7, <3>1
    <3>0. k[n].from = p
      BY <1>3, <3>1, <3>2
    <3>a. PICK m : IsLast(m, p, k)
      BY <1>4, <3>0, <3>2, LastThere
    <3>3. m \in DOMAIN k /\ k[m].from = p /\ On(p, k) = k[m].light
          /\ \A j \in DOMAIN k : k[j].from = p => j <= m
      BY <3>a DEF IsLast
    <3>4. at[m] \in DOMAIN q /\ q[at[m]].from = p
      BY <1>2, <1>3, <3>3
    <3>5. at[m] <= at[n] /\ n <= m /\ at[m] \in 1 .. len /\ at[n] \in 1 .. len
      <4>1. n \in DOMAIN k /\ at[n] = i /\ i \in DOMAIN q
        BY <3>1, <3>2
      <4>2. at[m] <= i
        BY <3>1, <3>4
      <4>3. n <= m
        BY <3>0, <3>3, <4>1
      <4> QED BY <1>5, <3>4, <4>1, <4>2, <4>3
    <3>6. n = m
      <4>1. ~ n < m
        <5>1. ~ at[n] < at[m]
          BY <3>5
        <5> QED BY <1>3, <3>2, <3>3, <5>1
      <4> QED BY <1>5, <3>2, <3>3, <3>5, <4>1
    <3> QED BY <1>3, <3>1, <3>2, <3>3, <3>6
  <2>2. CASE \A i \in DOMAIN q : q[i].from # p
    <3>1. \A n \in DOMAIN k : k[n].from # p
      BY <1>2, <1>3, <2>2
    <3>2. On(p, k) = NoLamp
      BY <1>4, <3>1, LastOver
    <3>3. On(p, q) = NoLamp
      BY <2>2, LastOver
    <3> QED BY <3>2, <3>3
  <2> QED BY <2>1, <2>2
<1> QED BY <1>4, <1>6, <1>7 DEF IsWithout

(* What v shows of a lamp, of which w is on its way to v, st stashed by v, *)
(* last what v was told last, pup the puppet and ast the ghost astray.     *)
Shows(w, st, last, pup, ast) ==
    /\ Over(w, st) \in {NoLamp, last}
    /\ Over(w, st) = NoLamp => \/ AsLight(pup) = AsLight(last)
                               \/ AsLight(pup) = Dark /\ ast

(* What the host has heard of a client's lamp: u is on its way, i in the   *)
(* inbox, cache the last that a tick has seen. *)
Heard(u, i, cache, st, pup, ast, light) ==
    /\ AsLight(Over(u, Over(i, cache))) = light
    /\ Over(u, Over(i, st)) \in {NoLamp, light}
    /\ Over(u, Over(i, st)) = NoLamp /\ ~ ast => AsLight(pup) = light

MaybeLights == Lights \cup {NoLamp}

LEMMA ShowsUntold ==
    ASSUME NEW w, NEW st, NEW last \in MaybeLights, NEW pup, NEW ast,
           Shows(w, st, last, pup, ast), last \notin Beams
    PROVE  Shows(w, st, last, pup, FALSE)
<1>1. AsLight(last) = Dark
  BY LampFacts DEF AsLight, MaybeLights
<1> QED BY <1>1 DEF Shows

LEMMA ShowsReplayed ==
    ASSUME NEW w, NEW st, NEW last, NEW pup, NEW ast, NEW r, Shows(w, st, last, pup, ast)
    PROVE  Shows(Over(r, w), st, Over(r, last), pup, ast)
<1>1. CASE r = NoLamp
  BY <1>1 DEF Over
<1>2. CASE r # NoLamp
  BY <1>2 DEF Over, Shows
<1> QED BY <1>1, <1>2

DrainedStash(st, pup) == IF pup # NoLamp THEN NoLamp ELSE st

LEMMA ShowsDrained ==
    ASSUME NEW w, NEW st, NEW last, NEW pup, NEW ast, Shows(w, st, last, pup, ast)
    PROVE  Shows(w, DrainedStash(st, pup), last, Applied(pup, st), ast)
<1>1. CASE pup = NoLamp
  BY <1>1 DEF Applied, DrainedStash
<1>2. CASE pup # NoLamp /\ st = NoLamp
  BY <1>2 DEF Applied, DrainedStash
<1>3. CASE pup # NoLamp /\ st # NoLamp
  BY <1>3 DEF Applied, Shows, Over, AsLight, DrainedStash
<1> QED BY <1>1, <1>2, <1>3

LEMMA ShowsSpawned ==
    ASSUME NEW w, NEW st, NEW last, NEW ast, Shows(w, st, last, NoLamp, ast)
    PROVE  Shows(w, st, last, Dark, ast)
BY LampFacts DEF Shows, AsLight

LEMMA ShowsGone ==
    ASSUME NEW w, NEW st, NEW last, NEW pup \in MaybeLights, NEW ast, Shows(w, st, last, pup, ast),
           w # NoLamp \/ pup \notin Beams
    PROVE  Shows(w, st, last, NoLamp, ast)
<1>1. CASE w # NoLamp
  BY <1>1 DEF Shows, Over
<1>2. CASE pup \notin Beams
  <2>1. AsLight(pup) = AsLight(NoLamp)
    BY <1>2, LampFacts DEF AsLight, MaybeLights
  <2> QED BY <2>1 DEF Shows
<1> QED BY <1>1, <1>2

LEMMA ShowsAstray ==
    ASSUME NEW w, NEW st, NEW last, NEW pup, NEW ast, Shows(w, st, last, pup, ast)
    PROVE  Shows(w, st, last, pup, TRUE) /\ Shows(w, st, last, NoLamp, TRUE)
BY DEF Shows, AsLight

LEMMA ShowsNews ==
    ASSUME NEW light \in Lights, NEW st, NEW pup, NEW ast
    PROVE  Shows(light, st, light, pup, ast)
BY LampFacts DEF Shows, Over

LEMMA ShowsNothing == Shows(NoLamp, NoLamp, NoLamp, NoLamp, FALSE)
BY DEF Shows, Over

LEMMA ShowsHandled ==
    ASSUME NEW w \in MaybeLights, NEW light \in Lights, NEW st \in MaybeLights,
           NEW last \in MaybeLights, NEW pup \in MaybeLights, NEW ast \in BOOLEAN,
           Shows(Over(w, light), st, last, pup, ast)
    PROVE  Shows(w, StashAfter(st, pup # NoLamp, light), last, Applied(pup, light), ast)
<1> USE LampFacts DEF MaybeLights
<1>1. CASE pup = NoLamp
  <2>1. Applied(pup, light) = pup /\ StashAfter(st, pup # NoLamp, light) = light
    BY <1>1 DEF Applied, StashAfter
  <2>2. Over(Over(w, light), st) = Over(w, light)
    BY DEF Over
  <2> QED BY <2>1, <2>2 DEF Shows
<1>2. CASE pup # NoLamp
  <2>1. Applied(pup, light) = light /\ StashAfter(st, pup # NoLamp, light) = NoLamp
    BY <1>2 DEF Applied, StashAfter
  <2>2. Over(Over(w, light), st) = Over(w, light) /\ Over(w, light) # NoLamp
    BY DEF Over
  <2>3. last = Over(w, light)
    BY <2>2 DEF Shows
  <2>4. Over(w, NoLamp) = w
    BY DEF Over
  <2>5. w = NoLamp => last = light
    BY <2>3 DEF Over
  <2>6. w # NoLamp => last = w
    BY <2>3 DEF Over
  <2> QED BY <2>1, <2>4, <2>5, <2>6 DEF Shows
<1> QED BY <1>1, <1>2

LEMMA HeardInbox ==
    ASSUME NEW k, NEW l \in Lights, NEW i, NEW cache, NEW st, NEW pup, NEW ast, NEW light,
           Heard(Over(k, l), i, cache, st, pup, ast, light)
    PROVE  Heard(k, l, cache, st, pup, ast, light)
<1>1. Over(k, l) # NoLamp
  BY LampFacts DEF Over
<1>2. \A x, y : Over(Over(k, l), x) = Over(k, Over(l, y))
  BY <1>1, LampFacts DEF Over
<1> QED BY <1>2 DEF Heard

LEMMA HeardTicked ==
    ASSUME NEW u, NEW i, NEW cache, NEW st, NEW pup, NEW ast, NEW light \in Lights,
           Heard(u, i, cache, st, pup, ast, light)
    PROVE  Heard(u, NoLamp, Over(i, cache), DrainedStash(Over(i, st), pup),
                 Applied(pup, Over(i, st)), ast, light)
<1>1. \A x : Over(NoLamp, x) = x
  BY DEF Over
<1>2. CASE pup = NoLamp
  <2>1. Applied(pup, Over(i, st)) = pup /\ DrainedStash(Over(i, st), pup) = Over(i, st)
    BY <1>2 DEF Applied, DrainedStash
  <2> QED BY <1>1, <2>1 DEF Heard
<1>3. CASE pup # NoLamp /\ Over(i, st) = NoLamp
  <2>1. Applied(pup, Over(i, st)) = pup /\ DrainedStash(Over(i, st), pup) = Over(i, st)
    BY <1>3 DEF Applied, DrainedStash
  <2> QED BY <1>1, <2>1 DEF Heard
<1>4. CASE pup # NoLamp /\ Over(i, st) # NoLamp
  <2>1. Applied(pup, Over(i, st)) = Over(i, st) /\ DrainedStash(Over(i, st), pup) = NoLamp
    BY <1>4 DEF Applied, DrainedStash
  <2>2. AsLight(Over(u, Over(i, cache))) = light
    BY DEF Heard
  <2>3. CASE u = NoLamp
    <3>1. Over(i, st) = light
      BY <1>1, <1>4, <2>3 DEF Heard
    <3> QED BY <1>1, <1>4, <2>1, <2>2, <2>3, <3>1 DEF Heard, AsLight
  <2>4. CASE u # NoLamp
    <3>1. \A x : Over(u, x) = u
      BY <2>4 DEF Over
    <3>2. u = light
      BY <2>4, <3>1 DEF Heard
    <3> QED BY <1>1, <2>1, <2>2, <2>4, <3>1, <3>2 DEF Heard
  <2> QED BY <2>3, <2>4
<1> QED BY <1>2, <1>3, <1>4

LEMMA HeardSpawned ==
    ASSUME NEW u, NEW i, NEW cache, NEW st, NEW ast, NEW light,
           Heard(u, i, cache, st, NoLamp, ast, light)
    PROVE  Heard(u, i, cache, st, Dark, ast, light)
BY LampFacts DEF Heard, AsLight

LEMMA HeardGone ==
    ASSUME NEW u, NEW i, NEW cache, NEW st, NEW pup \in MaybeLights, NEW ast, NEW light,
           Heard(u, i, cache, st, pup, ast, light), Over(u, i) # NoLamp \/ pup \notin Beams
    PROVE  Heard(u, i, cache, st, NoLamp, ast, light)
<1>1. CASE Over(u, i) # NoLamp
  <2>1. Over(u, Over(i, st)) # NoLamp
    BY <1>1 DEF Over
  <2> QED BY <2>1 DEF Heard
<1>2. CASE pup \notin Beams
  <2>1. AsLight(NoLamp) = AsLight(pup)
    BY <1>2, LampFacts DEF AsLight, MaybeLights
  <2> QED BY <2>1 DEF Heard
<1> QED BY <1>1, <1>2

LEMMA HeardAstray ==
    ASSUME NEW u, NEW i, NEW cache, NEW st, NEW pup, NEW ast, NEW light,
           Heard(u, i, cache, st, pup, ast, light)
    PROVE  Heard(u, i, cache, st, NoLamp, TRUE, light)
BY DEF Heard

LEMMA HeardNews ==
    ASSUME NEW light \in Lights, NEW i, NEW cache, NEW st, NEW pup, NEW ast
    PROVE  Heard(light, i, cache, st, pup, ast, light)
<1>1. \A x : Over(light, x) = light
  BY LampFacts DEF Over
<1> QED BY <1>1, LampFacts DEF Heard, AsLight

LEMMA HeardNothing ==
    ASSUME NEW pup, NEW ast, AsLight(pup) = Dark
    PROVE  Heard(NoLamp, NoLamp, NoLamp, NoLamp, pup, ast, Dark)
BY DEF Heard, Over, AsLight

-----------------------------------------------------------------------------
(* The inductive invariant. *)

ShownTo(v, p) ==
    Shows(On(p, down[v]), stash[v][p], lampTold[v][p], puppet[v][p], astray[v][p])

HeardOf(p) ==
    Heard(On(p, up[p]), On(p, inbox), lampCache[p], stash[0][p], puppet[0][p],
          astray[0][p], lamp[p])

(* What v was told last of p is so, as soon as the host has passed on what *)
(* p has said. *)
ToldRight(v, p) ==
    ~ astray[v][p] =>
        /\ p = 0 /\ v \in joined /\ v \in edges[0] /\ debug = "idle" =>
              AsLight(lampTold[v][p]) = lamp[p]
        /\ p \in joined /\ v \in joined /\ v \in edges[0] /\ On(p, up[p]) = NoLamp =>
              AsLight(lampTold[v][p]) = lamp[p]
        /\ p \in linked \ joined => AsLight(lampTold[v][p]) = Dark

(* A slot the host's tick knows nothing of, one that is not ready, and what *)
(* its client has sent. *)
UnknownSlot(p) ==
    stash[0][p] = NoLamp /\ lampCache[p] = NoLamp /\ AsLight(puppet[0][p]) = Dark
QuietSlot(p) ==
    up[p] = <<>> /\ On(p, inbox) = NoLamp /\ lamp[p] = Dark
OwnWords(p) ==
    AsLight(lastSig[p]) = lamp[p] /\ \A i \in DOMAIN up[p] : up[p][i].from = p

SlotsInv ==
    /\ edges[0] \cap linked \subseteq joined
    /\ \A p \in LampClients :
          /\ p \notin edges[0] => UnknownSlot(p)
          /\ p \notin joined => QuietSlot(p)
          /\ OwnWords(p)

LampViewsInv ==
    /\ \A p \in joined : HeardOf(p)
    /\ \A v \in LampClients, p \in LampPlayers : v # p => ShownTo(v, p) /\ ToldRight(v, p)

LampInv == FlashlightTypeOK /\ SlotsInv /\ LampViewsInv

-----------------------------------------------------------------------------
(* Types. *)

LEMMA LampTypes ==
    ASSUME FlashlightTypeOK
    PROVE  /\ \A p \in LampPlayers : lamp[p] \in Lights /\ lastSig[p] \in MaybeLights
           /\ \A v, p \in LampPlayers :
                 /\ stash[v][p] \in MaybeLights /\ puppet[v][p] \in MaybeLights
                 /\ lampTold[v][p] \in MaybeLights /\ astray[v][p] \in BOOLEAN
           /\ \A c \in LampClients :
                 /\ up[c] \in Seq(LampMsgs) /\ down[c] \in Seq(LampMsgs)
                 /\ lampCache[c] \in MaybeLights
           /\ inbox \in Seq(LampMsgs)
           /\ joined \subseteq linked /\ linked \subseteq LampClients
BY DEF FlashlightTypeOK, MaybeLights

LEMMA OnTypes ==
    ASSUME FlashlightTypeOK, NEW p
    PROVE  /\ On(p, inbox) \in MaybeLights
           /\ \A c \in LampClients : On(p, up[c]) \in MaybeLights /\ On(p, down[c]) \in MaybeLights
BY LampTypes, LastOver DEF MaybeLights

(* What is on its way to the host. *)
LEMMA OnItsWayToHost ==
    ASSUME FlashlightTypeOK, NEW p \in LampClients
    PROVE  OnItsWay(0, p) <=> Over(On(p, up[p]), On(p, inbox)) # NoLamp
<1>1. On(p, inbox \o up[p]) = Over(On(p, up[p]), On(p, inbox))
  BY LampTypes, OnConcat
<1> QED BY <1>1 DEF OnItsWay, On

LEMMA OnItsWayToClient ==
    ASSUME FlashlightTypeOK, NEW v \in LampClients, NEW p
    PROVE  OnItsWay(v, p) <=> On(p, down[v]) # NoLamp
BY LampFacts DEF OnItsWay, On

-----------------------------------------------------------------------------
(* Announcements. *)

LEMMA ToldSteps ==
    ASSUME FlashlightTypeOK, NEW p \in LampPlayers, NEW vs, NEW light \in Lights,
           Told(p, vs, light)
    PROVE  /\ lampTold' \in [LampPlayers -> [LampPlayers -> MaybeLights]]
           /\ astray' \in [LampPlayers -> [LampPlayers -> BOOLEAN]]
           /\ \A v, q \in LampPlayers :
                 /\ v \in vs /\ q = p => /\ lampTold'[v][q] = light
                                         /\ ~ astray'[v][q] => light = lamp'[p]
                 /\ v \notin vs \/ q # p => /\ lampTold'[v][q] = lampTold[v][q]
                                            /\ astray'[v][q] = astray[v][q]
<1>0. /\ lampTold \in [LampPlayers -> [LampPlayers -> MaybeLights]]
      /\ astray \in [LampPlayers -> [LampPlayers -> BOOLEAN]]
  BY DEF FlashlightTypeOK, MaybeLights
<1>1. /\ lampTold' \in [LampPlayers -> [LampPlayers -> MaybeLights]]
      /\ \A v, q \in LampPlayers :
            lampTold'[v][q] = IF v \in vs /\ q = p THEN light ELSE lampTold[v][q]
  BY <1>0 DEF Told, MaybeLights
<1>2. PICK wrong \in BOOLEAN : wrong = (light # lamp'[p])
  OBVIOUS
<1>3. astray' = [v \in LampPlayers |->
          IF v \in vs THEN [astray[v] EXCEPT ![p] = wrong] ELSE astray[v]]
  BY <1>2 DEF Told
<1>4. /\ astray' \in [LampPlayers -> [LampPlayers -> BOOLEAN]]
      /\ \A v, q \in LampPlayers :
            /\ v \in vs /\ q = p => astray'[v][q] = wrong
            /\ v \notin vs \/ q # p => astray'[v][q] = astray[v][q]
  BY <1>0, <1>3
<1> QED BY <1>1, <1>2, <1>4

(* The host's announcement goes to every client that is ready. *)
LEMMA HostSends ==
    ASSUME FlashlightTypeOK, NEW light \in Lights, SendLamp(0, light)
    PROVE  /\ lastSig' \in [LampPlayers -> MaybeLights]
           /\ \A p \in LampClients : lastSig'[p] = lastSig[p]
           /\ down' \in [LampClients -> Seq(LampMsgs)] /\ up' = up
           /\ \A v \in LampClients :
                 /\ v \in joined => On(0, down'[v]) = light
                 /\ \A p : v \notin joined \/ p # 0 => On(p, down'[v]) = On(p, down[v])
           /\ Told(0, joined, light)
<1> DEFINE msg == [from |-> 0, light |-> light]
<1>1. msg \in LampMsgs /\ msg.from = 0 /\ msg.light = light
  BY LampFacts DEF LampMsgs
<1> HIDE DEF msg
<1>2. /\ lastSig' = [lastSig EXCEPT ![0] = light] /\ up' = up /\ Told(0, joined, light)
      /\ down' = [c \in LampClients |-> IF c \in joined THEN Append(down[c], msg) ELSE down[c]]
  BY DEF SendLamp, msg
<1>3. lastSig' \in [LampPlayers -> MaybeLights] /\ \A p \in LampClients : lastSig'[p] = lastSig[p]
  BY <1>2, LampFacts DEF FlashlightTypeOK, MaybeLights
<1>4. ASSUME NEW v \in LampClients
      PROVE  /\ down'[v] \in Seq(LampMsgs)
             /\ v \in joined => On(0, down'[v]) = light
             /\ \A p : v \notin joined \/ p # 0 => On(p, down'[v]) = On(p, down[v])
  <2>1. down[v] \in Seq(LampMsgs)
    BY LampTypes
  <2>2. CASE v \in joined
    <3>1. down'[v] = Append(down[v], msg)
      BY <1>2, <2>2
    <3> QED BY <1>1, <2>1, <2>2, <3>1, OnAppend
  <2>3. CASE v \notin joined
    BY <1>2, <2>1, <2>3
  <2> QED BY <2>2, <2>3
<1>5. down' \in [LampClients -> Seq(LampMsgs)]
  BY <1>2, <1>4
<1> QED BY <1>2, <1>3, <1>4, <1>5

(* A client's announcement goes to the host. *)
LEMMA ClientSends ==
    ASSUME FlashlightTypeOK, NEW c \in LampClients, NEW light \in Lights, SendLamp(c, light)
    PROVE  /\ lastSig' \in [LampPlayers -> MaybeLights] /\ lastSig'[c] = light
           /\ \A p \in LampClients : p # c => lastSig'[p] = lastSig[p]
           /\ up' \in [LampClients -> Seq(LampMsgs)] /\ down' = down
           /\ \A p \in LampClients : p # c => up'[p] = up[p]
           /\ On(c, up'[c]) = light
           /\ (\A i \in DOMAIN up[c] : up[c][i].from = c) =>
                 \A i \in DOMAIN up'[c] : up'[c][i].from = c
           /\ Told(c, {0}, light)
<1> DEFINE msg == [from |-> c, light |-> light]
<1>1. msg \in LampMsgs /\ msg.from = c /\ msg.light = light
  BY LampFacts DEF LampMsgs
<1> HIDE DEF msg
<1>2. /\ lastSig' = [lastSig EXCEPT ![c] = light] /\ down' = down /\ Told(c, {0}, light)
      /\ up' = [up EXCEPT ![c] = Append(@, msg)]
  BY LampFacts DEF SendLamp, msg
<1>3. /\ lastSig' \in [LampPlayers -> MaybeLights] /\ lastSig'[c] = light
      /\ \A p \in LampClients : p # c => lastSig'[p] = lastSig[p]
  BY <1>2, LampFacts DEF FlashlightTypeOK, MaybeLights
<1>4. up[c] \in Seq(LampMsgs) /\ up \in [LampClients -> Seq(LampMsgs)]
  BY DEF FlashlightTypeOK
<1>5. up'[c] = Append(up[c], msg) /\ \A p \in LampClients : p # c => up'[p] = up[p]
  BY <1>2, <1>4
<1>6. up'[c] \in Seq(LampMsgs) /\ On(c, up'[c]) = light
  BY <1>1, <1>4, <1>5, OnAppend
<1>7. up' \in [LampClients -> Seq(LampMsgs)]
  BY <1>2, <1>4, <1>5, <1>6
<1>8. ASSUME \A i \in DOMAIN up[c] : up[c][i].from = c
      PROVE  \A i \in DOMAIN up'[c] : up'[c][i].from = c
  <2>1. \A i \in DOMAIN up'[c] : (i \in DOMAIN up[c] /\ up'[c][i] = up[c][i]) \/ up'[c][i] = msg
    BY <1>1, <1>4, <1>5, AppendElements
  <2> QED BY <1>1, <1>8, <2>1
<1> QED BY <1>2, <1>3, <1>5, <1>6, <1>7, <1>8

LEMMA QuietSteps ==
    ASSUME FlashlightTypeOK, NEW p, KeepQuiet(p)
    PROVE  /\ astray' \in [LampPlayers -> [LampPlayers -> BOOLEAN]]
           /\ \A v, q \in LampPlayers :
                 /\ astray'[v][q] = astray[v][q] \/ (v \in joined /\ q = 0 /\ astray'[v][q] = TRUE)
                 /\ p = 0 /\ v \in joined /\ lastSig[0] = lamp'[0] /\ ~ astray'[v][0] =>
                       lampTold[v][0] = lamp'[0]
           /\ lastSig' = lastSig /\ up' = up /\ down' = down /\ lampTold' = lampTold
<1>1. astray \in [LampPlayers -> [LampPlayers -> BOOLEAN]] /\ 0 \in LampPlayers
  BY LampFacts DEF FlashlightTypeOK
<1>2. /\ astray' = [v \in LampPlayers |->
            IF p = 0 /\ v \in joined /\ lastSig[0] = lamp'[0] /\ lampTold[v][0] # lamp'[0]
            THEN [astray[v] EXCEPT ![0] = TRUE] ELSE astray[v]]
      /\ lastSig' = lastSig /\ up' = up /\ down' = down /\ lampTold' = lampTold
  BY DEF KeepQuiet
<1>3. ASSUME NEW v \in LampPlayers
      PROVE  /\ astray'[v] \in [LampPlayers -> BOOLEAN]
             /\ \A q \in LampPlayers :
                  /\ astray'[v][q] = astray[v][q] \/ (v \in joined /\ q = 0 /\ astray'[v][q] = TRUE)
                  /\ p = 0 /\ v \in joined /\ lastSig[0] = lamp'[0] /\ ~ astray'[v][0] =>
                       lampTold[v][0] = lamp'[0]
  <2>1. CASE p = 0 /\ v \in joined /\ lastSig[0] = lamp'[0] /\ lampTold[v][0] # lamp'[0]
    <3>1. astray'[v] = [astray[v] EXCEPT ![0] = TRUE]
      BY <1>2, <2>1
    <3>2. astray[v] \in [LampPlayers -> BOOLEAN]
      BY <1>1
    <3>3. /\ astray'[v] \in [LampPlayers -> BOOLEAN] /\ astray'[v][0] = TRUE
          /\ \A q \in LampPlayers : q # 0 => astray'[v][q] = astray[v][q]
      BY <1>1, <3>1, <3>2
    <3> QED BY <2>1, <3>3
  <2>2. CASE ~ (p = 0 /\ v \in joined /\ lastSig[0] = lamp'[0] /\ lampTold[v][0] # lamp'[0])
    <3>1. astray'[v] = astray[v]
      BY <1>2, <2>2
    <3>2. astray[v] \in [LampPlayers -> BOOLEAN]
      BY <1>1
    <3> QED BY <2>2, <3>1, <3>2
  <2> QED BY <2>1, <2>2
<1>4. astray' \in [LampPlayers -> [LampPlayers -> BOOLEAN]]
  BY <1>2, <1>3
<1> QED BY <1>2, <1>3, <1>4

-----------------------------------------------------------------------------
(* The host's own lamp. *)

LEMMA HostSpeaks ==
    ASSUME LampInv, lamp' \in [LampPlayers -> Lights],
           \A p \in LampClients : lamp'[p] = lamp[p],
           debug' \in Lights \cup {"idle", "flipped"},
           KeepQuiet(0) \/ \E light \in Lights : SendLamp(0, light),
           UNCHANGED <<peerVars, inbox, lampCache, showVars>>,
           \A v \in joined : debug' = "idle" /\ ~ astray'[v][0] => AsLight(lampTold'[v][0]) = lamp'[0]
    PROVE  LampInv'
<1>0. /\ FlashlightTypeOK /\ SlotsInv /\ LampViewsInv
      /\ linked' = linked /\ joined' = joined /\ edges' = edges /\ inbox' = inbox
      /\ lampCache' = lampCache /\ stash' = stash /\ puppet' = puppet
  BY DEF LampInv, peerVars, showVars
<1>1. /\ up' = up /\ down' \in [LampClients -> Seq(LampMsgs)]
      /\ lastSig' \in [LampPlayers -> MaybeLights]
      /\ \A p \in LampClients : lastSig'[p] = lastSig[p]
      /\ lampTold' \in [LampPlayers -> [LampPlayers -> MaybeLights]]
      /\ astray' \in [LampPlayers -> [LampPlayers -> BOOLEAN]]
      /\ \A v \in LampPlayers, p \in LampClients :
            lampTold'[v][p] = lampTold[v][p] /\ astray'[v][p] = astray[v][p]
      /\ \A v, p \in LampPlayers : v \notin joined =>
            lampTold'[v][p] = lampTold[v][p] /\ astray'[v][p] = astray[v][p]
      /\ \A v \in LampClients, p \in LampPlayers : p # 0 \/ v \notin joined =>
            On(p, down'[v]) = On(p, down[v])
  <2>1. CASE KeepQuiet(0)
    <3>1. down \in [LampClients -> Seq(LampMsgs)] /\ lastSig \in [LampPlayers -> MaybeLights]
          /\ lampTold \in [LampPlayers -> [LampPlayers -> MaybeLights]]
      BY <1>0 DEF FlashlightTypeOK, MaybeLights
    <3> QED BY <1>0, <2>1, <3>1, QuietSteps, LampFacts
  <2>2. CASE \E light \in Lights : SendLamp(0, light)
    <3>0. PICK light \in Lights : SendLamp(0, light)
      BY <2>2
    <3>1. Told(0, joined, light)
      BY <1>0, <3>0, HostSends
    <3>2. /\ lampTold' \in [LampPlayers -> [LampPlayers -> MaybeLights]]
          /\ astray' \in [LampPlayers -> [LampPlayers -> BOOLEAN]]
          /\ \A v, q \in LampPlayers : v \notin joined \/ q # 0 =>
                lampTold'[v][q] = lampTold[v][q] /\ astray'[v][q] = astray[v][q]
      BY <1>0, <3>1, ToldSteps, LampFacts
    <3>3. /\ lastSig' \in [LampPlayers -> MaybeLights]
          /\ \A p \in LampClients : lastSig'[p] = lastSig[p]
          /\ down' \in [LampClients -> Seq(LampMsgs)] /\ up' = up
      BY <1>0, <3>0, HostSends
    <3>4. \A v \in LampClients, p \in LampPlayers : p # 0 \/ v \notin joined =>
            On(p, down'[v]) = On(p, down[v])
      BY <1>0, <3>0, HostSends
    <3>5. \A p \in LampClients : p \in LampPlayers /\ p # 0
      BY LampFacts
    <3> QED BY <3>2, <3>3, <3>4, <3>5
  <2> QED BY <2>1, <2>2
<1>2. \A v \in joined : ShownTo(v, 0)'
  <2> SUFFICES ASSUME NEW v \in joined PROVE ShownTo(v, 0)'
    OBVIOUS
  <2>0. v \in LampClients /\ v \in LampPlayers /\ 0 \in LampPlayers /\ v # 0
    BY <1>0, LampTypes, LampFacts
  <2>1. Shows(On(0, down[v]), stash[v][0], lampTold[v][0], puppet[v][0], astray[v][0])
    BY <1>0, <2>0 DEF LampViewsInv, ShownTo
  <2>2. CASE KeepQuiet(0)
    <3>1. /\ astray'[v][0] = astray[v][0] \/ astray'[v][0] = TRUE
          /\ down' = down /\ lampTold' = lampTold
      BY <1>0, <2>0, <2>2, QuietSteps
    <3>3. Shows(On(0, down[v]), stash[v][0], lampTold[v][0], puppet[v][0], TRUE)
      BY <2>1 DEF Shows
    <3> QED BY <1>0, <2>1, <3>1, <3>3 DEF ShownTo
  <2>3. ASSUME NEW light \in Lights, SendLamp(0, light) PROVE ShownTo(v, 0)'
    <3>1. Told(0, joined, light) /\ On(0, down'[v]) = light
      BY <1>0, <2>0, <2>3, HostSends
    <3>2. lampTold'[v][0] = light
      BY <1>0, <2>0, <3>1, ToldSteps
    <3> QED BY <3>1, <3>2, ShowsNews DEF ShownTo
  <2> QED BY <2>2, <2>3
<1>3. FlashlightTypeOK'
  BY <1>0, <1>1 DEF FlashlightTypeOK, MaybeLights
<1>4. SlotsInv'
  BY <1>0, <1>1 DEF SlotsInv, UnknownSlot, QuietSlot, OwnWords
<1>5. \A p \in joined : HeardOf(p)'
  <2> SUFFICES ASSUME NEW p \in joined PROVE HeardOf(p)'
    OBVIOUS
  <2>1. p \in LampClients /\ 0 \in LampPlayers
    BY <1>0, LampTypes, LampFacts
  <2>2. HeardOf(p)
    BY <1>0 DEF LampViewsInv
  <2>3. lamp'[p] = lamp[p] /\ up' = up /\ astray'[0][p] = astray[0][p]
    BY <1>1, <2>1
  <2> QED BY <1>0, <2>2, <2>3 DEF HeardOf
<1>6. ASSUME NEW v \in LampClients, NEW p \in LampPlayers, v # p
      PROVE  ShownTo(v, p)' /\ ToldRight(v, p)'
  <2>0. ShownTo(v, p) /\ ToldRight(v, p) /\ v \in LampPlayers
    BY <1>0, <1>6, LampFacts DEF LampViewsInv
  <2>1. CASE p # 0 \/ v \notin joined
    <3>1. /\ lampTold'[v][p] = lampTold[v][p] /\ astray'[v][p] = astray[v][p]
          /\ On(p, down'[v]) = On(p, down[v])
      <4>1. CASE v \notin joined
        BY <1>1, <2>0, <4>1
      <4>2. CASE p # 0
        <5>1. p \in LampClients
          BY <4>2, LampFacts
        <5> QED BY <1>1, <2>0, <4>2, <5>1
      <4> QED BY <2>1, <4>1, <4>2
    <3>2. p # 0 => lamp'[p] = lamp[p]
      BY LampFacts
    <3>3. ShownTo(v, p)'
      BY <1>0, <2>0, <3>1 DEF ShownTo
    <3>4. ToldRight(v, p)'
      BY <1>0, <1>1, <2>0, <2>1, <3>1, <3>2 DEF ToldRight
    <3> QED BY <3>3, <3>4
  <2>2. CASE p = 0 /\ v \in joined
    <3>1. 0 \notin joined /\ 0 \notin linked
      BY <1>0, LampTypes, LampFacts
    <3>2. ToldRight(v, p)'
      BY <1>0, <2>2, <3>1 DEF ToldRight
    <3> QED BY <1>2, <2>2, <3>2
  <2> QED BY <2>1, <2>2
<1>7. LampViewsInv'
  BY <1>0, <1>5, <1>6 DEF LampViewsInv
<1> QED BY <1>3, <1>4, <1>7 DEF LampInv

LEMMA TouchByHostKeeps ==
    ASSUME LampInv, NEW light \in Lights, Touch(0, light)
    PROVE  LampInv'
<1>0. FlashlightTypeOK /\ joined \subseteq LampPlayers /\ 0 \in LampPlayers
  BY LampTypes, LampFacts DEF LampInv
<1>1. /\ lamp' = [lamp EXCEPT ![0] = light] /\ debug' = debug
      /\ UNCHANGED <<peerVars, inbox, lampCache, showVars>>
      /\ \/ (lastSig[0] = light \/ joined = {}) /\ KeepQuiet(0)
         \/ SendLamp(0, light)
  BY DEF Touch, SameSig
<1>2. lamp' \in [LampPlayers -> Lights] /\ lamp'[0] = light /\ \A p \in LampClients : lamp'[p] = lamp[p]
  BY <1>0, <1>1, LampFacts DEF FlashlightTypeOK
<1>3. ASSUME NEW v \in joined, ~ astray'[v][0] PROVE AsLight(lampTold'[v][0]) = lamp'[0]
  <2>1. CASE KeepQuiet(0) /\ lastSig[0] = light
    <3>1. lampTold'[v][0] = light
      BY <1>0, <1>2, <1>3, <2>1, QuietSteps
    <3> QED BY <1>2, <3>1, LampFacts DEF AsLight
  <2>2. CASE SendLamp(0, light)
    <3>1. Told(0, joined, light)
      BY <1>0, <2>2, HostSends
    <3>2. lampTold'[v][0] = light
      BY <1>0, <3>1, ToldSteps
    <3> QED BY <1>2, <3>2, LampFacts DEF AsLight
  <2> QED BY <1>1, <2>1, <2>2
<1>4. debug' \in Lights \cup {"idle", "flipped"}
  BY <1>0, <1>1 DEF FlashlightTypeOK
<1> QED BY <1>1, <1>2, <1>3, <1>4, HostSpeaks

LEMMA DebugFlipsKeeps ==
    ASSUME LampInv, NEW light \in Lights, DebugFlips(light)
    PROVE  LampInv'
<1>0. FlashlightTypeOK /\ 0 \in LampPlayers
  BY LampFacts DEF LampInv
<1>1. /\ lamp' = [lamp EXCEPT ![0] = light] /\ debug' = "flipped" /\ KeepQuiet(0)
      /\ UNCHANGED <<peerVars, inbox, lampCache, showVars>>
  BY DEF DebugFlips
<1>2. lamp' \in [LampPlayers -> Lights] /\ \A p \in LampClients : lamp'[p] = lamp[p]
  BY <1>0, <1>1, LampFacts DEF FlashlightTypeOK
<1>3. debug' # "idle" /\ debug' \in Lights \cup {"idle", "flipped"}
  BY <1>1
<1> QED BY <1>1, <1>2, <1>3, HostSpeaks

LEMMA DebugReadsKeeps ==
    ASSUME LampInv, DebugReads
    PROVE  LampInv'
<1>0. FlashlightTypeOK /\ SlotsInv /\ LampViewsInv /\ 0 \in LampPlayers
  BY LampFacts DEF LampInv
<1>1. /\ lamp' = lamp /\ lastSig' = lastSig /\ linked' = linked /\ joined' = joined /\ edges' = edges
      /\ up' = up /\ down' = down /\ inbox' = inbox /\ lampCache' = lampCache
      /\ stash' = stash /\ puppet' = puppet /\ lampTold' = lampTold /\ astray' = astray
      /\ debug' = IF joined = {} THEN "idle" ELSE lamp[0]
  BY DEF DebugReads, peerVars, pathVars, showVars, ghostVars
<1>2. lamp[0] \in Lights
  BY <1>0, LampTypes
<1>3. FlashlightTypeOK'
  BY <1>0, <1>1, <1>2 DEF FlashlightTypeOK
<1>4. SlotsInv'
  BY <1>0, <1>1 DEF SlotsInv, UnknownSlot, QuietSlot, OwnWords
<1>5. joined # {} => debug' # "idle"
  BY <1>1, <1>2, LampFacts
<1>6. ASSUME NEW v \in LampClients, NEW p \in LampPlayers, v # p
      PROVE  ShownTo(v, p)' /\ ToldRight(v, p)'
  <2>1. ShownTo(v, p) /\ ToldRight(v, p)
    BY <1>0, <1>6 DEF LampViewsInv
  <2>2. ShownTo(v, p)'
    BY <1>1, <2>1 DEF ShownTo
  <2>3. ToldRight(v, p)'
    BY <1>1, <1>5, <2>1 DEF ToldRight
  <2> QED BY <2>2, <2>3
<1>7. \A p \in joined : HeardOf(p)'
  BY <1>0, <1>1 DEF LampViewsInv, HeardOf
<1> QED BY <1>1, <1>3, <1>4, <1>6, <1>7 DEF LampInv, LampViewsInv

LEMMA DebugSendsKeeps ==
    ASSUME LampInv, DebugSends
    PROVE  LampInv'
<1>0. FlashlightTypeOK /\ joined \subseteq LampPlayers /\ 0 \in LampPlayers
  BY LampTypes, LampFacts DEF LampInv
<1>1. /\ debug \in Lights /\ debug' = "idle" /\ lamp' = lamp
      /\ UNCHANGED <<peerVars, inbox, lampCache, showVars>>
      /\ IF joined = {} THEN UNCHANGED <<lastSig, up, down, ghostVars>> ELSE SendLamp(0, debug)
  BY DEF DebugSends
<1>2. lamp' \in [LampPlayers -> Lights] /\ \A p \in LampClients : lamp'[p] = lamp[p]
  BY <1>0, <1>1 DEF FlashlightTypeOK
<1>3. CASE joined # {}
  <2>1. SendLamp(0, debug) /\ Told(0, joined, debug)
    BY <1>0, <1>1, <1>3, HostSends
  <2>2. ASSUME NEW v \in joined, ~ astray'[v][0] PROVE AsLight(lampTold'[v][0]) = lamp'[0]
    <3>1. lampTold'[v][0] = debug /\ debug = lamp'[0]
      BY <1>0, <1>1, <2>1, <2>2, ToldSteps
    <3> QED BY <1>1, <3>1, LampFacts DEF AsLight
  <2> QED BY <1>1, <1>2, <2>1, <2>2, HostSpeaks
<1>4. CASE joined = {}
  <2>1. /\ FlashlightTypeOK /\ SlotsInv /\ LampViewsInv
        /\ lastSig' = lastSig /\ linked' = linked /\ joined' = joined /\ edges' = edges
        /\ up' = up /\ down' = down /\ inbox' = inbox /\ lampCache' = lampCache
        /\ stash' = stash /\ puppet' = puppet /\ lampTold' = lampTold /\ astray' = astray
    BY <1>1, <1>4 DEF LampInv, peerVars, showVars, ghostVars
  <2>2. FlashlightTypeOK'
    BY <1>1, <2>1 DEF FlashlightTypeOK
  <2>3. SlotsInv'
    BY <1>1, <2>1 DEF SlotsInv, UnknownSlot, QuietSlot, OwnWords
  <2>4. LampViewsInv'
    BY <1>1, <1>4, <2>1 DEF LampViewsInv, ShownTo, ToldRight
  <2> QED BY <2>2, <2>3, <2>4 DEF LampInv
<1> QED BY <1>3, <1>4

-----------------------------------------------------------------------------
(* A client's own lamp, and its tick. *)

LEMMA DrainedSteps ==
    ASSUME FlashlightTypeOK, NEW c \in LampClients, Drained(c)
    PROVE  /\ stash' \in [LampPlayers -> [LampPlayers -> MaybeLights]]
           /\ puppet' \in [LampPlayers -> [LampPlayers -> MaybeLights]]
           /\ \A v \in LampPlayers : v # c => stash'[v] = stash[v] /\ puppet'[v] = puppet[v]
           /\ \A p \in LampPlayers :
                 /\ stash'[c][p] = DrainedStash(stash[c][p], puppet[c][p])
                 /\ puppet'[c][p] = Applied(puppet[c][p], stash[c][p])
<1>1. /\ stash \in [LampPlayers -> [LampPlayers -> MaybeLights]]
      /\ puppet \in [LampPlayers -> [LampPlayers -> MaybeLights]]
      /\ c \in LampPlayers
  BY LampFacts DEF FlashlightTypeOK, MaybeLights
<1>2. \A p \in LampPlayers : Applied(puppet[c][p], stash[c][p]) \in MaybeLights
  BY <1>1 DEF Applied, MaybeLights
<1>3. \A p \in LampPlayers : (IF puppet[c][p] # NoLamp THEN NoLamp ELSE stash[c][p]) \in MaybeLights
  BY <1>1 DEF MaybeLights
<1>4. [p \in LampPlayers |-> Applied(puppet[c][p], stash[c][p])] \in [LampPlayers -> MaybeLights]
  BY <1>2
<1>5. [p \in LampPlayers |-> IF puppet[c][p] # NoLamp THEN NoLamp ELSE stash[c][p]]
          \in [LampPlayers -> MaybeLights]
  BY <1>3
<1> QED BY <1>1, <1>4, <1>5 DEF Drained, DrainedStash

LEMMA ClientSpeaks ==
    ASSUME LampInv, NEW c \in joined, lamp' \in [LampPlayers -> Lights],
           \A p \in LampPlayers : p # c => lamp'[p] = lamp[p],
           \/ SendLamp(c, lamp'[c])
           \/ lamp' = lamp /\ UNCHANGED <<lastSig, up, down, ghostVars>>,
           edges' \in [LampPlayers -> SUBSET LampPlayers], edges'[0] = edges[0],
           UNCHANGED <<debug, linked, joined, inbox, lampCache>>,
           Drained(c) \/ UNCHANGED showVars
    PROVE  LampInv'
<1>0. /\ FlashlightTypeOK /\ SlotsInv /\ LampViewsInv
      /\ debug' = debug /\ linked' = linked /\ joined' = joined /\ inbox' = inbox
      /\ lampCache' = lampCache /\ edges'[0] = edges[0]
  BY DEF LampInv
<1>c. c \in LampClients /\ c \in LampPlayers /\ 0 \in LampPlayers /\ c # 0 /\ lamp'[c] \in Lights
  BY <1>0, LampTypes, LampFacts
<1>1. /\ lastSig' \in [LampPlayers -> MaybeLights]
      /\ up' \in [LampClients -> Seq(LampMsgs)] /\ down' = down
      /\ lampTold' \in [LampPlayers -> [LampPlayers -> MaybeLights]]
      /\ astray' \in [LampPlayers -> [LampPlayers -> BOOLEAN]]
      /\ \A p \in LampClients : p # c => lastSig'[p] = lastSig[p] /\ up'[p] = up[p]
      /\ \A v \in LampClients, p \in LampPlayers :
            lampTold'[v][p] = lampTold[v][p] /\ astray'[v][p] = astray[v][p]
      /\ \A p \in LampPlayers : p # c => astray'[0][p] = astray[0][p]
      /\ OwnWords(c)'
      /\ \/ On(c, up'[c]) = lamp'[c]
         \/ up' = up /\ lamp' = lamp /\ astray' = astray
  <2>0. OwnWords(c)
    BY <1>0, <1>c DEF SlotsInv
  <2>1. CASE SendLamp(c, lamp'[c])
    <3>1. Told(c, {0}, lamp'[c])
      BY <1>0, <1>c, <2>1, ClientSends
    <3>2. /\ lampTold' \in [LampPlayers -> [LampPlayers -> MaybeLights]]
          /\ astray' \in [LampPlayers -> [LampPlayers -> BOOLEAN]]
          /\ \A v, q \in LampPlayers : v \notin {0} \/ q # c =>
                lampTold'[v][q] = lampTold[v][q] /\ astray'[v][q] = astray[v][q]
      BY <1>0, <1>c, <3>1, ToldSteps
    <3>3. /\ lastSig' \in [LampPlayers -> MaybeLights] /\ lastSig'[c] = lamp'[c]
          /\ up' \in [LampClients -> Seq(LampMsgs)] /\ down' = down
          /\ \A p \in LampClients : p # c => lastSig'[p] = lastSig[p] /\ up'[p] = up[p]
          /\ On(c, up'[c]) = lamp'[c]
          /\ \A i \in DOMAIN up'[c] : up'[c][i].from = c
      BY <1>0, <1>c, <2>0, <2>1, ClientSends DEF OwnWords
    <3>4. OwnWords(c)'
      BY <1>c, <3>3, LampFacts DEF OwnWords, AsLight
    <3>5. \A v \in LampClients : v \in LampPlayers /\ v \notin {0}
      BY LampFacts
    <3> QED BY <1>c, <3>2, <3>3, <3>4, <3>5
  <2>2. CASE lamp' = lamp /\ UNCHANGED <<lastSig, up, down, ghostVars>>
    BY <1>0, <2>0, <2>2 DEF ghostVars, OwnWords, FlashlightTypeOK, MaybeLights
  <2> QED BY <2>1, <2>2
<1>2. /\ stash' \in [LampPlayers -> [LampPlayers -> MaybeLights]]
      /\ puppet' \in [LampPlayers -> [LampPlayers -> MaybeLights]]
      /\ \A v \in LampPlayers : v # c => stash'[v] = stash[v] /\ puppet'[v] = puppet[v]
      /\ \/ stash' = stash /\ puppet' = puppet
         \/ Drained(c)
  <2>1. CASE Drained(c)
    BY <1>0, <1>c, <2>1, DrainedSteps
  <2>2. CASE UNCHANGED showVars
    BY <1>0, <2>2 DEF showVars, FlashlightTypeOK, MaybeLights
  <2> QED BY <2>1, <2>2
<1>3. FlashlightTypeOK'
  <2>1. /\ debug \in Lights \cup {"idle", "flipped"} /\ joined \subseteq linked
        /\ linked \subseteq LampClients /\ inbox \in Seq(LampMsgs)
        /\ lampCache \in [LampClients -> MaybeLights] /\ down \in [LampClients -> Seq(LampMsgs)]
    BY <1>0 DEF FlashlightTypeOK, MaybeLights
  <2> QED BY <1>0, <1>1, <1>2, <2>1 DEF FlashlightTypeOK, MaybeLights
<1>4. SlotsInv'
  <2>1. ASSUME NEW p \in LampClients, p # c PROVE OwnWords(p)'
    <3>1. up'[p] = up[p] /\ lastSig'[p] = lastSig[p] /\ lamp'[p] = lamp[p]
      BY <1>1, <2>1, LampFacts
    <3>2. OwnWords(p)
      BY <1>0 DEF SlotsInv
    <3> QED BY <3>1, <3>2 DEF OwnWords
  <2>2. \A p \in LampClients : p \notin edges[0] => UnknownSlot(p)'
    BY <1>0, <1>2, <1>c DEF SlotsInv, UnknownSlot
  <2>3. ASSUME NEW p \in LampClients, p \notin joined PROVE QuietSlot(p)'
    <3>1. p # c /\ p \in LampPlayers /\ QuietSlot(p)
      BY <1>0, <2>3, LampFacts DEF SlotsInv
    <3> QED BY <1>0, <1>1, <3>1 DEF QuietSlot
  <2> QED BY <1>0, <1>1, <2>1, <2>2, <2>3 DEF SlotsInv
<1>5. ASSUME NEW p \in joined PROVE HeardOf(p)'
  <2>0. p \in LampClients /\ p \in LampPlayers /\ HeardOf(p)
    BY <1>0, LampTypes, LampFacts DEF LampViewsInv
  <2>1. stash'[0][p] = stash[0][p] /\ puppet'[0][p] = puppet[0][p]
    BY <1>2, <1>c
  <2>2. CASE p # c \/ (up' = up /\ lamp' = lamp /\ astray' = astray)
    <3>1. up'[p] = up[p] /\ lamp'[p] = lamp[p] /\ astray'[0][p] = astray[0][p]
      BY <1>1, <2>0, <2>2
    <3> QED BY <1>0, <2>0, <2>1, <3>1 DEF HeardOf
  <2>3. CASE p = c /\ On(c, up'[c]) = lamp'[c]
    BY <1>c, <2>3, HeardNews DEF HeardOf
  <2> QED BY <1>1, <2>2, <2>3
<1>6. ASSUME NEW v \in LampClients, NEW p \in LampPlayers, v # p
      PROVE  ShownTo(v, p)' /\ ToldRight(v, p)'
  <2>0. ShownTo(v, p) /\ ToldRight(v, p) /\ v \in LampPlayers
    BY <1>0, <1>6, LampFacts DEF LampViewsInv
  <2>1. /\ lampTold'[v][p] = lampTold[v][p] /\ astray'[v][p] = astray[v][p]
        /\ On(p, down'[v]) = On(p, down[v])
    BY <1>1
  <2>2. ShownTo(v, p)'
    <3>1. CASE stash'[v] = stash[v] /\ puppet'[v] = puppet[v]
      BY <2>0, <2>1, <3>1 DEF ShownTo
    <3>2. CASE v = c /\ Drained(c)
      <4>1. /\ stash'[v][p] = DrainedStash(stash[v][p], puppet[v][p])
            /\ puppet'[v][p] = Applied(puppet[v][p], stash[v][p])
        BY <1>0, <1>c, <3>2, DrainedSteps
      <4>3. Shows(On(p, down[v]), stash[v][p], lampTold[v][p], puppet[v][p], astray[v][p])
        BY <2>0 DEF ShownTo
      <4>4. Shows(On(p, down[v]), DrainedStash(stash[v][p], puppet[v][p]),
                  lampTold[v][p], Applied(puppet[v][p], stash[v][p]), astray[v][p])
        BY <4>3, ShowsDrained
      <4> QED BY <2>1, <4>1, <4>4 DEF ShownTo
    <3> QED BY <1>2, <2>0, <3>1, <3>2
  <2>3. ToldRight(v, p)'
    <3>1. CASE p # c \/ (up' = up /\ lamp' = lamp /\ astray' = astray)
      <4>1. lamp'[p] = lamp[p] /\ (p \in LampClients => up'[p] = up[p])
        BY <1>1, <3>1
      <4>2. joined \subseteq LampClients
        BY <1>0, LampTypes
      <4> QED BY <1>0, <2>0, <2>1, <4>1, <4>2 DEF ToldRight
    <3>2. CASE p = c /\ On(c, up'[c]) = lamp'[c]
      <4>1. On(p, up'[p]) # NoLamp /\ p # 0 /\ p \in joined
        BY <1>c, <3>2, LampFacts
      <4> QED BY <1>0, <4>1 DEF ToldRight
    <3> QED BY <1>1, <3>1, <3>2
  <2> QED BY <2>2, <2>3
<1>7. LampViewsInv'
  BY <1>0, <1>5, <1>6 DEF LampViewsInv
<1> QED BY <1>3, <1>4, <1>7 DEF LampInv

LEMMA TouchByClientKeeps ==
    ASSUME LampInv, NEW c \in joined, NEW light \in Lights, Touch(c, light)
    PROVE  LampInv'
<1>0. FlashlightTypeOK /\ SlotsInv
  BY DEF LampInv
<1>c. c \in LampClients /\ c \in LampPlayers /\ 0 \in LampPlayers /\ c # 0
  BY <1>0, LampTypes, LampFacts
<1>1. /\ light # lamp[c] /\ lamp' = [lamp EXCEPT ![c] = light]
      /\ UNCHANGED <<debug, peerVars, inbox, lampCache, showVars>>
      /\ lastSig[c] = light \/ SendLamp(c, light)
  BY <1>c DEF Touch, SameSig
<1>2. lastSig[c] # light
  <2>1. AsLight(lastSig[c]) = lamp[c]
    BY <1>0, <1>c DEF SlotsInv, OwnWords
  <2> QED BY <1>1, <2>1, LampFacts DEF AsLight
<1>3. lamp' \in [LampPlayers -> Lights] /\ lamp'[c] = light /\ \A p \in LampPlayers : p # c => lamp'[p] = lamp[p]
  BY <1>0, <1>1, <1>c DEF FlashlightTypeOK
<1>4. edges' \in [LampPlayers -> SUBSET LampPlayers] /\ edges'[0] = edges[0]
  BY <1>0, <1>1 DEF FlashlightTypeOK, peerVars
<1> QED BY <1>1, <1>2, <1>3, <1>4, ClientSpeaks DEF peerVars

LEMMA ClientTickKeeps ==
    ASSUME LampInv, NEW c \in LampClients, LampClientTick(c)
    PROVE  LampInv'
<1>0. FlashlightTypeOK /\ c # 0 /\ 0 \in LampPlayers
  BY LampFacts DEF LampInv
<1>1. /\ c \in joined /\ edges' = [edges EXCEPT ![c] = {0}] /\ lamp' = lamp
      /\ SendLamp(c, lamp'[c]) \/ UNCHANGED <<lastSig, up, down, ghostVars>>
      /\ Drained(c) /\ UNCHANGED <<debug, linked, joined, inbox, lampCache>>
  BY DEF LampClientTick
<1>2. edges' \in [LampPlayers -> SUBSET LampPlayers] /\ edges'[0] = edges[0]
  BY <1>0, <1>1 DEF FlashlightTypeOK
<1>3. lamp' \in [LampPlayers -> Lights]
  BY <1>0, <1>1 DEF FlashlightTypeOK
<1> QED BY <1>1, <1>2, <1>3, ClientSpeaks

-----------------------------------------------------------------------------
(* Puppets. *)

LEMMA PuppetAppearsKeeps ==
    ASSUME LampInv, NEW u \in LampPlayers, NEW q \in LampPlayers, PuppetAppears(u, q)
    PROVE  LampInv'
<1>0. /\ FlashlightTypeOK /\ SlotsInv /\ LampViewsInv
      /\ lamp' = lamp /\ lastSig' = lastSig /\ debug' = debug /\ linked' = linked
      /\ joined' = joined /\ edges' = edges /\ up' = up /\ down' = down /\ inbox' = inbox
      /\ lampCache' = lampCache /\ stash' = stash /\ lampTold' = lampTold /\ astray' = astray
      /\ puppet[u][q] = NoLamp /\ puppet' = [puppet EXCEPT ![u][q] = Dark]
  BY DEF LampInv, PuppetAppears, peerVars, pathVars, ghostVars
<1>1. /\ puppet' \in [LampPlayers -> [LampPlayers -> MaybeLights]] /\ puppet'[u][q] = Dark
      /\ \A v, p \in LampPlayers : v # u \/ p # q => puppet'[v][p] = puppet[v][p]
  BY <1>0, LampFacts DEF FlashlightTypeOK, MaybeLights
<1>2. FlashlightTypeOK'
  BY <1>0, <1>1 DEF FlashlightTypeOK, MaybeLights
<1>3. SlotsInv'
  <2>1. ASSUME NEW p \in LampClients, p \notin edges[0] PROVE UnknownSlot(p)'
    <3>1. UnknownSlot(p) /\ p \in LampPlayers /\ 0 \in LampPlayers
      BY <1>0, <2>1, LampFacts DEF SlotsInv
    <3>2. AsLight(puppet'[0][p]) = Dark
      BY <1>1, <3>1 DEF UnknownSlot, AsLight
    <3> QED BY <1>0, <3>1, <3>2 DEF UnknownSlot
  <2> QED BY <1>0, <2>1 DEF SlotsInv, QuietSlot, OwnWords
<1>4. ASSUME NEW p \in joined PROVE HeardOf(p)'
  <2>0. p \in LampPlayers /\ 0 \in LampPlayers /\ HeardOf(p)
    BY <1>0, LampTypes, LampFacts DEF LampViewsInv
  <2>1. CASE u = 0 /\ p = q
    <3>1. Heard(On(p, up[p]), On(p, inbox), lampCache[p], stash[0][p], NoLamp, astray[0][p], lamp[p])
      BY <1>0, <2>0, <2>1 DEF HeardOf
    <3>2. Heard(On(p, up[p]), On(p, inbox), lampCache[p], stash[0][p], Dark, astray[0][p], lamp[p])
      BY <3>1, HeardSpawned
    <3> QED BY <1>0, <1>1, <2>1, <3>2 DEF HeardOf
  <2>2. CASE u # 0 \/ p # q
    <3>1. puppet'[0][p] = puppet[0][p]
      BY <1>1, <2>0, <2>2
    <3> QED BY <1>0, <2>0, <3>1 DEF HeardOf
  <2> QED BY <2>1, <2>2
<1>5. ASSUME NEW v \in LampClients, NEW p \in LampPlayers, v # p
      PROVE  ShownTo(v, p)' /\ ToldRight(v, p)'
  <2>0. ShownTo(v, p) /\ ToldRight(v, p) /\ v \in LampPlayers
    BY <1>0, <1>5, LampFacts DEF LampViewsInv
  <2>1. ToldRight(v, p)'
    BY <1>0, <2>0 DEF ToldRight
  <2>2. CASE u = v /\ p = q
    <3>1. Shows(On(p, down[v]), stash[v][p], lampTold[v][p], NoLamp, astray[v][p])
      BY <1>0, <2>0, <2>2 DEF ShownTo
    <3>2. Shows(On(p, down[v]), stash[v][p], lampTold[v][p], Dark, astray[v][p])
      BY <3>1, ShowsSpawned
    <3> QED BY <1>0, <1>1, <2>1, <2>2, <3>2 DEF ShownTo
  <2>3. CASE u # v \/ p # q
    <3>1. puppet'[v][p] = puppet[v][p]
      BY <1>1, <2>0, <2>3
    <3> QED BY <1>0, <2>0, <2>1, <3>1 DEF ShownTo
  <2> QED BY <2>2, <2>3
<1>6. LampViewsInv'
  BY <1>0, <1>4, <1>5 DEF LampViewsInv
<1> QED BY <1>2, <1>3, <1>6 DEF LampInv

LEMMA LevelChangesKeeps ==
    ASSUME LampInv, NEW u \in LampPlayers, LevelChanges(u)
    PROVE  LampInv'
<1>0. /\ FlashlightTypeOK /\ SlotsInv /\ LampViewsInv
      /\ lamp' = lamp /\ lastSig' = lastSig /\ debug' = debug /\ linked' = linked
      /\ joined' = joined /\ edges' = edges /\ up' = up /\ down' = down /\ inbox' = inbox
      /\ lampCache' = lampCache /\ stash' = stash /\ lampTold' = lampTold
      /\ puppet' = [puppet EXCEPT ![u] = [p \in LampPlayers |-> NoLamp]]
      /\ astray' = [astray EXCEPT ![u] = [p \in LampPlayers |->
            astray[u][p] \/ (puppet[u][p] \in Beams /\ ~OnItsWay(u, p))]]
  BY DEF LampInv, LevelChanges, peerVars, pathVars
<1>1. /\ puppet' \in [LampPlayers -> [LampPlayers -> MaybeLights]]
      /\ astray' \in [LampPlayers -> [LampPlayers -> BOOLEAN]]
      /\ \A v \in LampPlayers : v # u => puppet'[v] = puppet[v] /\ astray'[v] = astray[v]
      /\ \A p \in LampPlayers :
            /\ puppet'[u][p] = NoLamp
            /\ \/ astray'[u][p] = TRUE
               \/ astray'[u][p] = astray[u][p] /\ (puppet[u][p] \notin Beams \/ OnItsWay(u, p))
  <2>1. /\ puppet' \in [LampPlayers -> [LampPlayers -> MaybeLights]]
        /\ \A v \in LampPlayers : v # u => puppet'[v] = puppet[v]
        /\ \A p \in LampPlayers : puppet'[u][p] = NoLamp
    BY <1>0 DEF FlashlightTypeOK, MaybeLights
  <2>2. astray \in [LampPlayers -> [LampPlayers -> BOOLEAN]]
    BY <1>0 DEF FlashlightTypeOK
  <2>3. PICK new \in [LampPlayers -> BOOLEAN] :
          new = [p \in LampPlayers |-> astray[u][p] \/ (puppet[u][p] \in Beams /\ ~OnItsWay(u, p))]
    <3>1. \A p \in LampPlayers : (astray[u][p] \/ (puppet[u][p] \in Beams /\ ~OnItsWay(u, p))) \in BOOLEAN
      BY <2>2
    <3> QED BY <3>1
  <2>4. \A p \in LampPlayers : new[p] <=> (astray[u][p] \/ (puppet[u][p] \in Beams /\ ~OnItsWay(u, p)))
    BY <2>3
  <2>5. astray' = [astray EXCEPT ![u] = new]
    BY <1>0, <2>3
  <2>6. /\ astray' \in [LampPlayers -> [LampPlayers -> BOOLEAN]] /\ astray'[u] = new
        /\ \A v \in LampPlayers : v # u => astray'[v] = astray[v]
    BY <2>2, <2>5
  <2>7. ASSUME NEW p \in LampPlayers
        PROVE \/ astray'[u][p] = TRUE
              \/ astray'[u][p] = astray[u][p] /\ (puppet[u][p] \notin Beams \/ OnItsWay(u, p))
    <3>1. astray[u][p] \in BOOLEAN /\ new[p] \in BOOLEAN
      BY <2>2
    <3>2. CASE new[p]
      BY <2>6, <3>1, <3>2
    <3>3. CASE ~ new[p]
      BY <2>4, <2>6, <3>1, <3>3
    <3> QED BY <3>2, <3>3
  <2> QED BY <2>1, <2>6, <2>7
<1>2. FlashlightTypeOK'
  BY <1>0, <1>1 DEF FlashlightTypeOK, MaybeLights
<1>3. SlotsInv'
  <2>1. ASSUME NEW p \in LampClients, p \notin edges[0] PROVE UnknownSlot(p)'
    <3>1. UnknownSlot(p) /\ p \in LampPlayers /\ 0 \in LampPlayers
      BY <1>0, <2>1, LampFacts DEF SlotsInv
    <3>2. AsLight(puppet'[0][p]) = Dark
      BY <1>1, <3>1 DEF UnknownSlot, AsLight
    <3> QED BY <1>0, <3>1, <3>2 DEF UnknownSlot
  <2> QED BY <1>0, <2>1 DEF SlotsInv, QuietSlot, OwnWords
<1>4. ASSUME NEW p \in joined PROVE HeardOf(p)'
  <2>0. p \in LampPlayers /\ p \in LampClients /\ 0 \in LampPlayers /\ HeardOf(p)
    BY <1>0, LampTypes, LampFacts DEF LampViewsInv
  <2>1. CASE u = 0 /\ astray'[u][p] = TRUE
    <3>1. Heard(On(p, up[p]), On(p, inbox), lampCache[p], stash[0][p], NoLamp, TRUE, lamp[p])
      BY <2>0, HeardAstray DEF HeardOf
    <3> QED BY <1>0, <1>1, <2>0, <2>1, <3>1 DEF HeardOf
  <2>2. CASE /\ u = 0 /\ astray'[u][p] = astray[u][p]
             /\ puppet[u][p] \notin Beams \/ OnItsWay(u, p)
    <3>1. puppet[0][p] \notin Beams \/ Over(On(p, up[p]), On(p, inbox)) # NoLamp
      BY <1>0, <2>0, <2>2, OnItsWayToHost
    <3>2. puppet[0][p] \in MaybeLights
      BY <1>0, <2>0, LampTypes
    <3>3. Heard(On(p, up[p]), On(p, inbox), lampCache[p], stash[0][p], NoLamp, astray[0][p], lamp[p])
      BY <2>0, <3>1, <3>2, HeardGone DEF HeardOf
    <3> QED BY <1>0, <1>1, <2>0, <2>2, <3>3 DEF HeardOf
  <2>3. CASE u # 0
    <3>1. puppet'[0] = puppet[0] /\ astray'[0] = astray[0]
      BY <1>1, <2>0, <2>3
    <3> QED BY <1>0, <2>0, <3>1 DEF HeardOf
  <2> QED BY <1>1, <2>0, <2>1, <2>2, <2>3
<1>5. ASSUME NEW v \in LampClients, NEW p \in LampPlayers, v # p
      PROVE  ShownTo(v, p)' /\ ToldRight(v, p)'
  <2>0. ShownTo(v, p) /\ ToldRight(v, p) /\ v \in LampPlayers
    BY <1>0, <1>5, LampFacts DEF LampViewsInv
  <2>1. astray'[v][p] = astray[v][p] \/ astray'[v][p] = TRUE
    BY <1>1, <2>0
  <2>2. ToldRight(v, p)'
    BY <1>0, <2>0, <2>1 DEF ToldRight
  <2>3. CASE u = v /\ astray'[u][p] = TRUE
    <3>1. Shows(On(p, down[v]), stash[v][p], lampTold[v][p], NoLamp, TRUE)
      BY <2>0, ShowsAstray DEF ShownTo
    <3> QED BY <1>0, <1>1, <2>2, <2>3, <3>1 DEF ShownTo
  <2>4. CASE /\ u = v /\ astray'[u][p] = astray[u][p]
             /\ puppet[u][p] \notin Beams \/ OnItsWay(u, p)
    <3>1. puppet[v][p] \notin Beams \/ On(p, down[v]) # NoLamp
      BY <1>0, <2>4, OnItsWayToClient
    <3>2. puppet[v][p] \in MaybeLights
      BY <1>0, <2>0, LampTypes
    <3>3. Shows(On(p, down[v]), stash[v][p], lampTold[v][p], NoLamp, astray[v][p])
      BY <2>0, <3>1, <3>2, ShowsGone DEF ShownTo
    <3> QED BY <1>0, <1>1, <2>2, <2>4, <3>3 DEF ShownTo
  <2>5. CASE u # v
    <3>1. puppet'[v] = puppet[v] /\ astray'[v] = astray[v]
      BY <1>1, <2>0, <2>5
    <3> QED BY <1>0, <2>0, <2>2, <3>1 DEF ShownTo
  <2> QED BY <1>1, <2>3, <2>4, <2>5
<1>6. LampViewsInv'
  BY <1>0, <1>4, <1>5 DEF LampViewsInv
<1> QED BY <1>2, <1>3, <1>6 DEF LampInv

-----------------------------------------------------------------------------
(* The host's net thread, and connections. *)

LEMMA HostReceivesKeeps ==
    ASSUME LampInv, NEW c \in LampClients, HostReceives(c)
    PROVE  LampInv'
<1> DEFINE msg == Head(up[c])
           others == linked \ {c}
<1>0. /\ FlashlightTypeOK /\ SlotsInv /\ LampViewsInv /\ up[c] # <<>>
      /\ lamp' = lamp /\ lastSig' = lastSig /\ debug' = debug /\ linked' = linked
      /\ joined' = joined /\ edges' = edges /\ lampCache' = lampCache
      /\ stash' = stash /\ puppet' = puppet
      /\ up' = [up EXCEPT ![c] = Tail(@)] /\ inbox' = Append(inbox, msg)
      /\ down' = [d \in LampClients |-> IF d \in others THEN Append(down[d], msg) ELSE down[d]]
      /\ lampTold' = [v \in LampPlayers |->
            IF v \in others THEN [lampTold[v] EXCEPT ![c] = msg.light] ELSE lampTold[v]]
      /\ astray' = [v \in LampPlayers |->
            IF v \in others THEN [astray[v] EXCEPT ![c] = FALSE] ELSE astray[v]]
  BY DEF LampInv, HostReceives, peerVars, showVars
<1>1. /\ up[c] \in Seq(LampMsgs) /\ msg \in LampMsgs /\ Tail(up[c]) \in Seq(LampMsgs)
      /\ msg.from = c /\ msg.light \in Lights
      /\ \A i \in DOMAIN Tail(up[c]) : Tail(up[c])[i].from = c
  <2>1. up[c] \in Seq(LampMsgs)
    BY <1>0, LampTypes
  <2>2. /\ msg \in LampMsgs /\ Tail(up[c]) \in Seq(LampMsgs) /\ msg = up[c][1] /\ 1 \in DOMAIN up[c]
        /\ \A i \in DOMAIN Tail(up[c]) : i + 1 \in DOMAIN up[c] /\ Tail(up[c])[i] = up[c][i + 1]
    BY <1>0, <2>1, TailElements
  <2>3. \A i \in DOMAIN up[c] : up[c][i].from = c
    BY <1>0 DEF SlotsInv, OwnWords
  <2> QED BY <2>1, <2>2, <2>3 DEF LampMsgs
<1>2. PICK light \in Lights : light = msg.light
  BY <1>1
<1>3. c \in joined /\ joined \subseteq linked /\ linked \subseteq LampClients /\ c \in LampPlayers
  BY <1>0, LampTypes, LampFacts DEF SlotsInv, QuietSlot
<1>4. /\ up' \in [LampClients -> Seq(LampMsgs)] /\ up'[c] = Tail(up[c])
      /\ \A p \in LampClients : p # c => up'[p] = up[p]
      /\ On(c, up[c]) = Over(On(c, up'[c]), light)
  <2>1. up \in [LampClients -> Seq(LampMsgs)]
    BY <1>0 DEF FlashlightTypeOK
  <2>2. On(c, up[c]) = Over(On(c, Tail(up[c])), light)
    BY <1>0, <1>1, <1>2, OnTail
  <2> QED BY <1>0, <1>1, <2>1, <2>2
<1>5. /\ inbox' \in Seq(LampMsgs) /\ On(c, inbox') = light
      /\ \A p : p # c => On(p, inbox') = On(p, inbox)
  <2>1. inbox \in Seq(LampMsgs)
    BY <1>0, LampTypes
  <2> QED BY <1>0, <1>1, <1>2, <2>1, OnAppend
<1>6. /\ down' \in [LampClients -> Seq(LampMsgs)]
      /\ \A v \in others : On(c, down'[v]) = light
      /\ \A v \in LampClients : \A p : v \notin others \/ p # c => On(p, down'[v]) = On(p, down[v])
  <2>1. \A v \in LampClients : down[v] \in Seq(LampMsgs)
    BY <1>0, LampTypes
  <2>2. ASSUME NEW v \in LampClients
        PROVE  /\ down'[v] \in Seq(LampMsgs)
               /\ v \in others => On(c, down'[v]) = light
               /\ \A p : v \notin others \/ p # c => On(p, down'[v]) = On(p, down[v])
    <3> HIDE DEF others
    <3>1. CASE v \in others
      <4>1. down'[v] = Append(down[v], msg)
        BY <1>0, <3>1
      <4> QED BY <1>1, <1>2, <2>1, <3>1, <4>1, OnAppend
    <3>2. CASE v \notin others
      BY <1>0, <2>1, <3>2
    <3> QED BY <3>1, <3>2
  <2>3. down' \in [LampClients -> Seq(LampMsgs)]
    BY <1>0, <2>2
  <2> QED BY <1>3, <2>2, <2>3
<1>7. /\ lampTold' \in [LampPlayers -> [LampPlayers -> MaybeLights]]
      /\ astray' \in [LampPlayers -> [LampPlayers -> BOOLEAN]]
      /\ \A v \in others : lampTold'[v][c] = light
      /\ \A v, p \in LampPlayers : v \notin others \/ p # c =>
            lampTold'[v][p] = lampTold[v][p] /\ astray'[v][p] = astray[v][p]
      /\ \A v \in others : astray'[v][c] = FALSE
  <2> HIDE DEF msg, others
  <2>1. /\ lampTold \in [LampPlayers -> [LampPlayers -> MaybeLights]]
        /\ astray \in [LampPlayers -> [LampPlayers -> BOOLEAN]]
    BY <1>0 DEF FlashlightTypeOK, MaybeLights
  <2>2. \A v \in others : v \in LampPlayers
    BY <1>3, LampFacts DEF others
  <2>3. light \in MaybeLights
    BY DEF MaybeLights
  <2>4. /\ lampTold' \in [LampPlayers -> [LampPlayers -> MaybeLights]]
        /\ \A v \in others : lampTold'[v][c] = light
        /\ \A v, p \in LampPlayers : v \notin others \/ p # c => lampTold'[v][p] = lampTold[v][p]
    BY <1>0, <1>2, <1>3, <2>1, <2>2, <2>3
  <2>5. /\ astray' \in [LampPlayers -> [LampPlayers -> BOOLEAN]]
        /\ \A v \in others : astray'[v][c] = FALSE
        /\ \A v, p \in LampPlayers : v \notin others \/ p # c => astray'[v][p] = astray[v][p]
    BY <1>0, <1>3, <2>1, <2>2
  <2> QED BY <2>4, <2>5
<1> HIDE DEF msg
<1>8. FlashlightTypeOK'
  BY <1>0, <1>4, <1>5, <1>6, <1>7 DEF FlashlightTypeOK, MaybeLights
<1>9. SlotsInv'
  <2>1. ASSUME NEW p \in LampClients PROVE OwnWords(p)'
    <3>1. OwnWords(p)
      BY <1>0 DEF SlotsInv
    <3> QED BY <1>0, <1>1, <1>4, <3>1 DEF OwnWords
  <2>2. ASSUME NEW p \in LampClients, p \notin joined PROVE QuietSlot(p)'
    <3>1. QuietSlot(p) /\ p # c
      BY <1>0, <1>3, <2>2 DEF SlotsInv
    <3> QED BY <1>0, <1>4, <1>5, <3>1 DEF QuietSlot
  <2> QED BY <1>0, <2>1, <2>2 DEF SlotsInv, UnknownSlot
<1>10. ASSUME NEW p \in joined PROVE HeardOf(p)'
  <2>0. p \in LampPlayers /\ p \in LampClients /\ 0 \in LampPlayers /\ HeardOf(p) /\ 0 \notin others
    BY <1>0, LampTypes, LampFacts DEF LampViewsInv
  <2>1. astray'[0][p] = astray[0][p]
    BY <1>7, <2>0
  <2>2. CASE p = c
    <3>1. Heard(Over(On(c, up'[c]), light), On(c, inbox), lampCache[c], stash[0][c], puppet[0][c],
                astray[0][c], lamp[c])
      BY <1>4, <2>0, <2>2 DEF HeardOf
    <3>2. Heard(On(c, up'[c]), light, lampCache[c], stash[0][c], puppet[0][c],
                astray[0][c], lamp[c])
      BY <3>1, HeardInbox
    <3> QED BY <1>0, <1>5, <2>1, <2>2, <3>2 DEF HeardOf
  <2>3. CASE p # c
    BY <1>0, <1>4, <1>5, <2>0, <2>1, <2>3 DEF HeardOf
  <2> QED BY <2>2, <2>3
<1>11. ASSUME NEW v \in LampClients, NEW p \in LampPlayers, v # p
       PROVE  ShownTo(v, p)' /\ ToldRight(v, p)'
  <2>0. ShownTo(v, p) /\ ToldRight(v, p) /\ v \in LampPlayers
    BY <1>0, <1>11, LampFacts DEF LampViewsInv
  <2>1. CASE v \in others /\ p = c
    <3>1. ShownTo(v, p)'
      <4>1. Shows(light, stash[v][p], light, puppet[v][p], astray'[v][p])
        BY ShowsNews
      <4>2. lampTold'[v][p] = light /\ On(p, down'[v]) = light
        BY <1>6, <1>7, <2>1
      <4> QED BY <1>0, <4>1, <4>2 DEF ShownTo
    <3>2. AsLight(lampTold'[v][p]) = light
      BY <1>7, <2>1, LampFacts DEF AsLight
    <3>3. On(c, up'[c]) = NoLamp => light = lamp[c]
      <4>1. HeardOf(c) /\ lamp[c] \in Lights
        BY <1>0, <1>3, LampTypes DEF LampViewsInv
      <4>2. AsLight(Over(On(c, up[c]), Over(On(c, inbox), lampCache[c]))) = lamp[c]
        BY <4>1 DEF HeardOf, Heard
      <4>3. On(c, up'[c]) = NoLamp => On(c, up[c]) = light
        BY <1>4 DEF Over
      <4> QED BY <4>2, <4>3, LampFacts DEF Over, AsLight
    <3>4. c # 0
      BY LampFacts
    <3> QED BY <1>0, <1>3, <2>1, <3>1, <3>2, <3>3, <3>4 DEF ToldRight
  <2>2. CASE p # c
    <3>1. /\ lampTold'[v][p] = lampTold[v][p] /\ astray'[v][p] = astray[v][p]
          /\ On(p, down'[v]) = On(p, down[v]) /\ (p \in LampClients => up'[p] = up[p])
      BY <1>4, <1>6, <1>7, <2>0, <2>2
    <3> QED BY <1>0, <1>3, <2>0, <3>1 DEF ShownTo, ToldRight
  <2>3. CASE v \notin others /\ p = c
    <3>1. v \notin joined
      BY <1>3, <1>11, <2>3
    <3>2. /\ lampTold'[v][p] = lampTold[v][p] /\ astray'[v][p] = astray[v][p]
          /\ On(p, down'[v]) = On(p, down[v])
      BY <1>6, <1>7, <2>0, <2>3
    <3> QED BY <1>0, <1>3, <2>0, <2>3, <3>1, <3>2 DEF ShownTo, ToldRight
  <2> QED BY <2>1, <2>2, <2>3
<1>12. LampViewsInv'
  BY <1>0, <1>10, <1>11 DEF LampViewsInv
<1> QED BY <1>8, <1>9, <1>12 DEF LampInv

LEMMA LinkKeeps ==
    ASSUME LampInv, NEW c \in LampClients, Link(c)
    PROVE  LampInv'
<1>0. /\ FlashlightTypeOK /\ SlotsInv /\ LampViewsInv
      /\ c \notin linked /\ c \notin edges[0] /\ linked' = linked \cup {c}
      /\ astray' = [v \in LampPlayers |->
            [astray[v] EXCEPT ![c] = v \in LampClients /\ lampTold[v][c] \in Beams]]
      /\ lamp' = lamp /\ lastSig' = lastSig /\ debug' = debug /\ joined' = joined
      /\ edges' = edges /\ up' = up /\ down' = down /\ inbox' = inbox
      /\ lampCache' = lampCache /\ stash' = stash /\ puppet' = puppet /\ lampTold' = lampTold
  BY DEF LampInv, Link, pathVars, showVars
<1>1. c \notin joined /\ c \in LampPlayers /\ 0 \in LampPlayers /\ c # 0
  BY <1>0, LampTypes, LampFacts
<1>2. /\ astray' \in [LampPlayers -> [LampPlayers -> BOOLEAN]]
      /\ \A v, p \in LampPlayers : p # c => astray'[v][p] = astray[v][p]
      /\ \A v \in LampClients : astray'[v][c] = (lampTold[v][c] \in Beams)
  <2>1. astray \in [LampPlayers -> [LampPlayers -> BOOLEAN]]
    BY <1>0 DEF FlashlightTypeOK
  <2>2. ASSUME NEW v \in LampPlayers
        PROVE  /\ astray'[v] \in [LampPlayers -> BOOLEAN]
               /\ \A p \in LampPlayers : p # c => astray'[v][p] = astray[v][p]
               /\ v \in LampClients => astray'[v][c] = (lampTold[v][c] \in Beams)
    <3>1. PICK b \in BOOLEAN : b = (v \in LampClients /\ lampTold[v][c] \in Beams)
      OBVIOUS
    <3>2. astray'[v] = [astray[v] EXCEPT ![c] = b]
      BY <1>0, <3>1
    <3>3. astray[v] \in [LampPlayers -> BOOLEAN]
      BY <2>1
    <3>4. /\ astray'[v] \in [LampPlayers -> BOOLEAN] /\ astray'[v][c] = b
          /\ \A p \in LampPlayers : p # c => astray'[v][p] = astray[v][p]
      BY <1>1, <3>2, <3>3
    <3> QED BY <3>1, <3>4
  <2>3. astray' \in [LampPlayers -> [LampPlayers -> BOOLEAN]]
    BY <1>0, <2>2
  <2>4. \A v \in LampClients : v \in LampPlayers
    BY LampFacts
  <2>5. \A v, p \in LampPlayers : p # c => astray'[v][p] = astray[v][p]
    BY <2>2
  <2>6. \A v \in LampClients : astray'[v][c] = (lampTold[v][c] \in Beams)
    BY <2>2, <2>4
  <2> QED BY <2>3, <2>5, <2>6
<1>3. FlashlightTypeOK'
  BY <1>0, <1>2 DEF FlashlightTypeOK
<1>4. SlotsInv'
  BY <1>0 DEF SlotsInv, UnknownSlot, QuietSlot, OwnWords
<1>5. ASSUME NEW p \in joined PROVE HeardOf(p)'
  <2>1. HeardOf(p) /\ p # c /\ p \in LampPlayers
    BY <1>0, <1>1, LampTypes, LampFacts DEF LampViewsInv
  <2> QED BY <1>0, <1>1, <1>2, <2>1 DEF HeardOf
<1>6. ASSUME NEW v \in LampClients, NEW p \in LampPlayers, v # p
      PROVE  ShownTo(v, p)' /\ ToldRight(v, p)'
  <2>0. ShownTo(v, p) /\ ToldRight(v, p) /\ v \in LampPlayers
    BY <1>0, <1>6, LampFacts DEF LampViewsInv
  <2>1. CASE p # c
    <3>1. astray'[v][p] = astray[v][p]
      BY <1>2, <2>0, <2>1
    <3> QED BY <1>0, <2>0, <2>1, <3>1 DEF ShownTo, ToldRight
  <2>2. CASE p = c
    <3>1. lampTold[v][p] \in MaybeLights /\ astray'[v][p] = (lampTold[v][p] \in Beams)
          /\ astray'[v][p] \in BOOLEAN
      BY <1>0, <1>2, <2>0, <2>2, LampTypes
    <3>2. CASE lampTold[v][p] \in Beams
      <4>1. astray'[v][p] = TRUE
        BY <3>1, <3>2
      <4>2. Shows(On(p, down[v]), stash[v][p], lampTold[v][p], puppet[v][p], TRUE)
        BY <2>0, ShowsAstray DEF ShownTo
      <4> QED BY <1>0, <4>1, <4>2 DEF ShownTo, ToldRight
    <3>3. CASE lampTold[v][p] \notin Beams
      <4>1. astray'[v][p] = FALSE
        BY <3>1, <3>3
      <4>2. Shows(On(p, down[v]), stash[v][p], lampTold[v][p], puppet[v][p], FALSE)
        BY <2>0, <3>1, <3>3, ShowsUntold DEF ShownTo
      <4>3. AsLight(lampTold[v][p]) = Dark
        BY <3>1, <3>3, LampFacts DEF AsLight, MaybeLights
      <4> QED BY <1>0, <1>1, <2>2, <4>1, <4>2, <4>3 DEF ShownTo, ToldRight
    <3> QED BY <3>2, <3>3
  <2> QED BY <2>1, <2>2
<1>7. LampViewsInv'
  BY <1>0, <1>5, <1>6 DEF LampViewsInv
<1> QED BY <1>3, <1>4, <1>7 DEF LampInv

LEMMA LampJoinKeeps ==
    ASSUME LampInv, NEW c \in LampClients, LampJoin(c)
    PROVE  LampInv'
<1>0. /\ FlashlightTypeOK /\ SlotsInv /\ LampViewsInv
      /\ c \in linked /\ c \notin joined /\ joined' = joined \cup {c} /\ linked' = linked
      /\ lamp' = lamp /\ lastSig' = lastSig /\ debug' = debug
      /\ edges' = edges /\ up' = up /\ down' = down /\ inbox' = inbox /\ astray' = astray
      /\ lampCache' = lampCache /\ stash' = stash /\ puppet' = puppet /\ lampTold' = lampTold
  BY DEF LampInv, LampJoin, pathVars, showVars, ghostVars
<1>1. /\ c \in LampPlayers /\ 0 \in LampPlayers /\ c # 0 /\ c \notin edges[0]
      /\ QuietSlot(c) /\ UnknownSlot(c)
  BY <1>0, LampFacts DEF SlotsInv
<1>2. FlashlightTypeOK'
  BY <1>0 DEF FlashlightTypeOK
<1>3. SlotsInv'
  BY <1>0 DEF SlotsInv, UnknownSlot, QuietSlot, OwnWords
<1>4. On(c, up[c]) = NoLamp
  BY <1>1, OnNothing DEF QuietSlot
<1>5. HeardOf(c)
  <2>1. Heard(NoLamp, NoLamp, NoLamp, NoLamp, puppet[0][c], astray[0][c], Dark)
    BY <1>1, HeardNothing DEF UnknownSlot
  <2> QED BY <1>1, <1>4, <2>1 DEF HeardOf, QuietSlot, UnknownSlot
<1>6. \A p \in joined' : HeardOf(p)'
  BY <1>0, <1>5 DEF LampViewsInv, HeardOf
<1>7. ASSUME NEW v \in LampClients, NEW p \in LampPlayers, v # p
      PROVE  ShownTo(v, p)' /\ ToldRight(v, p)'
  <2>0. ShownTo(v, p) /\ ToldRight(v, p) /\ v \in LampPlayers
    BY <1>0, <1>7, LampFacts DEF LampViewsInv
  <2>1. ShownTo(v, p)'
    BY <1>0, <2>0 DEF ShownTo
  <2>2. ToldRight(v, p)'
    <3>1. CASE v = c
      BY <1>0, <1>1, <1>7, <2>0, <3>1 DEF ToldRight
    <3>2. CASE p = c
      BY <1>0, <1>1, <2>0, <3>2 DEF ToldRight, QuietSlot
    <3>3. CASE v # c /\ p # c
      BY <1>0, <1>1, <2>0, <3>3 DEF ToldRight
    <3> QED BY <3>1, <3>2, <3>3
  <2> QED BY <2>1, <2>2
<1>8. LampViewsInv'
  BY <1>0, <1>6, <1>7 DEF LampViewsInv
<1> QED BY <1>2, <1>3, <1>8 DEF LampInv

LEMMA LampLeaveKeeps ==
    ASSUME LampInv, NEW c \in LampClients, LampLeave(c)
    PROVE  LampInv'
<1> DEFINE none == [p \in LampPlayers |-> NoLamp]
           stay == {i \in DOMAIN inbox : inbox[i].from # c}
<1>0. /\ FlashlightTypeOK /\ SlotsInv /\ LampViewsInv
      /\ linked' = linked \ {c} /\ joined' = joined \ {c} /\ edges' = [edges EXCEPT ![c] = {}]
      /\ lamp' = [lamp EXCEPT ![c] = Dark] /\ lastSig' = [lastSig EXCEPT ![c] = NoLamp]
      /\ up' = [up EXCEPT ![c] = <<>>] /\ down' = [down EXCEPT ![c] = <<>>]
      /\ inbox' = Kept(inbox, stay)
      /\ stash' = [stash EXCEPT ![c] = none] /\ puppet' = [puppet EXCEPT ![c] = none]
      /\ lampTold' = [lampTold EXCEPT ![c] = none]
      /\ astray' = [astray EXCEPT ![c] = [p \in LampPlayers |-> FALSE]]
      /\ debug' = debug /\ lampCache' = lampCache
  BY DEF LampInv, LampLeave
<1>1. /\ c \in LampPlayers /\ 0 \in LampPlayers /\ c # 0 /\ joined \subseteq linked
      /\ linked \subseteq LampClients
  BY <1>0, LampTypes, LampFacts
<1>2. /\ inbox' \in Seq(LampMsgs) /\ On(c, inbox') = NoLamp
      /\ \A p : p # c => On(p, inbox') = On(p, inbox)
  <2>1. inbox \in Seq(LampMsgs)
    BY <1>0, LampTypes
  <2>0. PICK S : S = stay
    OBVIOUS
  <2>2. PICK k : k = Kept(inbox, S) /\ \A i : i \in S <=> i \in DOMAIN inbox /\ inbox[i].from # c
    BY <2>0
  <2>3. IsWithout(k, c, inbox)
    BY <2>1, <2>2, OnKept
  <2> QED BY <1>0, <2>0, <2>2, <2>3 DEF IsWithout
<1>3. /\ lamp' \in [LampPlayers -> Lights] /\ lamp'[c] = Dark
      /\ \A p \in LampPlayers : p # c => lamp'[p] = lamp[p]
      /\ lastSig' \in [LampPlayers -> MaybeLights] /\ lastSig'[c] = NoLamp
      /\ \A p \in LampPlayers : p # c => lastSig'[p] = lastSig[p]
      /\ edges' \in [LampPlayers -> SUBSET LampPlayers] /\ edges'[0] = edges[0]
  BY <1>0, <1>1, LampFacts DEF FlashlightTypeOK, MaybeLights
<1>4. /\ up' \in [LampClients -> Seq(LampMsgs)] /\ up'[c] = <<>>
      /\ \A p \in LampClients : p # c => up'[p] = up[p]
      /\ down' \in [LampClients -> Seq(LampMsgs)] /\ down'[c] = <<>>
      /\ \A p \in LampClients : p # c => down'[p] = down[p]
  <2>1. up \in [LampClients -> Seq(LampMsgs)] /\ down \in [LampClients -> Seq(LampMsgs)]
        /\ <<>> \in Seq(LampMsgs)
    BY <1>0, OnNothing DEF FlashlightTypeOK
  <2> QED BY <1>0, <2>1
<1>5. /\ stash' \in [LampPlayers -> [LampPlayers -> MaybeLights]]
      /\ puppet' \in [LampPlayers -> [LampPlayers -> MaybeLights]]
      /\ lampTold' \in [LampPlayers -> [LampPlayers -> MaybeLights]]
      /\ astray' \in [LampPlayers -> [LampPlayers -> BOOLEAN]]
      /\ \A v \in LampPlayers : v # c =>
            /\ stash'[v] = stash[v] /\ puppet'[v] = puppet[v]
            /\ lampTold'[v] = lampTold[v] /\ astray'[v] = astray[v]
      /\ \A p \in LampPlayers :
            /\ stash'[c][p] = NoLamp /\ puppet'[c][p] = NoLamp
            /\ lampTold'[c][p] = NoLamp /\ astray'[c][p] = FALSE
  <2>1. /\ stash \in [LampPlayers -> [LampPlayers -> MaybeLights]]
        /\ puppet \in [LampPlayers -> [LampPlayers -> MaybeLights]]
        /\ lampTold \in [LampPlayers -> [LampPlayers -> MaybeLights]]
        /\ astray \in [LampPlayers -> [LampPlayers -> BOOLEAN]]
    BY <1>0 DEF FlashlightTypeOK, MaybeLights
  <2>2. none \in [LampPlayers -> MaybeLights] /\ \A p \in LampPlayers : none[p] = NoLamp
    BY DEF MaybeLights
  <2> HIDE DEF none
  <2> QED BY <1>0, <1>1, <2>1, <2>2
<1> HIDE DEF none, stay
<1>6. FlashlightTypeOK'
  <2>1. joined' \subseteq linked' /\ linked' \subseteq LampClients
    BY <1>0, <1>1
  <2> QED BY <1>0, <1>2, <1>3, <1>4, <1>5, <2>1 DEF FlashlightTypeOK, MaybeLights
<1>7. SlotsInv'
  <2>1. ASSUME NEW p \in LampClients PROVE OwnWords(p)'
    <3>1. CASE p = c
      <4>1. <<>> \in Seq(LampMsgs) /\ DOMAIN <<>> = {}
        BY EmptySeq
      <4>2. DOMAIN up'[c] = {}
        BY <1>4, <4>1
      <4> QED BY <1>3, <3>1, <4>2 DEF OwnWords, AsLight
    <3>2. CASE p # c
      BY <1>0, <1>3, <1>4, <3>2, LampFacts DEF SlotsInv, OwnWords
    <3> QED BY <3>1, <3>2
  <2>2. ASSUME NEW p \in LampClients, p \notin joined' PROVE QuietSlot(p)'
    <3>1. CASE p = c
      BY <1>2, <1>3, <1>4, <3>1 DEF QuietSlot
    <3>2. CASE p # c
      <4>1. QuietSlot(p) /\ p \in LampPlayers
        BY <1>0, <2>2, <3>2, LampFacts DEF SlotsInv
      <4> QED BY <1>2, <1>3, <1>4, <3>2, <4>1 DEF QuietSlot
    <3> QED BY <3>1, <3>2
  <2>3. \A p \in LampClients : p \notin edges'[0] => UnknownSlot(p)'
    BY <1>0, <1>1, <1>3, <1>5 DEF SlotsInv, UnknownSlot
  <2>4. edges'[0] \cap linked' \subseteq joined'
    BY <1>0, <1>3 DEF SlotsInv
  <2> QED BY <2>1, <2>2, <2>3, <2>4 DEF SlotsInv
<1>8. ASSUME NEW p \in joined' PROVE HeardOf(p)'
  <2>1. p # c /\ p \in LampClients /\ p \in LampPlayers /\ HeardOf(p)
    BY <1>0, <1>1, LampFacts DEF LampViewsInv
  <2> QED BY <1>0, <1>1, <1>2, <1>3, <1>4, <1>5, <2>1 DEF HeardOf
<1>9. ASSUME NEW v \in LampClients, NEW p \in LampPlayers, v # p
      PROVE  ShownTo(v, p)' /\ ToldRight(v, p)'
  <2>0. ShownTo(v, p) /\ ToldRight(v, p) /\ v \in LampPlayers
    BY <1>0, <1>9, LampFacts DEF LampViewsInv
  <2>1. CASE v = c
    <3>1. On(p, down'[c]) = NoLamp
      BY <1>4, OnNothing
    <3>2. ShownTo(v, p)'
      BY <1>5, <2>1, <3>1, ShowsNothing DEF ShownTo
    <3>3. v \notin joined' /\ AsLight(lampTold'[v][p]) = Dark
      BY <1>0, <1>5, <2>1 DEF AsLight
    <3> QED BY <3>2, <3>3 DEF ToldRight
  <2>2. CASE v # c
    <3>1. /\ stash'[v] = stash[v] /\ puppet'[v] = puppet[v] /\ down'[v] = down[v]
          /\ lampTold'[v] = lampTold[v] /\ astray'[v] = astray[v]
      BY <1>4, <1>5, <2>0, <2>2
    <3>2. ShownTo(v, p)'
      BY <2>0, <3>1 DEF ShownTo
    <3>3. CASE p = c
      BY <1>0, <1>1, <3>2, <3>3 DEF ToldRight
    <3>4. CASE p # c
      <4>1. lamp'[p] = lamp[p] /\ (p \in LampClients => up'[p] = up[p])
        BY <1>3, <1>4, <3>4
      <4> QED BY <1>0, <1>1, <1>3, <2>0, <3>1, <3>2, <3>4, <4>1 DEF ToldRight
    <3> QED BY <3>3, <3>4
  <2> QED BY <2>1, <2>2
<1>10. LampViewsInv'
  BY <1>8, <1>9 DEF LampViewsInv
<1> QED BY <1>6, <1>7, <1>10 DEF LampInv

-----------------------------------------------------------------------------
(* A client's handler. *)

LEMMA HandleItemActivateKeeps ==
    ASSUME LampInv, NEW c \in LampClients, HandleItemActivate(c)
    PROVE  LampInv'
<1>0. /\ FlashlightTypeOK /\ SlotsInv /\ LampViewsInv /\ down[c] # <<>>
      /\ lamp' = lamp /\ lastSig' = lastSig /\ debug' = debug /\ linked' = linked
      /\ joined' = joined /\ edges' = edges /\ up' = up /\ inbox' = inbox
      /\ lampCache' = lampCache /\ lampTold' = lampTold /\ astray' = astray
      /\ down' = [down EXCEPT ![c] = Tail(@)]
  BY DEF LampInv, HandleItemActivate, peerVars, ghostVars
<1>1. c \in LampPlayers /\ 0 \in LampPlayers /\ c # 0
  BY LampFacts
<1>2. PICK q \in LampPlayers, light \in Lights :
        /\ q = Head(down[c]).from /\ light = Head(down[c]).light
        /\ \A p : On(p, down[c]) = IF q = p THEN Over(On(p, Tail(down[c])), light)
                                   ELSE On(p, Tail(down[c]))
        /\ Tail(down[c]) \in Seq(LampMsgs)
  <2>1. down[c] \in Seq(LampMsgs)
    BY <1>0, LampTypes
  <2>2. Head(down[c]) \in LampMsgs /\ Tail(down[c]) \in Seq(LampMsgs)
    BY <1>0, <2>1, OnTail
  <2>3. \A p : On(p, down[c]) = IF Head(down[c]).from = p
                                THEN Over(On(p, Tail(down[c])), Head(down[c]).light)
                                ELSE On(p, Tail(down[c]))
    BY <1>0, <2>1, OnTail
  <2>4. Head(down[c]).from \in LampPlayers /\ Head(down[c]).light \in Lights
    BY <2>2 DEF LampMsgs
  <2> QED BY <2>2, <2>3, <2>4
<1>3. PICK live \in BOOLEAN : live = (puppet[c][q] # NoLamp)
  OBVIOUS
<1>4. /\ puppet' = [puppet EXCEPT ![c][q] = Applied(@, light)]
      /\ stash' = [stash EXCEPT ![c][q] = StashAfter(@, live, light)]
  BY <1>2, <1>3 DEF HandleItemActivate
<1>5. /\ puppet \in [LampPlayers -> [LampPlayers -> MaybeLights]]
      /\ stash \in [LampPlayers -> [LampPlayers -> MaybeLights]]
      /\ down \in [LampClients -> Seq(LampMsgs)]
  BY <1>0 DEF FlashlightTypeOK, MaybeLights
<1>6. Applied(puppet[c][q], light) \in MaybeLights /\ StashAfter(stash[c][q], live, light) \in MaybeLights
  BY <1>1, <1>5 DEF Applied, StashAfter, MaybeLights
<1>7. /\ puppet' \in [LampPlayers -> [LampPlayers -> MaybeLights]]
      /\ stash' \in [LampPlayers -> [LampPlayers -> MaybeLights]]
      /\ puppet'[c][q] = Applied(puppet[c][q], light)
      /\ stash'[c][q] = StashAfter(stash[c][q], live, light)
      /\ \A v, p \in LampPlayers : v # c \/ p # q =>
            puppet'[v][p] = puppet[v][p] /\ stash'[v][p] = stash[v][p]
      /\ down' \in [LampClients -> Seq(LampMsgs)] /\ down'[c] = Tail(down[c])
      /\ \A v \in LampClients : v # c => down'[v] = down[v]
  BY <1>0, <1>1, <1>2, <1>4, <1>5, <1>6
<1>8. FlashlightTypeOK'
  BY <1>0, <1>7 DEF FlashlightTypeOK, MaybeLights
<1>9. SlotsInv'
  <2>1. ASSUME NEW p \in LampClients, p \notin edges[0] PROVE UnknownSlot(p)'
    <3>1. UnknownSlot(p) /\ p \in LampPlayers
      BY <1>0, <2>1, LampFacts DEF SlotsInv
    <3>2. puppet'[0][p] = puppet[0][p] /\ stash'[0][p] = stash[0][p]
      BY <1>1, <1>7, <3>1
    <3> QED BY <1>0, <3>1, <3>2 DEF UnknownSlot
  <2> QED BY <1>0, <2>1 DEF SlotsInv, QuietSlot, OwnWords
<1>10. ASSUME NEW p \in joined PROVE HeardOf(p)'
  <2>0. p \in LampPlayers /\ HeardOf(p)
    BY <1>0, LampTypes, LampFacts DEF LampViewsInv
  <2>1. puppet'[0][p] = puppet[0][p] /\ stash'[0][p] = stash[0][p]
    BY <1>1, <1>7, <2>0
  <2> QED BY <1>0, <2>0, <2>1 DEF HeardOf
<1>11. ASSUME NEW v \in LampClients, NEW p \in LampPlayers, v # p
       PROVE  ShownTo(v, p)' /\ ToldRight(v, p)'
  <2>0. ShownTo(v, p) /\ ToldRight(v, p) /\ v \in LampPlayers
    BY <1>0, <1>11, LampFacts DEF LampViewsInv
  <2>1. ToldRight(v, p)'
    BY <1>0, <2>0 DEF ToldRight
  <2>2. CASE v = c /\ p = q
    <3>1. On(p, down[v]) = Over(On(p, down'[v]), light) /\ On(p, down'[v]) \in MaybeLights
      BY <1>2, <1>7, <2>2, LastOver DEF MaybeLights
    <3>2. PICK w \in MaybeLights, st \in MaybeLights, last \in MaybeLights, pup \in MaybeLights,
               ast \in BOOLEAN :
            /\ w = On(p, down'[v]) /\ st = stash[v][p] /\ last = lampTold[v][p]
            /\ pup = puppet[v][p] /\ ast = astray[v][p]
      BY <1>0, <2>0, <3>1, LampTypes
    <3>3. Shows(Over(w, light), st, last, pup, ast)
      BY <2>0, <3>1, <3>2 DEF ShownTo
    <3>4. Shows(w, StashAfter(st, pup # NoLamp, light), last, Applied(pup, light), ast)
      BY <3>3, ShowsHandled
    <3>5. StashAfter(st, pup # NoLamp, light) = stash'[v][p]
      BY <1>3, <1>7, <2>2, <3>2 DEF StashAfter
    <3>6. Applied(pup, light) = puppet'[v][p]
      BY <1>7, <2>2, <3>2
    <3>7. ShownTo(v, p)'
      BY <1>0, <3>2, <3>4, <3>5, <3>6 DEF ShownTo
    <3> QED BY <2>1, <3>7
  <2>3. CASE v # c \/ p # q
    <3>1. puppet'[v][p] = puppet[v][p] /\ stash'[v][p] = stash[v][p]
      BY <1>7, <2>0, <2>3
    <3>2. On(p, down'[v]) = On(p, down[v])
      BY <1>2, <1>7, <2>3
    <3> QED BY <1>0, <2>0, <2>1, <3>1, <3>2 DEF ShownTo
  <2> QED BY <2>2, <2>3
<1>12. LampViewsInv'
  BY <1>0, <1>10, <1>11 DEF LampViewsInv
<1> QED BY <1>8, <1>9, <1>12 DEF LampInv

-----------------------------------------------------------------------------
(* The host's tick. *)

LEMMA PlayersInOrder ==
    \E n \in Nat : n = Cardinality(LampPlayers) /\ LampPlayers = 0 .. n - 1
<1>1. PICK n : n = Cardinality(LampClients)
  OBVIOUS
<1>2. IsFiniteSet(LampClients) /\ LampClients = 1 .. n
  BY <1>1, FlashlightAssumption
<1>3. n \in Nat
  BY <1>1, <1>2, FS_CardinalityType
<1>4. 0 \notin LampClients /\ LampPlayers = LampClients \cup {0} /\ LampPlayers = 0 .. n
  BY <1>2, <1>3 DEF LampPlayers
<1>5. Cardinality(LampPlayers) = n + 1
  BY <1>1, <1>2, <1>4, FS_AddElement
<1>6. PICK k : k = Cardinality(LampPlayers)
  OBVIOUS
<1>7. k \in Nat /\ k - 1 = n
  BY <1>3, <1>5, <1>6
<1> QED BY <1>4, <1>6, <1>7

(* What is replayed of a client was in the cache. *)
IsReplay(q) ==
    /\ q \in Seq(LampMsgs)
    /\ \A p \in LampClients : lampCache[p] = NoLamp => On(p, q) = NoLamp

LEMMA ReplaySteps ==
    ASSUME FlashlightTypeOK, NEW c \in LampClients
    PROVE  IsReplay(Replay(c))
<1> DEFINE lit(p) == IF p = 0 THEN lamp[0] ELSE lampCache[p]
           replays == {p \in LampPlayers \ {c} :
                         lit(p) \in Beams /\ ~(p \in edges[0] \ joined /\ p < c)}
           base == [i \in 1 .. Cardinality(LampPlayers) |-> i - 1]
           places == {p + 1 : p \in replays}
           inOrder == Kept(base, places)
           replay == [i \in DOMAIN inOrder |-> [from |-> inOrder[i], light |-> lit(inOrder[i])]]
<1>1. Replay(c) = replay
  BY DEF Replay
<1>2. PICK n \in Nat : n = Cardinality(LampPlayers) /\ LampPlayers = 0 .. n - 1
  BY PlayersInOrder
<1>a. n = Cardinality(LampPlayers)
  BY <1>2
<1>b. n \in Nat /\ LampPlayers = 0 .. n - 1
  BY <1>2
<1>3. replays \in SUBSET LampPlayers /\ \A p \in replays : lit(p) \in Beams
  OBVIOUS
<1> HIDE DEF replays, lit
<1>4. base \in Seq(LampPlayers) /\ DOMAIN base = 1 .. n /\ \A i \in 1 .. n : base[i] = i - 1
  <2>0. ASSUME NEW i \in 1 .. n PROVE i - 1 \in LampPlayers
    BY <1>b
  <2>2. base = [i \in 1 .. n |-> i - 1]
    BY <1>a
  <2> HIDE DEF base
  <2>3. base \in [1 .. n -> LampPlayers]
    BY <2>0, <2>2
  <2>4. base \in Seq(LampPlayers)
    BY <2>3, SeqDef
  <2> QED BY <2>2, <2>4
<1> HIDE DEF base
<1>5. places \in SUBSET DOMAIN base /\ \A i \in places : base[i] \in replays
  <2>1. ASSUME NEW p \in replays PROVE p + 1 \in 1 .. n /\ base[p + 1] = p
    <3>1. p \in 0 .. n - 1 /\ n \in Nat
      BY <1>b, <1>3
    <3>2. PICK k \in 1 .. n : k = p + 1 /\ k - 1 = p
      BY <3>1
    <3>3. base[k] = p
      BY <1>4, <3>2
    <3> QED BY <3>2, <3>3
  <2> QED BY <1>4, <2>1
<1> HIDE DEF places
<1>6. inOrder \in Seq(LampPlayers) /\ \A i \in DOMAIN inOrder : inOrder[i] \in replays
  <2>1. inOrder \in Seq(LampPlayers)
    BY <1>4, <1>5, KeptElements
  <2>2. \A i \in DOMAIN inOrder : \E j \in places : inOrder[i] = base[j]
    BY <1>4, <1>5, KeptElements
  <2> QED BY <1>5, <2>1, <2>2
<1> HIDE DEF inOrder
<1>7. PICK len \in Nat : DOMAIN inOrder = 1 .. len
  BY <1>6, LenProperties
<1>8. /\ DOMAIN replay = 1 .. len
      /\ \A i \in 1 .. len : /\ replay[i] \in LampMsgs /\ replay[i].from \in replays
  <2>1. \A p \in replays : p \in LampPlayers /\ lit(p) \in Lights
    BY <1>3, LampFacts
  <2> QED BY <1>6, <1>7, <2>1 DEF LampMsgs
<1>9. replay \in Seq(LampMsgs)
  <2>1. replay = [i \in 1 .. len |-> replay[i]]
    BY <1>7
  <2> HIDE DEF replay
  <2>2. replay \in [1 .. len -> LampMsgs]
    BY <1>8, <2>1
  <2> QED BY <2>2, SeqDef
<1> HIDE DEF replay
<1>10. ASSUME NEW p \in LampClients, lampCache[p] = NoLamp PROVE On(p, replay) = NoLamp
  <2>1. lit(p) = NoLamp
    BY <1>10, LampFacts DEF lit
  <2>2. p \notin replays
    BY <1>3, <2>1, LampFacts
  <2>3. \A i \in DOMAIN replay : replay[i].from # p
    BY <1>8, <2>2
  <2> QED BY <1>9, <2>3, LastOver
<1> QED BY <1>1, <1>9, <1>10 DEF IsReplay

LEMMA LampHostTickKeeps ==
    ASSUME LampInv, LampHostTick
    PROVE  LampInv'
<1> DEFINE rising == joined \ edges[0]
           falling == edges[0] \ joined
           newest(p) == LastOf(p, inbox, lampCache[p])
           shows(p) == LastOf(p, inbox, stash[0][p])
           seenLamp(p) == IF p = 0 THEN lamp[0] ELSE AsLight(newest(p))
           replay == [c \in rising |-> Replay(c)]
<1>0. /\ FlashlightTypeOK /\ SlotsInv /\ LampViewsInv
      /\ lamp' = lamp /\ debug' = debug /\ linked' = linked /\ joined' = joined /\ up' = up
      /\ edges' = [edges EXCEPT ![0] = joined] /\ inbox' = <<>>
      /\ lastSig' = lastSig \/ lastSig' = [lastSig EXCEPT ![0] = lamp[0]]
  BY DEF LampInv, LampHostTick
<1>a. /\ down' = [c \in LampClients |-> IF c \in rising THEN down[c] \o replay[c] ELSE down[c]]
      /\ lampCache' = Forget(falling, [c \in LampClients |-> newest(c)])
      /\ puppet' = [puppet EXCEPT ![0] =
            Forget(falling, [p \in LampPlayers |-> Applied(puppet[0][p], shows(p))])]
      /\ stash' = [stash EXCEPT ![0] =
            Forget(falling, [p \in LampPlayers |-> DrainedStash(shows(p), puppet[0][p])])]
  BY DEF LampHostTick, DrainedStash
<1>b. /\ lampTold' = [v \in LampPlayers |->
            IF v \in rising
            THEN [p \in LampPlayers |-> LastOf(p, replay[v], lampTold[v][p])]
            ELSE IF v = 0 THEN Forget(falling, lampTold[0]) ELSE lampTold[v]]
      /\ astray' = [v \in LampPlayers |->
            IF v \in rising
            THEN [p \in LampPlayers |->
                    \/ astray[v][p] /\ LastOf(p, replay[v], NoLamp) = NoLamp
                    \/ p \in {0} \cup joined /\ AsLight(lampTold'[v][p]) # seenLamp(p)]
            ELSE astray[v]]
  BY DEF LampHostTick
<1>1. /\ joined \subseteq linked /\ linked \subseteq LampClients /\ 0 \in LampPlayers
      /\ LampClients \subseteq LampPlayers /\ 0 \notin LampClients
      /\ rising \subseteq LampClients /\ joined \subseteq LampPlayers
      /\ \A v : v \in rising <=> v \in joined /\ v \notin edges[0]
      /\ \A v : v \in falling <=> v \notin joined /\ v \in edges[0]
  BY <1>0, LampTypes, LampFacts
<1>2. /\ lastSig' \in [LampPlayers -> MaybeLights]
      /\ \A p \in LampClients : lastSig'[p] = lastSig[p]
      /\ edges' \in [LampPlayers -> SUBSET LampPlayers] /\ edges'[0] = joined
  BY <1>0, <1>1, LampFacts DEF FlashlightTypeOK, MaybeLights
<1>3. \A v \in rising : replay[v] = Replay(v) /\ IsReplay(replay[v])
  BY <1>0, <1>1, ReplaySteps
<1> HIDE DEF replay
<1>4. /\ \A p \in LampClients : newest(p) = Over(On(p, inbox), lampCache[p])
      /\ \A p \in LampClients : newest(p) \in MaybeLights
      /\ \A p \in LampPlayers : shows(p) = Over(On(p, inbox), stash[0][p])
      /\ \A p \in LampPlayers : shows(p) \in MaybeLights
  <2>1. inbox \in Seq(LampMsgs) /\ \A p : On(p, inbox) \in MaybeLights
    BY <1>0, LampTypes, OnTypes
  <2>2. \A p, x : LastOf(p, inbox, x) = Over(On(p, inbox), x)
    BY <2>1, LastOver
  <2>3. \A p, x : x \in MaybeLights => LastOf(p, inbox, x) \in MaybeLights
    BY <2>1, <2>2 DEF Over
  <2> QED BY <1>0, <1>1, <2>2, <2>3, LampTypes
<1> HIDE DEF newest, shows
<1>5. /\ lampCache' \in [LampClients -> MaybeLights]
      /\ \A p \in LampClients : lampCache'[p] = IF p \in falling THEN NoLamp
                                                ELSE Over(On(p, inbox), lampCache[p])
  <2>1. lampCache' = [p \in LampClients |-> IF p \in falling THEN NoLamp ELSE newest(p)]
    BY <1>a DEF Forget
  <2> QED BY <1>4, <2>1 DEF MaybeLights
<1>6. /\ stash' \in [LampPlayers -> [LampPlayers -> MaybeLights]]
      /\ puppet' \in [LampPlayers -> [LampPlayers -> MaybeLights]]
      /\ \A v \in LampPlayers : v # 0 => stash'[v] = stash[v] /\ puppet'[v] = puppet[v]
      /\ \A p \in LampPlayers : p \in falling => stash'[0][p] = NoLamp /\ puppet'[0][p] = NoLamp
      /\ \A p \in LampPlayers : p \notin falling =>
            /\ stash'[0][p] = DrainedStash(Over(On(p, inbox), stash[0][p]), puppet[0][p])
            /\ puppet'[0][p] = Applied(puppet[0][p], Over(On(p, inbox), stash[0][p]))
  <2>1. /\ stash \in [LampPlayers -> [LampPlayers -> MaybeLights]]
        /\ puppet \in [LampPlayers -> [LampPlayers -> MaybeLights]]
    BY <1>0 DEF FlashlightTypeOK, MaybeLights
  <2>2. \A p \in LampPlayers : /\ Applied(puppet[0][p], shows(p)) \in MaybeLights
                               /\ DrainedStash(shows(p), puppet[0][p]) \in MaybeLights
    BY <1>1, <1>4, <2>1 DEF Applied, DrainedStash, MaybeLights
  <2>3. PICK pup : pup = [p \in LampPlayers |->
                            IF p \in falling THEN NoLamp ELSE Applied(puppet[0][p], shows(p))]
    OBVIOUS
  <2>4. PICK st : st = [p \in LampPlayers |->
                          IF p \in falling THEN NoLamp ELSE DrainedStash(shows(p), puppet[0][p])]
    OBVIOUS
  <2>5. pup \in [LampPlayers -> MaybeLights] /\ st \in [LampPlayers -> MaybeLights]
    BY <2>2, <2>3, <2>4 DEF MaybeLights
  <2>6. puppet' = [puppet EXCEPT ![0] = pup] /\ stash' = [stash EXCEPT ![0] = st]
    BY <1>a, <2>3, <2>4 DEF Forget
  <2>7. /\ stash' \in [LampPlayers -> [LampPlayers -> MaybeLights]]
        /\ puppet' \in [LampPlayers -> [LampPlayers -> MaybeLights]]
        /\ \A v \in LampPlayers : v # 0 => stash'[v] = stash[v] /\ puppet'[v] = puppet[v]
        /\ stash'[0] = st /\ puppet'[0] = pup
    BY <1>1, <2>1, <2>5, <2>6
  <2> QED BY <1>4, <2>3, <2>4, <2>7
<1>7. /\ down' \in [LampClients -> Seq(LampMsgs)]
      /\ \A v \in LampClients : v \notin rising => down'[v] = down[v]
      /\ \A v \in rising : \A p : On(p, down'[v]) = Over(On(p, replay[v]), On(p, down[v]))
  <2>1. ASSUME NEW v \in LampClients
        PROVE  /\ down'[v] \in Seq(LampMsgs)
               /\ v \notin rising => down'[v] = down[v]
               /\ v \in rising => \A p : On(p, down'[v]) = Over(On(p, replay[v]), On(p, down[v]))
    <3>1. down[v] \in Seq(LampMsgs)
      BY <1>0, LampTypes
    <3>2. CASE v \in rising
      <4>1. replay[v] \in Seq(LampMsgs) /\ down'[v] = down[v] \o replay[v]
        BY <1>a, <1>3, <3>2 DEF IsReplay
      <4>2. PICK q : q = down[v] \o replay[v]
        OBVIOUS
      <4>3. q \in Seq(LampMsgs) /\ \A p : On(p, q) = Over(On(p, replay[v]), On(p, down[v]))
        BY <3>1, <4>1, <4>2, OnConcat
      <4> QED BY <3>2, <4>1, <4>2, <4>3
    <3>3. CASE v \notin rising
      BY <1>a, <3>1, <3>3
    <3> QED BY <3>2, <3>3
  <2>2. down' \in [LampClients -> Seq(LampMsgs)]
    BY <1>a, <2>1
  <2> QED BY <1>1, <2>1, <2>2
<1>8. /\ lampTold' \in [LampPlayers -> [LampPlayers -> MaybeLights]]
      /\ \A v \in LampClients : v \notin rising => lampTold'[v] = lampTold[v]
      /\ \A v \in rising, p \in LampPlayers :
            lampTold'[v][p] = Over(On(p, replay[v]), lampTold[v][p])
  <2>1. lampTold \in [LampPlayers -> [LampPlayers -> MaybeLights]]
    BY <1>0 DEF FlashlightTypeOK, MaybeLights
  <2>2. ASSUME NEW v \in rising
        PROVE  /\ lampTold'[v] \in [LampPlayers -> MaybeLights]
               /\ \A p \in LampPlayers : lampTold'[v][p] = Over(On(p, replay[v]), lampTold[v][p])
    <3>0. v \in LampPlayers
      BY <1>1
    <3>1. lampTold'[v] = [p \in LampPlayers |-> LastOf(p, replay[v], lampTold[v][p])]
      BY <1>b, <3>0
    <3>2. replay[v] \in Seq(LampMsgs)
      BY <1>3 DEF IsReplay
    <3>3. ASSUME NEW p \in LampPlayers
          PROVE  /\ LastOf(p, replay[v], lampTold[v][p]) = Over(On(p, replay[v]), lampTold[v][p])
                 /\ LastOf(p, replay[v], lampTold[v][p]) \in MaybeLights
      <4>1. /\ LastOf(p, replay[v], lampTold[v][p]) = Over(On(p, replay[v]), lampTold[v][p])
            /\ On(p, replay[v]) \in MaybeLights
        BY <3>2, LastOver DEF MaybeLights
      <4> QED BY <2>1, <3>0, <4>1 DEF Over
    <3> QED BY <3>1, <3>3
  <2>3. ASSUME NEW v \in LampPlayers, v \notin rising
        PROVE  lampTold'[v] \in [LampPlayers -> MaybeLights] /\ (v # 0 => lampTold'[v] = lampTold[v])
    <3>1. CASE v # 0
      BY <1>b, <2>1, <2>3, <3>1
    <3>2. CASE v = 0
      <4>1. lampTold'[v] = [p \in LampPlayers |-> IF p \in falling THEN NoLamp ELSE lampTold[0][p]]
        BY <1>b, <2>1, <2>3, <3>2 DEF Forget
      <4> QED BY <2>1, <2>3, <3>2, <4>1 DEF MaybeLights
    <3> QED BY <3>1, <3>2
  <2>4. lampTold' \in [LampPlayers -> [LampPlayers -> MaybeLights]]
    BY <1>b, <1>1, <2>2, <2>3
  <2> QED BY <1>1, <2>2, <2>3, <2>4
<1>9. /\ astray' \in [LampPlayers -> [LampPlayers -> BOOLEAN]]
      /\ \A v \in LampPlayers : v \notin rising => astray'[v] = astray[v]
      /\ \A v \in rising, p \in LampPlayers :
            /\ On(p, replay[v]) = NoLamp /\ ~ astray'[v][p] => ~ astray[v][p]
            /\ ~ astray'[v][p] /\ p \in {0} \cup joined => AsLight(lampTold'[v][p]) = seenLamp(p)
  <2> HIDE DEF seenLamp
  <2>1. astray \in [LampPlayers -> [LampPlayers -> BOOLEAN]]
    BY <1>0 DEF FlashlightTypeOK
  <2>2. ASSUME NEW v \in rising
        PROVE  /\ astray'[v] \in [LampPlayers -> BOOLEAN]
               /\ \A p \in LampPlayers :
                    /\ On(p, replay[v]) = NoLamp /\ ~ astray'[v][p] => ~ astray[v][p]
                    /\ ~ astray'[v][p] /\ p \in {0} \cup joined =>
                          AsLight(lampTold'[v][p]) = seenLamp(p)
    <3>0. v \in LampPlayers
      BY <1>1
    <3>1. PICK new \in [LampPlayers -> BOOLEAN] :
            new = [p \in LampPlayers |->
                    \/ astray[v][p] /\ LastOf(p, replay[v], NoLamp) = NoLamp
                    \/ p \in {0} \cup joined /\ AsLight(lampTold'[v][p]) # seenLamp(p)]
      <4>1. \A p \in LampPlayers :
              (\/ astray[v][p] /\ LastOf(p, replay[v], NoLamp) = NoLamp
               \/ p \in {0} \cup joined /\ AsLight(lampTold'[v][p]) # seenLamp(p)) \in BOOLEAN
        BY <2>1, <3>0
      <4> QED BY <4>1
    <3>2. \A p \in LampPlayers :
            new[p] <=> (\/ astray[v][p] /\ LastOf(p, replay[v], NoLamp) = NoLamp
                        \/ p \in {0} \cup joined /\ AsLight(lampTold'[v][p]) # seenLamp(p))
      BY <3>1
    <3>3. astray'[v] = new
      BY <1>b, <3>0, <3>1
    <3> QED BY <3>2, <3>3 DEF On
  <2>3. ASSUME NEW v \in LampPlayers, v \notin rising
        PROVE  astray'[v] = astray[v] /\ astray'[v] \in [LampPlayers -> BOOLEAN]
    BY <1>b, <2>1, <2>3
  <2>4. astray' \in [LampPlayers -> [LampPlayers -> BOOLEAN]]
    BY <1>b, <1>1, <2>2, <2>3
  <2> QED BY <2>2, <2>3, <2>4
<1> HIDE DEF rising, falling
<1>10. FlashlightTypeOK'
  BY <1>0, <1>2, <1>5, <1>6, <1>7, <1>8, <1>9, OnNothing DEF FlashlightTypeOK, MaybeLights
<1>11. \A p : On(p, inbox') = NoLamp
  BY <1>0, OnNothing
<1>12. SlotsInv'
  <2>1. ASSUME NEW p \in LampClients, p \notin joined PROVE UnknownSlot(p)'
    <3>1. CASE p \in falling
      BY <1>1, <1>5, <1>6, <3>1 DEF UnknownSlot, AsLight
    <3>2. CASE p \notin falling
      <4>1. UnknownSlot(p) /\ QuietSlot(p)
        BY <1>0, <1>1, <2>1, <3>2 DEF SlotsInv
      <4>2. Over(On(p, inbox), lampCache[p]) = NoLamp /\ Over(On(p, inbox), stash[0][p]) = NoLamp
        BY <4>1 DEF UnknownSlot, QuietSlot, Over
      <4>3. lampCache'[p] = NoLamp
        BY <1>5, <3>2, <4>2
      <4>4. stash'[0][p] = NoLamp /\ puppet'[0][p] = puppet[0][p]
        BY <1>1, <1>6, <3>2, <4>2 DEF DrainedStash, Applied
      <4> QED BY <4>1, <4>3, <4>4 DEF UnknownSlot
    <3> QED BY <3>1, <3>2
  <2>2. \A p \in LampClients : p \notin joined' => QuietSlot(p)'
    BY <1>0, <1>11 DEF SlotsInv, QuietSlot
  <2>3. \A p \in LampClients : OwnWords(p)'
    BY <1>0, <1>2 DEF SlotsInv, OwnWords
  <2> QED BY <1>0, <1>2, <2>1, <2>2, <2>3 DEF SlotsInv
<1>13. ASSUME NEW p \in joined PROVE HeardOf(p)'
  <2>0. p \in LampPlayers /\ p \in LampClients /\ p \notin falling /\ HeardOf(p) /\ 0 \notin rising
    BY <1>0, <1>1 DEF LampViewsInv
  <2>1. lamp[p] \in Lights
    BY <1>0, <2>0, LampTypes
  <2>2. Heard(On(p, up[p]), NoLamp, Over(On(p, inbox), lampCache[p]),
              DrainedStash(Over(On(p, inbox), stash[0][p]), puppet[0][p]),
              Applied(puppet[0][p], Over(On(p, inbox), stash[0][p])), astray[0][p], lamp[p])
    BY <2>0, <2>1, HeardTicked DEF HeardOf
  <2>3. astray'[0][p] = astray[0][p]
    BY <1>1, <1>9, <2>0
  <2> QED BY <1>0, <1>5, <1>6, <1>11, <2>0, <2>2, <2>3 DEF HeardOf
<1>14. ASSUME NEW v \in LampClients, NEW p \in LampPlayers, v # p
       PROVE  ShownTo(v, p)' /\ ToldRight(v, p)'
  <2>0. /\ ShownTo(v, p) /\ ToldRight(v, p) /\ v \in LampPlayers /\ v # 0
        /\ stash'[v] = stash[v] /\ puppet'[v] = puppet[v]
    BY <1>0, <1>1, <1>6, <1>14 DEF LampViewsInv
  <2>1. CASE v \notin rising
    <3>1. lampTold'[v] = lampTold[v] /\ astray'[v] = astray[v] /\ down'[v] = down[v]
      BY <1>7, <1>8, <1>9, <2>0, <2>1
    <3>2. ShownTo(v, p)'
      BY <2>0, <3>1 DEF ShownTo
    <3>3. v \in joined => v \in edges[0]
      BY <1>1, <2>1
    <3> QED BY <1>0, <2>0, <3>1, <3>2, <3>3 DEF ToldRight
  <2>2. CASE v \in rising
    <3>1. PICK r : r = On(p, replay[v])
      OBVIOUS
    <3>2. /\ On(p, down'[v]) = Over(r, On(p, down[v]))
          /\ lampTold'[v][p] = Over(r, lampTold[v][p])
          /\ r = NoLamp /\ ~ astray'[v][p] => ~ astray[v][p]
          /\ ~ astray'[v][p] /\ p \in {0} \cup joined => AsLight(lampTold'[v][p]) = seenLamp(p)
          /\ astray'[v][p] \in BOOLEAN /\ astray[v][p] \in BOOLEAN
      <4>1. astray'[v][p] \in BOOLEAN /\ astray[v][p] \in BOOLEAN
        BY <1>0, <1>9, <2>0, LampTypes
      <4> HIDE DEF seenLamp
      <4> QED BY <1>7, <1>8, <1>9, <2>2, <3>1, <4>1
    <3>3. ShownTo(v, p)'
      <4>1. CASE r # NoLamp
        <5>1. On(p, down'[v]) = r /\ lampTold'[v][p] = r /\ r \in Lights
          <6>1. replay[v] \in Seq(LampMsgs)
            BY <1>3, <2>2 DEF IsReplay
          <6>2. r \in Lights
            BY <3>1, <4>1, <6>1, LastOver
          <6> QED BY <3>2, <4>1, <6>2 DEF Over
        <5>2. Shows(r, stash'[v][p], r, puppet'[v][p], astray'[v][p])
          BY <5>1, ShowsNews
        <5> QED BY <5>1, <5>2 DEF ShownTo
      <4>2. CASE r = NoLamp
        <5>1. On(p, down'[v]) = On(p, down[v]) /\ lampTold'[v][p] = lampTold[v][p]
          BY <3>2, <4>2 DEF Over
        <5>2. CASE astray'[v][p] = TRUE
          <6>1. Shows(On(p, down[v]), stash[v][p], lampTold[v][p], puppet[v][p], TRUE)
            BY <2>0, ShowsAstray DEF ShownTo
          <6> QED BY <2>0, <5>1, <5>2, <6>1 DEF ShownTo
        <5>3. CASE astray'[v][p] = FALSE
          <6>1. astray[v][p] = FALSE
            BY <3>2, <4>2, <5>3
          <6> QED BY <2>0, <5>1, <5>3, <6>1 DEF ShownTo
        <5> QED BY <3>2, <5>2, <5>3
      <4> QED BY <4>1, <4>2
    <3>4. ASSUME ~ astray'[v][p], p = 0 PROVE AsLight(lampTold'[v][p]) = lamp[p]
      BY <3>2, <3>4
    <3>5. ASSUME ~ astray'[v][p], p \in joined, On(p, up[p]) = NoLamp
          PROVE  AsLight(lampTold'[v][p]) = lamp[p]
      <4>1. AsLight(lampTold'[v][p]) = AsLight(Over(On(p, inbox), lampCache[p]))
        BY <1>1, <1>4, <3>2, <3>5
      <4>2. AsLight(Over(On(p, up[p]), Over(On(p, inbox), lampCache[p]))) = lamp[p]
        BY <1>0, <3>5 DEF LampViewsInv, HeardOf, Heard
      <4> QED BY <3>5, <4>1, <4>2 DEF Over
    <3>6. ASSUME ~ astray'[v][p], p \in linked \ joined PROVE AsLight(lampTold'[v][p]) = Dark
      <4>1. p \in LampClients /\ p \notin edges[0]
        BY <1>0, <1>1, <3>6 DEF SlotsInv
      <4>2. r = NoLamp
        BY <1>0, <1>3, <2>2, <3>1, <4>1 DEF SlotsInv, UnknownSlot, IsReplay
      <4>3. lampTold'[v][p] = lampTold[v][p] /\ ~ astray[v][p]
        BY <3>2, <3>6, <4>2 DEF Over
      <4> QED BY <2>0, <3>6, <4>3 DEF ToldRight
    <3>7. ToldRight(v, p)'
      BY <1>0, <3>4, <3>5, <3>6 DEF ToldRight
    <3> QED BY <3>3, <3>7
  <2> QED BY <2>1, <2>2
<1>15. LampViewsInv'
  BY <1>0, <1>13, <1>14 DEF LampViewsInv
<1> QED BY <1>10, <1>12, <1>15 DEF LampInv

-----------------------------------------------------------------------------
LEMMA LampInvInitially ==
    ASSUME FlashlightInit
    PROVE  LampInv
<1>0. /\ lamp = [p \in LampPlayers |-> Dark] /\ lastSig = [p \in LampPlayers |-> NoLamp]
      /\ debug = "idle" /\ linked = {} /\ joined = {} /\ edges = [p \in LampPlayers |-> {}]
      /\ up = [c \in LampClients |-> <<>>] /\ down = [c \in LampClients |-> <<>>] /\ inbox = <<>>
      /\ lampCache = [c \in LampClients |-> NoLamp]
      /\ stash = ForEveryPair(NoLamp) /\ puppet = ForEveryPair(NoLamp)
      /\ lampTold = ForEveryPair(NoLamp) /\ astray = ForEveryPair(FALSE)
  BY DEF FlashlightInit
<1>1. FlashlightTypeOK
  BY <1>0, LampFacts, OnNothing DEF FlashlightTypeOK, ForEveryPair
<1>2. SlotsInv
  <2>1. \A p \in LampClients : OwnWords(p)
    <3>1. <<>> \in Seq(LampMsgs) /\ DOMAIN <<>> = {}
      BY EmptySeq
    <3> QED BY <1>0, <3>1, LampFacts DEF OwnWords, AsLight
  <2>2. \A p \in LampClients : UnknownSlot(p) /\ QuietSlot(p)
    BY <1>0, LampFacts, OnNothing DEF UnknownSlot, QuietSlot, AsLight, ForEveryPair
  <2>3. edges[0] = {}
    BY <1>0, LampFacts
  <2> QED BY <2>1, <2>2, <2>3 DEF SlotsInv
<1>3. ASSUME NEW v \in LampClients, NEW p \in LampPlayers PROVE ShownTo(v, p) /\ ToldRight(v, p)
  <2>1. /\ stash[v][p] = NoLamp /\ lampTold[v][p] = NoLamp /\ puppet[v][p] = NoLamp
        /\ astray[v][p] = FALSE /\ On(p, down[v]) = NoLamp
    BY <1>0, LampFacts, OnNothing DEF ForEveryPair
  <2> QED BY <1>0, <2>1, ShowsNothing DEF ShownTo, ToldRight
<1>4. LampViewsInv
  BY <1>0, <1>3 DEF LampViewsInv
<1> QED BY <1>1, <1>2, <1>4 DEF LampInv

LEMMA LampInvKept ==
    ASSUME LampInv, [FlashlightNext]_lampVars
    PROVE  LampInv'
<1>1. CASE UNCHANGED lampVars
  BY <1>1 DEF lampVars, peerVars, pathVars, showVars, ghostVars, LampInv, FlashlightTypeOK,
     SlotsInv, LampViewsInv, UnknownSlot, QuietSlot, OwnWords, HeardOf, ShownTo, ToldRight
<1>2. ASSUME NEW p \in LampUsers, NEW light \in Lights, Touch(p, light) PROVE LampInv'
  <2>1. p = 0 \/ p \in joined
    BY <1>2 DEF Touch
  <2> QED BY <1>2, <2>1, TouchByHostKeeps, TouchByClientKeeps
<1>3. ASSUME NEW light \in Lights, DebugFlips(light) PROVE LampInv'
  BY <1>3, DebugFlipsKeeps
<1>4. CASE DebugReads \/ DebugSends
  BY <1>4, DebugReadsKeeps, DebugSendsKeeps
<1>5. CASE LampHostTick
  BY <1>5, LampHostTickKeeps
<1>6. ASSUME NEW v \in LampPlayers, NEW p \in LampPlayers, PuppetAppears(v, p) PROVE LampInv'
  BY <1>6, PuppetAppearsKeeps
<1>7. ASSUME NEW v \in LampPlayers, LevelChanges(v) PROVE LampInv'
  BY <1>7, LevelChangesKeeps
<1>8. ASSUME NEW c \in LampClients,
             HostReceives(c) \/ Link(c) \/ LampJoin(c) \/ LampLeave(c)
      PROVE  LampInv'
  BY <1>8, HostReceivesKeeps, LinkKeeps, LampJoinKeeps, LampLeaveKeeps
<1>9. ASSUME NEW c \in LampClients, LampClientTick(c) \/ HandleItemActivate(c) PROVE LampInv'
  BY <1>9, ClientTickKeeps, HandleItemActivateKeeps
<1> QED BY <1>1, <1>2, <1>3, <1>4, <1>5, <1>6, <1>7, <1>8, <1>9 DEF FlashlightNext

(* The invariant of item activation: what every player shows of a lamp,    *)
(* has been told of it and will be, through stash, queue, cache and replay. *)
THEOREM LampInvariance == FlashlightSpec => []LampInv
<1>1. FlashlightInit => LampInv
  BY LampInvInitially
<1>2. LampInv /\ [FlashlightNext]_lampVars => LampInv'
  BY LampInvKept
<1> QED BY <1>1, <1>2, PTL DEF FlashlightSpec

(* In the end every player shows everyone's lamp as it is, unless the      *)
(* ghost astray says what has gone wrong: ApplyToPuppetOrDefer,            *)
(* TickConnect, the cache and the replay of item_activate.cpp, whatever    *)
(* the number of clients, of lights and of announcements on their way.     *)
THEOREM LampsAlwaysAgree == FlashlightSpec => []LampsAgree
<1>1. LampInv => LampsAgree
  <2> SUFFICES ASSUME LampInv, NEW v \in LampPlayers, NEW p \in LampPlayers,
                      AllShown(v, p), ~ astray[v][p]
               PROVE  puppet[v][p] = lamp[p]
    BY DEF LampsAgree
  <2>0. FlashlightTypeOK /\ LampViewsInv
    BY DEF LampInv
  <2>1. /\ v # p /\ {v, p} \subseteq {0} \cup joined /\ (v # 0 => v \in edges[0])
        /\ (p # 0 => up[p] = <<>>) /\ ~ OnItsWay(v, p) /\ On(p, inbox) = NoLamp
        /\ stash[v][p] = NoLamp /\ puppet[v][p] # NoLamp /\ debug = "idle"
    BY DEF AllShown, On
  <2>2. AsLight(puppet[v][p]) = puppet[v][p] /\ (p \in joined => On(p, up[p]) = NoLamp)
    BY <2>1, LampFacts, LampTypes, <2>0, OnNothing DEF AsLight
  <2>3. CASE v = 0
    <3>1. p \in joined /\ p \in LampClients
      BY <2>0, <2>1, <2>3, LampTypes
    <3>2. Over(On(p, up[p]), Over(On(p, inbox), stash[0][p])) = NoLamp
      BY <2>1, <2>2, <2>3, <3>1 DEF Over
    <3> QED BY <2>0, <2>2, <2>3, <3>1, <3>2 DEF LampViewsInv, HeardOf, Heard
  <2>4. CASE v # 0
    <3>1. v \in joined /\ v \in LampClients /\ v \in edges[0] /\ (p = 0 \/ p \in joined)
      BY <2>0, <2>1, <2>4, LampTypes
    <3>2. ShownTo(v, p) /\ ToldRight(v, p)
      BY <2>0, <2>1, <3>1 DEF LampViewsInv
    <3>3. On(p, down[v]) = NoLamp
      BY <2>0, <2>1, <3>1, OnItsWayToClient
    <3>4. Over(On(p, down[v]), stash[v][p]) = NoLamp
      BY <2>1, <3>3 DEF Over
    <3>5. AsLight(puppet[v][p]) = AsLight(lampTold[v][p])
      BY <3>2, <3>4 DEF ShownTo, Shows
    <3>6. AsLight(lampTold[v][p]) = lamp[p]
      BY <2>1, <2>2, <3>1, <3>2 DEF ToldRight
    <3> QED BY <2>2, <3>5, <3>6
  <2> QED BY <2>3, <2>4
<1> QED BY <1>1, LampInvariance, PTL

=============================================================================
