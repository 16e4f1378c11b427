------------------------------- MODULE Puppet -------------------------------
(***************************************************************************)
(* The puppet of one slot (coop/remote_player.cpp, coop/nameplate.cpp, the *)
(* puppets of coop/net_pump.cpp, the flop and the hurt flash of            *)
(* ue_wrap/engine_mainplayer.cpp): from the stored pose to what the engine *)
(* shows.  A body is spawned for the first pose; each pose opens a window  *)
(* in which the body glides to it, or snaps; a state bit of the pose makes *)
(* the body flop, less health makes it flash red; a label floats above it. *)
(* A change of level takes body and label, and nobody says so.             *)
(***************************************************************************)
EXTENDS Integers

CONSTANTS
    MaxPos,         \* bound: positions, on a line
    SnapLimit,      \* kSnapBaseCm + kSnapPerSpeedSec * speed
    Window,         \* kInterpWindowMs, in frames
    FlashTime,      \* kHurtFlashMs, in frames
    MaxHealth,      \* health as the nameplate and the epsilon tell it apart
    MaxHits,        \* bound: losses of health
    MaxLevels,      \* bound: changes of level
    MaxHolders      \* bound: players that the slot is given to

ASSUME PuppetAssumption ==
    /\ MaxPos \in Nat /\ SnapLimit \in Nat /\ MaxHealth \in Nat
    /\ Window \in Nat \ {0} /\ FlashTime \in Nat \ {0}
    /\ MaxHits \in Nat /\ MaxLevels \in Nat /\ MaxHolders \in Nat

Pos == 0 .. MaxPos
Poses == [x : Pos, limp : BOOLEAN, health : 0 .. MaxHealth]
NoPose == [x |-> -1, limp |-> FALSE, health |-> 0]

VARIABLES
    slotReady, slotWasReady,    \* IsSlotReady, g_wasConnectedBySlot
    pose, poseIsNew,            \* remotePoses_, and its stamp has not been read
    puppet,       \* the RemotePlayer, its body and its label, below
    hit,                        \* history: the holder of the slot has lost health
    hits, levels, holders

puppetVars == <<slotReady, slotWasReady, pose, poseIsNew, puppet, hit, hits, levels, holders>>

NewPlayer ==
    [(* RemotePlayer *)
     actor |-> FALSE,           \* actor_ is not null
     hasPose |-> FALSE, cur |-> 0, target |-> 0,
     left |-> 0,                \* what is left of the window; 0: interpFinishMs_ is 0
     dirty |-> TRUE,
     wire |-> FALSE,            \* ragdollWireState_
     dispatched |-> FALSE,      \* ragdollDispatched_
     health |-> MaxHealth,
     armed |-> FALSE,           \* hurtFlashEndMs_ is not 0
     flashLeft |-> 0,           \* how far ahead it is
     flashing |-> FALSE,        \* hurtFlashActive_
     saved |-> "none",          \* hurtSavedMaterials_: of the body, or of one gone
     (* the engine's body *)
     live |-> FALSE, at |-> 0, limp |-> FALSE, red |-> FALSE,
     (* the nameplate *)
     entry |-> FALSE,           \* g_entries has the player
     labelLive |-> FALSE, labelHealth |-> MaxHealth, labelRed |-> FALSE]

-----------------------------------------------------------------------------
(* What the functions do to the player q. *)

Valid(q) == q.actor /\ q.live

ApplyToEngine(q) ==
    [q EXCEPT !.at = IF q.dispatched THEN @ ELSE q.cur, !.dirty = FALSE]

(* nameplate::Register, which has an entry or makes one.                    *)
Register(q) ==
    IF q.entry THEN q
    ELSE [q EXCEPT !.entry = TRUE, !.labelLive = TRUE, !.labelHealth = q.health,
                   !.labelRed = FALSE]

(* SpawnPuppetMainPlayer: an actor of the player's class whose own ticks    *)
(* are off, so that it stays as it is put.                                  *)
WithBody(q) ==
    [q EXCEPT !.actor = TRUE, !.live = TRUE, !.at = 0, !.limp = FALSE, !.red = FALSE]

(* The body starts beside the local player, away from any pose.             *)
Spawned(q) ==
    Register(ApplyToEngine(
        [WithBody(q) EXCEPT !.cur = 0, !.target = 0, !.left = 0, !.hasPose = FALSE]))

(* Mutant: a body that has not been posed yet is hit, too.                  *)
SetVitalsAlways(q, health) ==
    [(IF health < q.health THEN [q EXCEPT !.armed = TRUE, !.flashLeft = FlashTime] ELSE q)
        EXCEPT !.health = health]

SetVitals(q, health) ==
    [(IF q.hasPose /\ health < q.health
      THEN [q EXCEPT !.armed = TRUE, !.flashLeft = FlashTime] ELSE q)
        EXCEPT !.health = health]

(* StartPuppetMeshRagdoll, which needs the physics asset to resolve, and    *)
(* StopPuppetMeshRagdoll, at the edges of the state bit.                    *)
StartRagdoll(q, resolves) == [q EXCEPT !.dispatched = resolves, !.limp = resolves \/ @]
StopRagdoll(q) == [q EXCEPT !.dispatched = FALSE, !.limp = FALSE]

SetRagdoll(q, limp, resolves) ==
    IF limp = q.wire THEN q
    ELSE IF limp THEN StartRagdoll([q EXCEPT !.wire = TRUE], resolves)
    ELSE StopRagdoll([q EXCEPT !.wire = FALSE])

SnapTo(q, x) ==
    ApplyToEngine([q EXCEPT !.cur = x, !.target = x, !.left = 0, !.hasPose = TRUE])

Distance(a, b) == IF a < b THEN b - a ELSE a - b

SetTargetPose(q, new, resolves) ==
    LET r == SetRagdoll(SetVitals(q, new.health), new.limp, resolves) IN
    IF ~ r.hasPose \/ Distance(r.cur, new.x) > SnapLimit THEN SnapTo(r, new.x)
    ELSE [r EXCEPT !.target = new.x, !.left = Window, !.dirty = TRUE]

(* RemotePlayer::Tick, when some time has passed: how the window advances.  *)
Between(a, b) == {x \in Pos : (a =< x /\ x =< b) \/ (b =< x /\ x =< a)}

(* Mutant: what arrives at the end of the window is not pushed any more.    *)
AdvancedUnlessArrived(q) ==
    IF q.left = 0 THEN {q}
    ELSE {[q EXCEPT !.left = l, !.cur = IF l = 0 THEN q.target ELSE x, !.dirty = l > 0] :
             l \in 0 .. q.left - 1, x \in Between(q.cur, q.target)}

Moved(q, l, x) ==
    [q EXCEPT !.left = l, !.cur = IF l = 0 THEN q.target ELSE x, !.dirty = TRUE]

Advanced(q) ==
    IF q.left = 0 THEN {q}
    ELSE {Moved(q, l, x) : l \in 0 .. q.left - 1, x \in Between(q.cur, q.target)}

Pushed(q) == IF q.dirty THEN ApplyToEngine(q) ELSE q

(* ApplyHurtFlashMaterial, RestoreHurtFlashMaterial *)
Reddened(q) == IF q.saved = "none" THEN [q EXCEPT !.red = TRUE, !.saved = "body"] ELSE q
Restored(q) == [q EXCEPT !.red = @ /\ q.saved # "body", !.saved = "none"]

SetFlash(q, on) == [q EXCEPT !.labelRed = IF q.entry /\ q.labelLive THEN on ELSE @]

(* Mutant: the deadline is cleared when it has passed, before the edge.     *)
FlashEdgeLate(q) ==
    IF q.armed /\ q.flashLeft = 0 THEN [q EXCEPT !.armed = FALSE]
    ELSE IF q.armed = q.flashing THEN q
    ELSE IF q.armed THEN Reddened(SetFlash([q EXCEPT !.flashing = TRUE], TRUE))
    ELSE q

FlashEdge(q) ==
    LET want == q.armed /\ q.flashLeft > 0 IN
    IF want = q.flashing THEN q
    ELSE IF want THEN Reddened(SetFlash([q EXCEPT !.flashing = TRUE], TRUE))
    ELSE Restored(SetFlash([q EXCEPT !.flashing = FALSE, !.armed = FALSE], FALSE))

Ticked(q) ==
    IF ~ Valid(q) THEN {q}
    ELSE {FlashEdge(r) :
             r \in {[Pushed(a) EXCEPT !.flashLeft = t] : a \in Advanced(q),
                        t \in {n \in 0 .. FlashTime : n < q.flashLeft \/ n = 0}}}

(* nameplate::Unregister destroys a label that lives.                       *)
Unregister(q) == [q EXCEPT !.entry = FALSE, !.labelLive = FALSE, !.labelRed = FALSE]

Reset(q) == [NewPlayer EXCEPT !.dirty = FALSE, !.health = q.health, !.cur = q.cur,
                              !.target = q.target, !.entry = q.entry, !.labelLive = q.labelLive,
                              !.labelHealth = q.labelHealth, !.labelRed = q.labelRed]

(* Mutant: the label stays.                                                 *)
DestroyActorOnly(q) == IF q.actor THEN Reset(q) ELSE q

Destroy(q) == IF q.actor THEN Reset(Unregister(q)) ELSE q

(* nameplate::Update, behind its change gate.                               *)
Labelled(q) ==
    IF q.entry /\ q.labelLive /\ Valid(q) THEN [q EXCEPT !.labelHealth = q.health] ELSE q

-----------------------------------------------------------------------------
(* net_pump::Tick with the puppets' part, and nameplate::Update after it.   *)
AfterEdge == IF slotWasReady /\ ~ slotReady /\ Valid(puppet) THEN Destroy(puppet) ELSE puppet

(* A body is missing and is spawned, unless the engine refuses or the last  *)
(* refusal is less than a second ago.                                       *)
Driven(q, spawns, resolves) ==
    IF pose = NoPose \/ (~ Valid(q) /\ ~ spawns) THEN q
    ELSE LET s == IF Valid(q) THEN q ELSE Spawned(q) IN
         IF poseIsNew THEN SetTargetPose(s, pose, resolves) ELSE s

Frame ==
    /\ \E spawns \in {TRUE, Valid(AfterEdge)}, resolves \in {TRUE, ~ pose.limp} :
         \E d \in {Driven(AfterEdge, spawns, resolves)} : \E q \in Ticked(d) : puppet' = Labelled(q)
    /\ slotWasReady' = slotReady
    /\ poseIsNew' = FALSE       \* TryGetRemotePose marks it read
    /\ UNCHANGED <<slotReady, pose, hit, hits, levels, holders>>

-----------------------------------------------------------------------------
(* A player takes the slot; the tick has seen the last one go.              *)
SlotOpens ==
    /\ ~ slotReady /\ ~ slotWasReady /\ holders < MaxHolders
    /\ slotReady' = TRUE /\ hit' = FALSE /\ holders' = holders + 1
    /\ UNCHANGED <<slotWasReady, pose, poseIsNew, puppet, hits, levels>>

SlotCloses ==
    /\ slotReady
    /\ slotReady' = FALSE /\ pose' = NoPose /\ poseIsNew' = FALSE
    /\ UNCHANGED <<slotWasReady, puppet, hit, hits, levels, holders>>

PoseArrives(new) ==
    LET loss == pose # NoPose /\ new.health < pose.health IN
    /\ slotReady
    /\ loss => hits < MaxHits
    /\ pose' = new /\ poseIsNew' = TRUE
    /\ hit' = (hit \/ loss)
    /\ hits' = IF loss THEN hits + 1 ELSE hits
    /\ UNCHANGED <<slotReady, slotWasReady, puppet, levels, holders>>

(* The level goes, with its actors; to load the next takes longer than a    *)
(* flash lasts.                                                             *)
LevelChange ==
    /\ levels < MaxLevels /\ (puppet.live \/ puppet.labelLive)
    /\ levels' = levels + 1
    /\ puppet' = [puppet EXCEPT !.live = FALSE, !.limp = FALSE, !.red = FALSE, !.flashLeft = 0,
                      !.saved = IF @ = "body" THEN "gone" ELSE @,
                      !.labelLive = FALSE, !.labelRed = FALSE]
    /\ UNCHANGED <<slotReady, slotWasReady, pose, poseIsNew, hit, hits, holders>>

PuppetInit ==
    /\ slotReady = FALSE /\ slotWasReady = FALSE
    /\ pose = NoPose /\ poseIsNew = FALSE
    /\ puppet = NewPlayer
    /\ hit = FALSE /\ hits = 0 /\ levels = 0 /\ holders = 0

PuppetNext ==
    \/ Frame
    \/ SlotOpens \/ SlotCloses \/ LevelChange
    \/ \E new \in Poses : PoseArrives(new)

(* The game thread ticks.                                                   *)
PuppetFairness == WF_puppetVars(Frame)

PuppetSpec == PuppetInit /\ [][PuppetNext]_puppetVars /\ PuppetFairness

-----------------------------------------------------------------------------
PuppetTypeOK ==
    /\ {slotReady, slotWasReady, poseIsNew, hit} \subseteq BOOLEAN
    /\ pose \in Poses \cup {NoPose}
    /\ {puppet.cur, puppet.target, puppet.at} \subseteq Pos
    /\ puppet.left \in 0 .. Window /\ puppet.flashLeft \in 0 .. FlashTime
    /\ {puppet.health, puppet.labelHealth} \subseteq 0 .. MaxHealth
    /\ puppet.saved \in {"none", "body", "gone"}

(* A body whose player stands is not limp, it is where the last pose it has *)
(* been given put it as soon as the window is over, and that is the latest  *)
(* one stored: though nothing is pushed between the packets, nothing at all *)
(* while it flops, and its latches are those of a body a level ago          *)
(* (remote_player.cpp:506-519, :350-383, :583).                             *)
ShownIsPosed ==
    Valid(puppet) /\ puppet.hasPose /\ ~ puppet.wire =>
        /\ ~ puppet.limp
        /\ puppet.left = 0 => puppet.at = puppet.target
        /\ pose # NoPose /\ ~ poseIsNew => puppet.target = pose.x

(* A body is red only if the player that holds the slot has been hit: not   *)
(* because the one before it was better off, nor because it comes damaged   *)
(* (remote_player.cpp:320-323).                                             *)
RedIsHit == puppet.red => hit

(* The label shows what the player's last pose says, is red while the flash *)
(* lasts, and is gone when there is no puppet below it, whoever holds the   *)
(* slot (nameplate.cpp:115-126, :185-196).                                  *)
LabelOfPuppet ==
    puppet.labelLive =>
        /\ puppet.entry /\ Valid(puppet)
        /\ puppet.labelHealth = puppet.health /\ puppet.labelRed = puppet.flashing

(* Red wears off, when the hits end (remote_player.cpp:526-536).            *)
RedHeals == puppet.red ~> ~ puppet.red

(* A body that is not driven is limp ("Destroy() resets both latches so a   *)
(* recycled puppet re-converges", remote_player.cpp:356-358): the latches   *)
(* of a body that a change of level took hold the next one still.           *)
FlopsAreOfThisBody == Valid(puppet) /\ puppet.dispatched => puppet.limp

(* Every body has its label (remote_player.cpp:285): not after a change of  *)
(* level, whose dead entry Register takes for one.                          *)
EveryBodyLabelled == Valid(puppet) => puppet.labelLive
=============================================================================
