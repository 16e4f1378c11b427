---------------------------- MODULE PropSnapshot ----------------------------
(***************************************************************************)
(* coop/prop_snapshot.cpp: the replay of the host's props to a client that *)
(* just became ready, one slot at a time, ChunkSize candidates per tick.   *)
(* The file's globals are one record, because one pass of the game thread  *)
(* may call several of its functions:                                      *)
(*    target   g_currentTargetSlot                                         *)
(*    left     the part of g_snapshotCandidates that is not drained yet    *)
(*    pending  g_pendingSlots                                              *)
(* The session's slots are read as they are at each call.                  *)
(***************************************************************************)
EXTENDS SessionSlots

CONSTANTS
    Props,          \* the keyed props that may exist in the host's world
    Permanent,      \* those that are there all along
    ChunkSize       \* kSnapshotChunkSize, 100 in the build

ASSUME SnapshotAssumption ==
    /\ Permanent \subseteq Props /\ IsFiniteSet(Props)
    /\ ChunkSize \in Nat \ {0}

VARIABLES
    world,          \* the live keyed props of the host's world
    tracked,        \* those that have a Prop element in the registry
    snap,           \* see above
    has             \* has[c]: the props client c was told of, in effect

worldVars == <<world, tracked>>
snapVars == <<worldVars, snap, has>>

Idle == [target |-> NoSlot, left |-> <<>>, pending |-> <<>>]
Snapshots ==
    [target : ClientSlots \cup {NoSlot}, left : Seq(Props), pending : Seq(ClientSlots)]

(* The boot seed has tracked the world it found. *)
SnapshotInit ==
    /\ world \in {Permanent, Props}
    /\ tracked = world
    /\ snap = Idle
    /\ has = [c \in Clients |-> {}]

Without(pending, s) == Kept(pending, {i \in DOMAIN pending : pending[i] # s})

(* StartEnumerationFor: the registry's live props, in the registry's order.*)
Start(q, s) == [q EXCEPT !.target = s, !.left = SetToSeq(tracked)]

(* Mutant: a slot that comes up during another slot's drain is forgotten.  *)
TriggerWhenFree(q, s) == IF lanes[s] /\ q.target = NoSlot THEN Start(q, s) ELSE q

(* TriggerForSlot. *)
Trigger(q, s) ==
    CASE ~ lanes[s] -> q
      [] lanes[s] /\ q.target = NoSlot -> Start(q, s)
      [] lanes[s] /\ q.target # NoSlot /\ s \in ToSet(q.pending) -> q
      [] lanes[s] /\ q.target # NoSlot /\ s \notin ToSet(q.pending) ->
            [q EXCEPT !.pending = Append(@, s)]

(* Mutant: the next slot stays in the queue.                               *)
DequeueLater(pending) == [Idle EXCEPT !.pending = pending]

(* The drain is over: one slot is dequeued, and served if it still has a   *)
(* connection.                                                             *)
DequeueNext(pending) ==
    IF pending = <<>> THEN Idle
    ELSE LET q == [Idle EXCEPT !.pending = Tail(pending)] IN
         IF SlotConnected(Head(pending)) THEN Start(q, Head(pending)) ELSE q

(* Mutant: the departed slot stays queued.                                 *)
CancelKeepsPending(q, s) == IF q.target = s THEN DequeueNext(q.pending) ELSE q

(* CancelForSlot. *)
Cancel(q, s) ==
    LET pending == Without(q.pending, s) IN
    IF q.target = s THEN DequeueNext(pending) ELSE [q EXCEPT !.pending = pending]

-----------------------------------------------------------------------------
(* What a reliable send does for the client: a spawn or a destroy reaches  *)
(* it in order (same lane), unless its connection is going down.           *)
Reachable(s) ==
    SlotConnected(s) /\ gns[peerConns[s]] \in {"accepted", "up", "open"}
Reached == {peerConns[s] : s \in {t \in ClientSlots : Reachable(t)}}

(* Mutant: candidates that died since the enumeration are sent as well.    *)
ChunkUnchecked(n) == ToSet(SubSeq(snap.left, 1, n))

(* The candidates of the next n that are still alive. *)
Chunk(n) == ToSet(SubSeq(snap.left, 1, n)) \cap world

(* DrainChunk. *)
DrainChunk ==
    LET n == Min({ChunkSize, Len(snap.left)})
        s == snap.target
        rest == SubSeq(snap.left, n + 1, Len(snap.left))
    IN
    IF s = NoSlot \/ snap.left = <<>> THEN UNCHANGED <<snap, has>>
    ELSE IF ~ SlotConnected(s)
    THEN snap' = Cancel(snap, s) /\ UNCHANGED has
    ELSE /\ has' = [c \in Clients |->
                        has[c] \cup IF Reachable(s) /\ c = peerConns[s] THEN Chunk(n) ELSE {}]
         /\ snap' = IF rest # <<>> THEN [snap EXCEPT !.left = rest]
                                   ELSE DequeueNext(snap.pending)

-----------------------------------------------------------------------------
(* The host's own world.  While the session is Connected, a prop that      *)
(* spawns gets its element and is broadcast, and one that is destroyed is  *)
(* broadcast, to every connection, half-open ones included                 *)
(* (Session::SendReliable).  While it is not, neither happens.             *)
Told(c) == state = "Connected" /\ c \in Reached

PropAppears(p) ==
    /\ p \notin world
    /\ world' = world \cup {p}
    /\ tracked' = IF state = "Connected" THEN tracked \cup {p} ELSE tracked
    /\ has' = [c \in Clients |-> IF Told(c) THEN has[c] \cup {p} ELSE has[c]]
    /\ UNCHANGED snap

PropDestroyed(p) ==
    /\ p \in world \ Permanent
    /\ world' = world \ {p}
    /\ tracked' = tracked \ {p}
    /\ has' = [c \in Clients |-> IF Told(c) THEN has[c] \ {p} ELSE has[c]]
    /\ UNCHANGED snap
=============================================================================
