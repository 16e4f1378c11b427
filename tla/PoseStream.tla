----------------------------- MODULE PoseStream -----------------------------
(***************************************************************************)
(* The unreliable streams of coop/net/session.cpp and session_relay.cpp:   *)
(* the poses a client sends to the host, which relays what it accepts to   *)
(* the other clients, one of which is the viewer here.                     *)
(*                                                                         *)
(* One slot is modelled, which several client processes hold one after the *)
(* other.  The streams (PoseSnapshot, PropPose) are the same code with a   *)
(* store each, but number their packets, and all other sends of the        *)
(* process, from one counter.  A packet is whose it is, its stream and its *)
(* number n; the wire carries the number modulo 2^32.  A datagram may be   *)
(* lost, overtaken, or arrive twice.                                       *)
(*                                                                         *)
(* What the host does with slots and epochs when a client comes and goes   *)
(* is the matter of SessionSlots; here it is one step.                     *)
(***************************************************************************)
EXTENDS Integers

CONSTANTS
    Origins,        \* the client processes that come to hold the slot
    Nobody,
    Streams,
    Modulus,        \* 2^32 in the build
    MaxSends        \* bound: sends of a process

ASSUME PoseStreamAssumption ==
    /\ Nobody \notin Origins
    /\ Modulus \in Nat \ {0, 1}
    /\ MaxSends \in Nat

VARIABLES
    holder,         \* the process that holds the slot
    former,         \* the processes that have held it
    sendSeq,        \* sendSeq[c]: Session::sendSeq_ of process c
    up,             \* datagrams from the holder to the host
    down,           \* relayed datagrams from the host to the viewer
    host,           \* host[st]: remotePoses_ of the slot and lastRemoteSeq_
    viewer          \* the same at the viewer

vars == <<holder, former, sendSeq, up, down, host, viewer>>

Packets == [from : Origins, stream : Streams, n : Nat]

Nothing == [from |-> Nobody, n |-> 0]

(* The sequence number on the wire. *)
Seq32(n) == n % Modulus

(* Mutants: numbers are compared as they are; only the next one is newer.  *)
NewerUnwrapped(seq, last) == seq > last
NewerIfNext(seq, last) == seq = (last + 1) % Modulus

(* static_cast<int32_t>(seq - last) > 0. *)
Newer(seq, last) == 2 * ((seq - last) % Modulus) \in 1 .. Modulus - 1

(* The environment: no datagram is delivered, and no store is still to be  *)
(* compared with, half the number range after it was sent (months of       *)
(* streaming in the build). *)
InWindow(c, n) ==
    /\ \A p \in up \cup down : p.from = c => 2 * (n - p.n) < Modulus
    /\ \A st \in Streams, store \in {host, viewer} :
          store[st].from = c => 2 * (n - store[st].n) < Modulus

-----------------------------------------------------------------------------
Init ==
    /\ holder = Nobody
    /\ former = {}
    /\ sendSeq = [c \in Origins |-> 0]
    /\ up = {} /\ down = {}
    /\ host = [st \in Streams |-> Nothing]
    /\ viewer = [st \in Streams |-> Nothing]

(* A process takes the slot. *)
Connect(c) ==
    /\ holder = Nobody /\ c \notin former
    /\ holder' = c
    /\ UNCHANGED <<former, sendSeq, up, down, host, viewer>>

(* Mutants: the host keeps what it stored; the slot is cleared too early.  *)
DisconnectKeepsStore ==
    /\ holder # Nobody
    /\ holder' = Nobody
    /\ former' = former \cup {holder}
    /\ up' = {}
    /\ UNCHANGED <<sendSeq, down, host, viewer>>
(* It leaves: its connection delivers nothing more, and the host resets    *)
(* the slot.  The viewer is not told. *)
Disconnect ==
    /\ holder # Nobody
    /\ holder' = Nobody
    /\ former' = former \cup {holder}
    /\ up' = {}
    /\ host' = [st \in Streams |-> Nothing]
    /\ UNCHANGED <<sendSeq, down, viewer>>

UseNumber(c) ==
    /\ holder = c /\ sendSeq[c] < MaxSends /\ InWindow(c, sendSeq[c])
    /\ sendSeq' = [sendSeq EXCEPT ![c] = @ + 1]

(* The net thread's send of the local pose, or of the held prop's. *)
SendPose(c, st) ==
    /\ UseNumber(c)
    /\ up' = up \cup {[from |-> c, stream |-> st, n |-> sendSeq[c]]}
    /\ UNCHANGED <<holder, former, down, host, viewer>>

(* A reliable send, which takes a number as well. *)
SendReliable(c) ==
    /\ UseNumber(c)
    /\ UNCHANGED <<holder, former, up, down, host, viewer>>

-----------------------------------------------------------------------------
(* Mutant: every pose is accepted.                                         *)
AcceptsAll(store, p) == TRUE

(* HandleMessage on PoseSnapshot and PropPose: the first pose of a slot is *)
(* taken, and after that only newer ones. *)
Accepts(store, p) ==
    \/ store[p.stream].from = Nobody
    \/ Newer(Seq32(p.n), Seq32(store[p.stream].n))

Stored(store, p) ==
    IF Accepts(store, p)
    THEN [store EXCEPT ![p.stream] = [from |-> p.from, n |-> p.n]] ELSE store

(* RelayUnreliableToOtherClients, of what the host has accepted. *)
Relayed(p) == IF Accepts(host, p) THEN {p} ELSE {}

(* The network delivers a datagram, and may deliver it again. *)
Delivered(link, p) == {link \ {p}, link}

(* Mutant: the host passes the pose on, and forgets to take it itself.     *)
HostOnlyRelays(p) ==
    /\ up' \in Delivered(up, p)
    /\ down' = down \cup Relayed(p)
    /\ UNCHANGED <<holder, former, sendSeq, host, viewer>>

HostReceive(p) ==
    /\ up' \in Delivered(up, p)
    /\ host' = Stored(host, p)
    /\ down' = down \cup Relayed(p)
    /\ UNCHANGED <<holder, former, sendSeq, viewer>>

ViewerReceive(p) ==
    /\ down' \in Delivered(down, p)
    /\ viewer' = Stored(viewer, p)
    /\ UNCHANGED <<holder, former, sendSeq, up, host>>

Lose(p) ==
    /\ up' = up \ {p} /\ down' = down \ {p}
    /\ UNCHANGED <<holder, former, sendSeq, host, viewer>>

-----------------------------------------------------------------------------
Next ==
    \/ \E c \in Origins : Connect(c)
    \/ Disconnect
    \/ \E c \in Origins, st \in Streams : SendPose(c, st)
    \/ \E c \in Origins : SendReliable(c)
    \/ \E p \in up : HostReceive(p)
    \/ \E p \in down : ViewerReceive(p)
    \/ \E p \in up \cup down : Lose(p)

Spec == Init /\ [][Next]_vars

-----------------------------------------------------------------------------
Stores == [Streams -> [from : Origins \cup {Nobody}, n : Nat]]

TypeOK ==
    /\ holder \in Origins \cup {Nobody}
    /\ former \subseteq Origins
    /\ sendSeq \in [Origins -> Nat]
    /\ up \subseteq Packets /\ down \subseteq Packets
    /\ host \in Stores /\ viewer \in Stores

(* The parts of the inductive invariant. *)

(* A number is used before it is seen. *)
NumbersUsed ==
    /\ \A p \in up \cup down : p.n < sendSeq[p.from]
    /\ \A st \in Streams, store \in {host, viewer} :
          store[st].from # Nobody => store[st].n < sendSeq[store[st].from]

(* What is in flight or stored is less than half the range behind the last *)
(* number used. *)
NumbersRecent ==
    /\ \A p \in up \cup down : 2 * (sendSeq[p.from] - 1 - p.n) < Modulus
    /\ \A st \in Streams, store \in {host, viewer} :
          store[st].from # Nobody =>
              2 * (sendSeq[store[st].from] - 1 - store[st].n) < Modulus

(* The host hears and shows the holder only, the viewer it and those before.*)
FromHolders ==
    /\ holder \notin former
    /\ \A p \in up : p.from = holder
    /\ \A p \in down : p.from \in former \cup {holder}
    /\ \A st \in Streams : host[st].from \in {Nobody, holder}
    /\ \A st \in Streams : viewer[st].from \in former \cup {holder, Nobody}

-----------------------------------------------------------------------------
(* Neither receiver ever shows an older pose of a process after a newer    *)
(* one, whatever the network reorders, repeats or loses, and past the wrap *)
(* of the sequence number (session.cpp:530-532). *)
HostView == INSTANCE LatestPose WITH taken <- sendSeq, shown <- host
HostShowsLatest == HostView!Spec

(* The same of the viewer, two lossy hops away (session_relay.cpp:17-19). *)
ViewerView == INSTANCE LatestPose WITH taken <- sendSeq, shown <- viewer
ViewerShowsLatest == ViewerView!Spec

(* A datagram does its work: once it is received, the receiver shows it or *)
(* a newer pose of the same process. *)
IsShown(p, store) == store[p.stream].from = p.from /\ store[p.stream].n >= p.n

(* At the host this holds for one process on the slot after the other: the *)
(* last one's numbers do not make the next one's look stale                *)
(* (session_status.cpp:247-248). *)
HostNeverStale == [][\A p \in up : HostReceive(p) => IsShown(p, host')]_vars

(* At the viewer, as long as it has seen poses of one process only. *)
ViewerNeverStaleWithin ==
    [][\A p \in down :
        ViewerReceive(p) /\ viewer[p.stream].from \in {Nobody, p.from}
            => IsShown(p, viewer')]_vars

(* ... and whoever it has seen on the slot before ("per-origin-slot seq    *)
(* monotonicity holds on the receiver", session_relay.cpp:18-19). *)
ViewerNeverStale == [][\A p \in down : ViewerReceive(p) => IsShown(p, viewer')]_vars

(* What is on its way to the viewer, or shown there, is never ahead of what*)
(* the host shows of the slot's holder (session.cpp:528-543). *)
ViewerBehindHost ==
    \A st \in Streams :
        LET ahead(from, n) ==
                /\ from = holder /\ from # Nobody
                /\ host[st].from # holder \/ n > host[st].n IN
        /\ ~ ahead(viewer[st].from, viewer[st].n)
        /\ \A p \in down : p.stream = st => ~ ahead(p.from, p.n)

IInv == TypeOK /\ NumbersUsed /\ NumbersRecent /\ FromHolders /\ ViewerBehindHost
=============================================================================
