----------------------------- MODULE PosesProofs -----------------------------
(***************************************************************************)
(* Proofs about a pose on its way to a screen, for all values of the       *)
(* constants.                                                              *)
(*                                                                         *)
(* PoseStream, up to the stores, for every set of processes and streams    *)
(* and every modulus.  The heart is NewerIsLarger: as long as two numbers  *)
(* are less than half the range apart, the signed comparison of their wire *)
(* forms orders them as they were given out.  NumbersRecent keeps all      *)
(* numbers that are ever compared that close.                              *)
(*                                                                         *)
(* Puppet, from the store on.  A frame is a pipeline of functions on the   *)
(* player, so each of them has a lemma that says what of PlayerInv it      *)
(* keeps; PuppetInv adds what ties the player to the slot: of whose pose   *)
(* its target is, and that a body outlives its holder by one frame.        *)
(***************************************************************************)
EXTENDS PoseStream, Puppet, TLAPS

-----------------------------------------------------------------------------
(* Quotient and remainder.                                                 *)
LEMMA Quotient ==
    ASSUME NEW x \in Int, NEW m \in Nat \ {0}
    PROVE  /\ x % m \in 0 .. m - 1
           /\ x \div m \in Int
           /\ x = (x \div m) * m + (x % m)
BY SMT

(* A multiple of m other than zero is at least m away from zero.           *)
LEMMA Multiple ==
    ASSUME NEW k \in Int, NEW m \in Nat \ {0}
    PROVE  /\ k * m \in Int
           /\ k >= 1 => k * m >= m
           /\ k =< -1 => k * m =< -m
           /\ k = 0 => k * m = 0
BY SMT

(* The signed comparison of wire forms is the comparison of the numbers.   *)
LEMMA NewerIsLarger ==
    ASSUME NEW a \in Nat, NEW b \in Nat,
           2 * (a - b) < Modulus, 2 * (b - a) < Modulus
    PROVE  Newer(Seq32(a), Seq32(b)) <=> a > b
<1> DEFINE qa == a \div Modulus
           qb == b \div Modulus
           d  == (a % Modulus) - (b % Modulus)
           qd == d \div Modulus
           r  == d % Modulus
           k  == qa - qb + qd
<1>1. Modulus \in Nat \ {0}
  BY PoseStreamAssumption
<1>2. /\ a % Modulus \in Int /\ qa \in Int /\ a = qa * Modulus + (a % Modulus)
      /\ b % Modulus \in Int /\ qb \in Int /\ b = qb * Modulus + (b % Modulus)
  BY <1>1, Quotient
<1>3. r \in 0 .. Modulus - 1 /\ qd \in Int /\ d = qd * Modulus + r
  <2>1. d \in Int
    BY <1>2
  <2> HIDE DEF d
  <2>2. QED
    BY <1>1, <2>1, Quotient
<1>4. k \in Int /\ k * Modulus = qa * Modulus - qb * Modulus + qd * Modulus
  <2> HIDE DEF qa, qb, qd
  <2>1. QED
    BY <1>1, <1>2, <1>3
(* How far a is ahead of b is r, give or take multiples of the modulus. *)
<1>5. a - b = k * Modulus + r
  <2>1. qa * Modulus \in Int /\ qb * Modulus \in Int /\ qd * Modulus \in Int
    <3> HIDE DEF qa, qb, qd
    <3>1. QED
      BY <1>1, <1>2, <1>3, Multiple
  <2> HIDE DEF qa, qb, qd, r, k
  <2>2. QED
    BY <1>2, <1>3, <1>4, <2>1
<1>6. 2 * r \in 1 .. Modulus - 1 <=> a > b
  <2> HIDE DEF r, k
  <2>1. QED
    BY <1>1, <1>3, <1>4, <1>5, Multiple
<1>7. QED
  BY <1>6 DEF Newer, Seq32

(* A receiver that has shown a process takes exactly its newer poses.      *)
LEMMA AcceptsOnlyNewer ==
    ASSUME IInv, NEW store \in {host, viewer}, NEW p \in up \cup down,
           store[p.stream].from = p.from
    PROVE  Accepts(store, p) <=> p.n > store[p.stream].n
<1> DEFINE a == p.n
           b == store[p.stream].n
           s == sendSeq[p.from]
<1>1. p \in Packets /\ store \in Stores
  BY DEF IInv, TypeOK
<1>2. p.from \in Origins /\ p.from # Nobody /\ a \in Nat /\ b \in Nat /\ s \in Nat
  BY <1>1, PoseStreamAssumption DEF Packets, Stores, IInv, TypeOK
<1>3. a < s /\ 2 * (s - 1 - a) < Modulus
  BY DEF IInv, NumbersUsed, NumbersRecent
<1>4. b < s /\ 2 * (s - 1 - b) < Modulus
  BY <1>1, <1>2 DEF IInv, NumbersUsed, NumbersRecent, Packets
<1>5. 2 * (a - b) < Modulus /\ 2 * (b - a) < Modulus
  <2> HIDE DEF a, b, s
  <2>1. QED
    BY <1>2, <1>3, <1>4, PoseStreamAssumption
<1>6. Newer(Seq32(a), Seq32(b)) <=> a > b
  <2> HIDE DEF a, b
  <2>1. QED
    BY <1>2, <1>5, NewerIsLarger
<1>7. QED
  BY <1>2, <1>6 DEF Accepts

(* What a receiver holds after a pose: that pose, or what it held before.  *)
LEMMA StoredIsTyped ==
    ASSUME NEW store \in Stores, NEW p \in Packets
    PROVE  /\ Stored(store, p) \in Stores
           /\ \A st \in Streams :
                 \/ Stored(store, p)[st] = store[st]
                 \/ /\ st = p.stream /\ Accepts(store, p)
                    /\ Stored(store, p)[st] = [from |-> p.from, n |-> p.n]
           /\ Accepts(store, p) =>
                 Stored(store, p)[p.stream] = [from |-> p.from, n |-> p.n]
           /\ ~ Accepts(store, p) => Stored(store, p) = store
BY DEF Stored, Stores, Packets

-----------------------------------------------------------------------------
(* Every step keeps the invariant.                                         *)

(* The invariant holds when the session starts.                            *)
LEMMA IInvInit == Init => IInv
BY PoseStreamAssumption
   DEF Init, IInv, TypeOK, NumbersUsed, NumbersRecent, FromHolders, ViewerBehindHost,
       Stores, Nothing, Packets

(* The slot gets its next holder, of which nobody has heard before. *)
LEMMA ConnectKeepsIInv ==
    ASSUME IInv, NEW c \in Origins, Connect(c)
    PROVE  IInv'
<1> USE DEF IInv, Connect
<1>1. TypeOK' /\ NumbersUsed' /\ NumbersRecent'
  BY DEF TypeOK, NumbersUsed, NumbersRecent
<1>2. FromHolders'
  BY PoseStreamAssumption DEF FromHolders, TypeOK, Packets
<1>3. ViewerBehindHost'
  BY PoseStreamAssumption DEF FromHolders, TypeOK, ViewerBehindHost
<1>4. QED
  BY <1>1, <1>2, <1>3

(* The slot is given up; what the viewer has of the holder is the past. *)
LEMMA DisconnectKeepsIInv ==
    ASSUME IInv, Disconnect
    PROVE  IInv'
<1> USE DEF IInv, Disconnect, Nothing
<1>1. TypeOK'
  BY PoseStreamAssumption DEF TypeOK, Stores
<1>2. NumbersUsed' /\ NumbersRecent'
  BY DEF TypeOK, NumbersUsed, NumbersRecent
<1>3. FromHolders'
  BY PoseStreamAssumption DEF FromHolders, TypeOK
<1>4. ViewerBehindHost'
  BY DEF ViewerBehindHost
<1>5. QED
  BY <1>1, <1>2, <1>3, <1>4

(* A number is used, by a pose or by a reliable message.  The window keeps *)
(* what is in flight and what is stored close to it. *)
LEMMA SendKeepsIInv ==
    ASSUME IInv, NEW c \in Origins,
           \/ SendReliable(c)
           \/ \E st \in Streams : SendPose(c, st)
    PROVE  IInv'
<1>1. UseNumber(c) /\ UNCHANGED <<holder, former, down, host, viewer>>
  BY DEF SendReliable, SendPose
<1>2. /\ up \subseteq up'
      /\ \A p \in up' \ up : p \in Packets /\ p.from = c /\ p.n = sendSeq[c]
  BY DEF SendReliable, SendPose, Packets, IInv, TypeOK
<1>3. sendSeq \in [Origins -> Nat] /\ sendSeq' \in [Origins -> Nat] /\ sendSeq'[c] = sendSeq[c] + 1
      /\ \A o \in Origins \ {c} : sendSeq'[o] = sendSeq[o]
  BY <1>1 DEF UseNumber, IInv, TypeOK
<1>4. TypeOK'
  BY <1>1, <1>2, <1>3 DEF IInv, TypeOK
<1>5. NumbersUsed'
  <2>1. ASSUME NEW p \in up' \cup down' PROVE p.n < sendSeq'[p.from]
    BY <1>1, <1>2, <1>3, <2>1 DEF IInv, TypeOK, NumbersUsed, Packets
  <2>2. ASSUME NEW st \in Streams, NEW store \in {host', viewer'}, store[st].from # Nobody
        PROVE  store[st].n < sendSeq'[store[st].from]
    BY <1>1, <1>3, <2>2 DEF IInv, TypeOK, NumbersUsed, Stores
  <2>3. QED
    BY <2>1, <2>2 DEF NumbersUsed
<1>6. NumbersRecent'
  <2>1. InWindow(c, sendSeq[c])
    BY <1>1 DEF UseNumber
  <2>2. ASSUME NEW p \in up' \cup down' PROVE 2 * (sendSeq'[p.from] - 1 - p.n) < Modulus
    <3>1. CASE p \in up \cup down
      BY <1>1, <1>3, <2>1, <3>1, PoseStreamAssumption
         DEF IInv, TypeOK, NumbersRecent, InWindow, Packets
    <3>2. CASE p \in up' \ up
      BY <1>2, <1>3, <3>2, PoseStreamAssumption DEF Packets
    <3>3. QED
      BY <1>1, <2>2, <3>1, <3>2
  <2>3. ASSUME NEW st \in Streams, NEW store \in {host', viewer'}, store[st].from # Nobody
        PROVE  2 * (sendSeq'[store[st].from] - 1 - store[st].n) < Modulus
    BY <1>1, <1>3, <2>1, <2>3, PoseStreamAssumption
       DEF IInv, TypeOK, NumbersRecent, InWindow, Stores
  <2>4. QED
    BY <2>2, <2>3 DEF NumbersRecent
<1>7. FromHolders'
  BY <1>1, <1>2 DEF UseNumber, IInv, FromHolders
<1>8. ViewerBehindHost'
  BY <1>1 DEF IInv, ViewerBehindHost
<1>9. QED
  BY <1>4, <1>5, <1>6, <1>7, <1>8 DEF IInv

(* The host takes a pose if it is news, and passes on exactly what it takes. *)
LEMMA HostReceiveKeepsIInv ==
    ASSUME IInv, NEW p \in up, HostReceive(p)
    PROVE  IInv'
<1> USE DEF IInv
<1>1. p \in Packets /\ host \in Stores /\ viewer \in Stores /\ p.from \in Origins
      /\ p.stream \in Streams /\ p.n \in Nat /\ p.from = holder /\ p.from # Nobody
  BY PoseStreamAssumption DEF TypeOK, FromHolders, Packets
<1>2. /\ up' \subseteq up /\ down' = down \cup Relayed(p) /\ host' = Stored(host, p)
      /\ UNCHANGED <<holder, former, sendSeq, viewer>>
  BY DEF HostReceive, Delivered
<1>3. /\ host' \in Stores
      /\ \A st \in Streams :
            \/ host'[st] = host[st]
            \/ host'[st].from = p.from /\ host'[st].n = p.n
  <2>1. /\ Stored(host, p) \in Stores
        /\ \A st \in Streams :
              \/ Stored(host, p)[st] = host[st]
              \/ st = p.stream /\ Stored(host, p)[st] = [from |-> p.from, n |-> p.n]
    BY <1>1, StoredIsTyped
  <2>2. QED
    BY <1>2, <2>1
<1>4. down' \subseteq down \cup {p}
  BY <1>2 DEF Relayed
<1>5. TypeOK'
  BY <1>1, <1>2, <1>3, <1>4 DEF TypeOK
<1>6. NumbersUsed'
  <2>1. p.n < sendSeq[p.from]
    BY DEF NumbersUsed
  <2>2. QED
    BY <1>2, <1>3, <1>4, <2>1 DEF NumbersUsed
<1>7. NumbersRecent'
  <2>1. 2 * (sendSeq[p.from] - 1 - p.n) < Modulus
    BY DEF NumbersRecent
  <2>2. QED
    BY <1>2, <1>3, <1>4, <2>1 DEF NumbersRecent
<1>8. FromHolders'
  BY <1>1, <1>2, <1>3, <1>4 DEF FromHolders
<1>9. ViewerBehindHost'
  <2>1. CASE ~ Accepts(host, p)
    <3>1. host' = host /\ down' = down
      BY <1>1, <1>2, <2>1, StoredIsTyped DEF Relayed
    <3>2. QED
      BY <1>2, <3>1 DEF ViewerBehindHost
  <2>2. CASE Accepts(host, p)
    <3>1. /\ host'[p.stream] = [from |-> p.from, n |-> p.n]
          /\ \A st \in Streams \ {p.stream} : host'[st] = host[st]
      BY <1>1, <1>2, <2>2, StoredIsTyped
    <3>2. host[p.stream].from = holder => p.n > host[p.stream].n
      BY <1>1, <2>2, AcceptsOnlyNewer
    <3>3. ASSUME NEW st \in Streams, NEW from, NEW n \in Nat, from = holder, from # Nobody,
                 ~ (host[st].from # holder \/ n > host[st].n)
          PROVE  ~ (host'[st].from # holder \/ n > host'[st].n)
      BY <1>1, <3>1, <3>2, <3>3 DEF Stores
    <3>4. ASSUME NEW st \in Streams
          PROVE  ~ (/\ viewer[st].from = holder /\ viewer[st].from # Nobody
                    /\ host'[st].from # holder \/ viewer[st].n > host'[st].n)
      <4>1. viewer[st].n \in Nat
        BY <1>1 DEF Stores
      <4>2. QED
        BY <3>3, <4>1 DEF ViewerBehindHost
    <3>5. ASSUME NEW st \in Streams, NEW q \in down', q.stream = st
          PROVE  ~ (/\ q.from = holder /\ q.from # Nobody
                    /\ host'[st].from # holder \/ q.n > host'[st].n)
      <4>1. CASE q \in down
        <5>1. q.n \in Nat
          BY <4>1 DEF TypeOK, Packets
        <5>2. QED
          BY <3>3, <3>5, <4>1, <5>1 DEF ViewerBehindHost
      <4>2. CASE q = p
        BY <1>1, <3>1, <3>5, <4>2
      <4>3. QED
        BY <1>4, <3>5, <4>1, <4>2
    <3>6. QED
      BY <1>2, <3>4, <3>5 DEF ViewerBehindHost
  <2>3. QED
    BY <2>1, <2>2
<1>10. QED
  BY <1>5, <1>6, <1>7, <1>8, <1>9

(* The viewer takes what it is sent, if it takes it for news. *)
LEMMA ViewerReceiveKeepsIInv ==
    ASSUME IInv, NEW p \in down, ViewerReceive(p)
    PROVE  IInv'
<1> USE DEF IInv
<1>1. p \in Packets /\ viewer \in Stores
  BY DEF TypeOK
<1>2. /\ down' \subseteq down /\ viewer' = Stored(viewer, p)
      /\ UNCHANGED <<holder, former, sendSeq, up, host>>
  BY DEF ViewerReceive, Delivered
<1>3. /\ viewer' \in Stores
      /\ \A st \in Streams :
            \/ viewer'[st] = viewer[st]
            \/ st = p.stream /\ viewer'[st].from = p.from /\ viewer'[st].n = p.n
  <2>1. /\ Stored(viewer, p) \in Stores
        /\ \A st \in Streams :
              \/ Stored(viewer, p)[st] = viewer[st]
              \/ st = p.stream /\ Stored(viewer, p)[st] = [from |-> p.from, n |-> p.n]
    BY <1>1, StoredIsTyped
  <2>2. QED
    BY <1>2, <2>1
<1>4. TypeOK'
  BY <1>2, <1>3 DEF TypeOK
<1>5. NumbersUsed'
  <2>1. p.n < sendSeq[p.from]
    BY DEF NumbersUsed
  <2>2. QED
    BY <1>2, <1>3, <2>1 DEF NumbersUsed
<1>6. NumbersRecent'
  <2>1. 2 * (sendSeq[p.from] - 1 - p.n) < Modulus
    BY DEF NumbersRecent
  <2>2. QED
    BY <1>2, <1>3, <2>1 DEF NumbersRecent
<1>7. FromHolders'
  BY <1>2, <1>3 DEF FromHolders
<1>8. ViewerBehindHost'
  BY <1>2, <1>3 DEF ViewerBehindHost
<1>9. QED
  BY <1>4, <1>5, <1>6, <1>7, <1>8

(* Nothing that is lost is missed. *)
LEMMA LoseKeepsIInv ==
    ASSUME IInv, NEW p \in up \cup down, Lose(p)
    PROVE  IInv'
<1>1. /\ up' \subseteq up /\ down' \subseteq down
      /\ UNCHANGED <<holder, former, sendSeq, host, viewer>>
  BY DEF Lose
<1>2. QED
  BY <1>1 DEF IInv, TypeOK, NumbersUsed, NumbersRecent, FromHolders, ViewerBehindHost

(* The invariant is inductive. *)
LEMMA IInvStep == IInv /\ [Next]_vars => IInv'
<1> SUFFICES ASSUME IInv, [Next]_vars PROVE IInv'
  OBVIOUS
<1>1. ASSUME NEW c \in Origins, Connect(c) PROVE IInv'
  BY <1>1, ConnectKeepsIInv
<1>2. CASE Disconnect
  BY <1>2, DisconnectKeepsIInv
<1>3. ASSUME NEW c \in Origins, NEW st \in Streams, SendPose(c, st) PROVE IInv'
  BY <1>3, SendKeepsIInv
<1>4. ASSUME NEW c \in Origins, SendReliable(c) PROVE IInv'
  BY <1>4, SendKeepsIInv
<1>5. ASSUME NEW p \in up, HostReceive(p) PROVE IInv'
  BY <1>5, HostReceiveKeepsIInv
<1>6. ASSUME NEW p \in down, ViewerReceive(p) PROVE IInv'
  BY <1>6, ViewerReceiveKeepsIInv
<1>7. ASSUME NEW p \in up \cup down, Lose(p) PROVE IInv'
  BY <1>7, LoseKeepsIInv
<1>8. CASE UNCHANGED vars
  BY <1>8 DEF vars, IInv, TypeOK, NumbersUsed, NumbersRecent, FromHolders, ViewerBehindHost
<1>9. QED
  BY <1>1, <1>2, <1>3, <1>4, <1>5, <1>6, <1>7, <1>8 DEF Next

(* So the invariant always holds. *)
LEMMA IInvAlways == Spec => []IInv
BY IInvInit, IInvStep, PTL DEF Spec

-----------------------------------------------------------------------------
(* The theorems.                                                           *)

(* Every variable keeps its type.                                          *)
THEOREM TypeCorrect == Spec => []TypeOK
<1>1. IInv => TypeOK
  BY DEF IInv
<1>2. QED
  BY IInvAlways, <1>1, PTL

(* Nothing of the slot's holder is on its way to the viewer, or shown      *)
(* there, that the host does not show already or has passed.               *)
THEOREM ViewerAlwaysBehindHost == Spec => []ViewerBehindHost
<1>1. IInv => ViewerBehindHost
  BY DEF IInv
<1>2. QED
  BY IInvAlways, <1>1, PTL

(* A pose that is received is shown, unless a newer one of its process is. *)
LEMMA ReceivedIsShown ==
    ASSUME IInv, NEW store \in {host, viewer}, NEW p \in up \cup down,
           store[p.stream].from \in {Nobody, p.from}
    PROVE  IsShown(p, Stored(store, p))
<1>1. p \in Packets /\ store \in Stores /\ p.stream \in Streams /\ p.n \in Nat
  BY DEF IInv, TypeOK, Packets
<1>2. CASE Accepts(store, p)
  <2>1. Stored(store, p)[p.stream] = [from |-> p.from, n |-> p.n]
    BY <1>1, <1>2, StoredIsTyped
  <2>2. QED
    BY <1>1, <2>1 DEF IsShown
<1>3. CASE ~ Accepts(store, p)
  <2>1. Stored(store, p) = store
    BY <1>1, <1>3, StoredIsTyped
  <2>2. store[p.stream].from = p.from
    BY <1>3 DEF Accepts
  <2>3. ~ (p.n > store[p.stream].n) /\ store[p.stream].n \in Nat
    BY <1>1, <1>3, <2>2, AcceptsOnlyNewer DEF Stores
  <2>4. QED
    BY <1>1, <2>1, <2>2, <2>3 DEF IsShown
<1>4. QED
  BY <1>2, <1>3

(* The host drops no pose that is news of the slot's holder, whoever held  *)
(* the slot before.                                                        *)
THEOREM HostNeverDropsNews == Spec => HostNeverStale
<1>1. ASSUME IInv, [Next]_vars
      PROVE  [\A p \in up : HostReceive(p) => IsShown(p, host')]_vars
  <2>1. ASSUME NEW p \in up, HostReceive(p) PROVE IsShown(p, host')
    <3>1. host[p.stream].from \in {Nobody, p.from}
      BY <1>1 DEF IInv, TypeOK, FromHolders, Packets
    <3>2. IsShown(p, Stored(host, p))
      BY <1>1, <3>1, ReceivedIsShown
    <3>3. QED
      BY <2>1, <3>2 DEF HostReceive
  <2>2. QED
    BY <2>1
<1>2. QED
  BY <1>1, IInvAlways, PTL DEF Spec, HostNeverStale

(* Nor does the viewer, while it has seen one holder only.                 *)
THEOREM ViewerNeverDropsNewsWithin == Spec => ViewerNeverStaleWithin
<1> DEFINE Kept ==
      \A p \in down :
         ViewerReceive(p) /\ viewer[p.stream].from \in {Nobody, p.from}
             => IsShown(p, viewer')
<1>1. ASSUME IInv, [Next]_vars
      PROVE  [Kept]_vars
  <2>1. ASSUME NEW p \in down, ViewerReceive(p), viewer[p.stream].from \in {Nobody, p.from}
        PROVE  IsShown(p, viewer')
    <3>1. IsShown(p, Stored(viewer, p))
      BY <1>1, <2>1, ReceivedIsShown
    <3>2. QED
      BY <2>1, <3>1 DEF ViewerReceive
  <2>2. QED
    BY <2>1
<1>2. QED
  BY <1>1, IInvAlways, PTL DEF Spec, ViewerNeverStaleWithin

-----------------------------------------------------------------------------
(* Refinement.                                                             *)

(* To take in a pose is to show a newer one, or to do nothing.             *)
LEMMA StoredShowsLater ==
    ASSUME IInv, NEW store \in {host, viewer}, NEW p \in up \cup down
    PROVE  \/ Stored(store, p) = store
           \/ /\ p.stream \in Streams /\ p.from \in Origins
              /\ p.n \in 0 .. sendSeq[p.from] - 1
              /\ store[p.stream].from = p.from => p.n > store[p.stream].n
              /\ Stored(store, p) =
                    [store EXCEPT ![p.stream] = [from |-> p.from, n |-> p.n]]
<1>1. p \in Packets
  BY DEF IInv, TypeOK
<1>2. p.n \in Nat /\ p.n < sendSeq[p.from] /\ sendSeq[p.from] \in Nat
  BY <1>1 DEF IInv, TypeOK, NumbersUsed, Packets
<1>3. CASE Accepts(store, p)
  <2>1. store[p.stream].from = p.from => p.n > store[p.stream].n
    BY <1>3, AcceptsOnlyNewer
  <2>2. Stored(store, p) =
            [store EXCEPT ![p.stream] = [from |-> p.from, n |-> p.n]]
    BY <1>3 DEF Stored
  <2>3. QED
    BY <1>1, <1>2, <2>1, <2>2 DEF Packets
<1>4. CASE ~ Accepts(store, p)
  BY <1>4 DEF Stored
<1>5. QED
  BY <1>3, <1>4

(* Sending is taking.                                                      *)
LEMMA SendTakes ==
    ASSUME NEW c \in Origins,
           \/ SendReliable(c)
           \/ \E st \in Streams : SendPose(c, st)
    PROVE  HostView!Take(c) /\ ViewerView!Take(c)
BY DEF SendReliable, SendPose, UseNumber, HostView!Take, ViewerView!Take

(* What the host shows implements the abstract stream.                     *)
THEOREM HostImplementsLatestPose == Spec => HostShowsLatest
<1>1. Init => HostView!Init
  BY DEF Init, Nothing, HostView!Init, HostView!Nothing
<1>2. IInv /\ [Next]_vars => [HostView!Next]_(HostView!vars)
  <2> SUFFICES ASSUME IInv, [Next]_vars
               PROVE  HostView!Next \/ UNCHANGED <<sendSeq, host>>
    BY DEF HostView!vars
  <2>1. ASSUME NEW c \in Origins,
               \/ SendReliable(c)
               \/ \E st \in Streams : SendPose(c, st)
        PROVE  HostView!Next
    BY <2>1, SendTakes DEF HostView!Next
  <2>2. CASE Disconnect
    BY <2>2 DEF Disconnect, Nothing, HostView!Next, HostView!Forget, HostView!Nothing
  <2>3. ASSUME NEW p \in up, HostReceive(p)
        PROVE  HostView!Next \/ UNCHANGED <<sendSeq, host>>
    <3>1. host' = Stored(host, p) /\ sendSeq' = sendSeq
      BY <2>3 DEF HostReceive
    <3>2. CASE Stored(host, p) = host
      BY <3>1, <3>2
    <3>3. CASE Stored(host, p) # host
      <4>1. /\ p.stream \in Streams /\ p.from \in Origins
            /\ p.n \in 0 .. sendSeq[p.from] - 1
            /\ HostView!Show(p.stream, p.from, p.n)
        <5>1. /\ p.stream \in Streams /\ p.from \in Origins
              /\ p.n \in 0 .. sendSeq[p.from] - 1
              /\ host[p.stream].from = p.from => p.n > host[p.stream].n
              /\ host' = [host EXCEPT ![p.stream] = [from |-> p.from, n |-> p.n]]
          BY <3>1, <3>3, StoredShowsLater
        <5>2. p.n < sendSeq[p.from]
          BY DEF IInv, NumbersUsed
        <5>3. QED
          BY <3>1, <5>1, <5>2 DEF HostView!Show
      <4>2. QED
        BY <4>1 DEF HostView!Next
    <3>4. QED
      BY <3>2, <3>3
  <2>4. ASSUME NEW c \in Origins, Connect(c) PROVE UNCHANGED <<sendSeq, host>>
    BY <2>4 DEF Connect
  <2>5. ASSUME NEW p \in down, ViewerReceive(p) PROVE UNCHANGED <<sendSeq, host>>
    BY <2>5 DEF ViewerReceive
  <2>6. ASSUME NEW p \in up \cup down, Lose(p) PROVE UNCHANGED <<sendSeq, host>>
    BY <2>6 DEF Lose
  <2>7. CASE UNCHANGED vars
    BY <2>7 DEF vars
  <2>8. QED
    BY <2>1, <2>2, <2>3, <2>4, <2>5, <2>6, <2>7 DEF Next
<1>3. QED
  BY <1>1, <1>2, IInvAlways, PTL DEF Spec, HostShowsLatest, HostView!Spec

(* So does what the viewer shows, two lossy hops away.                     *)
THEOREM ViewerImplementsLatestPose == Spec => ViewerShowsLatest
<1>1. Init => ViewerView!Init
  BY DEF Init, Nothing, ViewerView!Init, ViewerView!Nothing
<1>2. IInv /\ [Next]_vars => [ViewerView!Next]_(ViewerView!vars)
  <2> SUFFICES ASSUME IInv, [Next]_vars
               PROVE  ViewerView!Next \/ UNCHANGED <<sendSeq, viewer>>
    BY DEF ViewerView!vars
  <2>1. ASSUME NEW c \in Origins,
               \/ SendReliable(c)
               \/ \E st \in Streams : SendPose(c, st)
        PROVE  ViewerView!Next
    BY <2>1, SendTakes DEF ViewerView!Next
  <2>2. ASSUME NEW p \in down, ViewerReceive(p)
        PROVE  ViewerView!Next \/ UNCHANGED <<sendSeq, viewer>>
    <3>1. viewer' = Stored(viewer, p) /\ sendSeq' = sendSeq
      BY <2>2 DEF ViewerReceive
    <3>2. CASE Stored(viewer, p) = viewer
      BY <3>1, <3>2
    <3>3. CASE Stored(viewer, p) # viewer
      <4>1. /\ p.stream \in Streams /\ p.from \in Origins
            /\ p.n \in 0 .. sendSeq[p.from] - 1
            /\ ViewerView!Show(p.stream, p.from, p.n)
        <5>1. /\ p.stream \in Streams /\ p.from \in Origins
              /\ p.n \in 0 .. sendSeq[p.from] - 1
              /\ viewer[p.stream].from = p.from => p.n > viewer[p.stream].n
              /\ viewer' = [viewer EXCEPT ![p.stream] = [from |-> p.from, n |-> p.n]]
          BY <3>1, <3>3, StoredShowsLater
        <5>2. p.n < sendSeq[p.from]
          BY DEF IInv, NumbersUsed
        <5>3. QED
          BY <3>1, <5>1, <5>2 DEF ViewerView!Show
      <4>2. QED
        BY <4>1 DEF ViewerView!Next
    <3>4. QED
      BY <3>2, <3>3
  <2>3. ASSUME NEW c \in Origins, Connect(c) PROVE UNCHANGED <<sendSeq, viewer>>
    BY <2>3 DEF Connect
  <2>4. CASE Disconnect
    BY <2>4 DEF Disconnect
  <2>5. ASSUME NEW p \in up, HostReceive(p) PROVE UNCHANGED <<sendSeq, viewer>>
    BY <2>5 DEF HostReceive
  <2>6. ASSUME NEW p \in up \cup down, Lose(p) PROVE UNCHANGED <<sendSeq, viewer>>
    BY <2>6 DEF Lose
  <2>7. CASE UNCHANGED vars
    BY <2>7 DEF vars
  <2>8. QED
    BY <2>1, <2>2, <2>3, <2>4, <2>5, <2>6, <2>7 DEF Next
<1>3. QED
  BY <1>1, <1>2, IInvAlways, PTL DEF Spec, ViewerShowsLatest, ViewerView!Spec

-----------------------------------------------------------------------------
(* The puppet.  What a player is made of.                                  *)
Players ==
    [actor : BOOLEAN, hasPose : BOOLEAN, cur : Pos, target : Pos, left : 0 .. Window,
     dirty : BOOLEAN, wire : BOOLEAN, dispatched : BOOLEAN, health : 0 .. MaxHealth,
     armed : BOOLEAN, flashLeft : 0 .. FlashTime, flashing : BOOLEAN,
     saved : {"none", "body", "gone"}, live : BOOLEAN, at : Pos, limp : BOOLEAN,
     red : BOOLEAN, entry : BOOLEAN, labelLive : BOOLEAN, labelHealth : 0 .. MaxHealth,
     labelRed : BOOLEAN]

(* The player's latches go with its body and its label's entry. *)
Latches(q) ==
    /\ q.live => q.actor
    /\ q.actor => q.entry
    /\ q.flashing => q.entry
    /\ q.limp \/ q.dispatched => q.wire
    /\ q.red \/ q.flashLeft > 0 => q.live

(* A window that is over has brought the body to its target. *)
Arrives(q) ==
    q.hasPose /\ q.left = 0 =>
        /\ q.cur = q.target
        /\ q.live /\ ~ q.wire => q.at = q.target

Labels(q) == q.labelLive => q.entry /\ q.live /\ q.labelRed = q.flashing

PlayerInv(q) == q \in Players /\ Latches(q) /\ Arrives(q) /\ Labels(q)

LEMMA Applied ==
    ASSUME NEW q \in Players
    PROVE  ApplyToEngine(q) \in Players
BY ZenonT(40) DEF ApplyToEngine, Players

LEMMA SpawnedBody ==
    ASSUME NEW q, PlayerInv(q), ~ Valid(q)
    PROVE  /\ PlayerInv(Spawned(q))
           /\ LET r == Spawned(q) IN r.live /\ ~ r.hasPose /\ ~ r.red /\ r.flashLeft = 0
<1>1. Spawned(q) \in Players
  <2>1. q \in Players /\ 0 \in Pos /\ 0 \in 0 .. Window
    BY PuppetAssumption DEF PlayerInv, Pos
  <2>2. WithBody(q) \in Players
    BY <2>1, ZenonT(40) DEF WithBody, Players
  <2> DEFINE w == WithBody(q)
             s == [w EXCEPT !.cur = 0, !.target = 0, !.left = 0, !.hasPose = FALSE]
             a == ApplyToEngine(s)
  <2> HIDE DEF w
  <2>3. s \in Players
    BY <2>1, <2>2, ZenonT(40) DEF w, Players
  <2> HIDE DEF s
  <2>4. a \in Players
    BY <2>3, Applied
  <2> HIDE DEF a
  <2>5. Register(a) \in Players
    <3>1. CASE a.entry
      BY <2>4, <3>1 DEF Register
    <3>2. CASE ~ a.entry
      <4>1. Register(a) = [a EXCEPT !.entry = TRUE, !.labelLive = TRUE, !.labelHealth = a.health,
                                    !.labelRed = FALSE]
        BY <3>2 DEF Register
      <4>2. PICK health \in 0 .. MaxHealth : health = a.health
        BY <2>4, ZenonT(40) DEF Players
      <4>3. Register(a) = [a EXCEPT !.entry = TRUE, !.labelLive = TRUE, !.labelHealth = health,
                                    !.labelRed = FALSE]
        BY <4>1, <4>2
      <4> QED BY <2>4, <4>3, ZenonT(40) DEF Players
    <3> QED BY <3>1, <3>2
  <2> QED BY <2>5 DEF w, s, a, Spawned
<1> USE DEF PlayerInv, Players, Valid, Spawned, Register, ApplyToEngine, WithBody
<1>2. Latches(Spawned(q))
  BY DEF Latches
<1>3. Arrives(Spawned(q))
  BY DEF Arrives
<1>4. Labels(Spawned(q))
  BY DEF Latches, Labels
<1>5. LET r == Spawned(q) IN r.live /\ ~ r.hasPose /\ ~ r.red /\ r.flashLeft = 0
  BY DEF Latches
<1> QED BY <1>1, <1>2, <1>3, <1>4, <1>5 DEF PlayerInv

LEMMA DestroyedBody ==
    ASSUME NEW q, PlayerInv(q), Valid(q)
    PROVE  /\ PlayerInv(Destroy(q))
           /\ LET r == Destroy(q) IN ~ r.live /\ ~ r.labelLive
<1> DEFINE u == Unregister(q)
           r == Destroy(q)
<1>1. u \in Players /\ ~ u.labelLive /\ ~ u.entry
  BY ZenonT(40) DEF PlayerInv, Players, Unregister
<1>2. r = Reset(u)
  BY DEF Destroy, Valid
<1> HIDE DEF u
<1>3. r \in Players
  <2>1. NewPlayer \in Players
    BY PuppetAssumption DEF NewPlayer, Players, Pos
  <2>2. PICK new : new = NewPlayer
    OBVIOUS
  <2>3. PICK n : n = [new EXCEPT !.dirty = FALSE, !.health = u.health, !.cur = u.cur,
                                 !.target = u.target, !.entry = u.entry]
    OBVIOUS
  <2>4. /\ u.cur \in Pos /\ u.target \in Pos /\ u.entry \in BOOLEAN /\ u.labelLive \in BOOLEAN
        /\ u.health \in 0 .. MaxHealth /\ u.labelHealth \in 0 .. MaxHealth /\ u.labelRed \in BOOLEAN
    BY <1>1, ZenonT(40) DEF Players
  <2>5. new \in Players
    BY <2>1, <2>2
  <2>6. n \in Players
    BY <2>3, <2>4, <2>5, ZenonT(40) DEF Players
  <2>7. r = [n EXCEPT !.labelLive = u.labelLive, !.labelHealth = u.labelHealth,
                      !.labelRed = u.labelRed]
    BY <1>2, <2>2, <2>3 DEF Reset
  <2> HIDE DEF r
  <2> QED BY <2>4, <2>6, <2>7, ZenonT(40) DEF Players
<1> HIDE DEF r
<1>4. /\ ~ r.actor /\ ~ r.hasPose /\ ~ r.wire /\ ~ r.dispatched /\ r.flashLeft = 0 /\ ~ r.flashing
      /\ ~ r.live /\ ~ r.limp /\ ~ r.red /\ ~ r.labelLive
  BY <1>1, <1>2 DEF Reset, NewPlayer
<1>5. Latches(r) /\ Arrives(r) /\ Labels(r)
  BY <1>4 DEF Latches, Arrives, Labels
<1> QED BY <1>3, <1>4, <1>5 DEF PlayerInv, r

(* What the steps of SetTargetPose leave as it is. *)
SameBody(q, r) ==
    /\ r.actor = q.actor /\ r.live = q.live /\ r.hasPose = q.hasPose /\ r.red = q.red
    /\ r.entry = q.entry /\ r.labelLive = q.labelLive /\ r.labelRed = q.labelRed
    /\ r.flashing = q.flashing

LEMMA Vitals ==
    ASSUME NEW q \in Players, NEW health \in 0 .. MaxHealth, NEW r, r = SetVitals(q, health)
    PROVE  /\ r \in Players /\ r.health = health /\ SameBody(q, r)
           /\ r.flashLeft = q.flashLeft \/ (q.hasPose /\ health < q.health)
           /\ r.wire = q.wire /\ r.limp = q.limp /\ r.dispatched = q.dispatched
<1>1. FlashTime \in 0 .. FlashTime
  BY PuppetAssumption
<1>2. CASE q.hasPose /\ health < q.health
  BY <1>1, <1>2, ZenonT(40) DEF SetVitals, Players, SameBody
<1>3. CASE ~ (q.hasPose /\ health < q.health)
  BY <1>1, <1>3, ZenonT(40) DEF SetVitals, Players, SameBody
<1> QED BY <1>2, <1>3

LEMMA Ragdoll ==
    ASSUME NEW q \in Players, NEW limp \in BOOLEAN, NEW resolves \in BOOLEAN,
           q.limp \/ q.dispatched => q.wire,
           NEW r, r = SetRagdoll(q, limp, resolves)
    PROVE  /\ r \in Players /\ r.wire = limp /\ SameBody(q, r)
           /\ r.limp \/ r.dispatched => r.wire
           /\ r.health = q.health /\ r.flashLeft = q.flashLeft
<1>1. CASE limp = q.wire
  BY <1>1 DEF SetRagdoll, SameBody
<1>2. CASE limp # q.wire /\ limp
  <2>1. PICK flops \in BOOLEAN : flops = (resolves \/ q.limp)
    OBVIOUS
  <2>2. r = [q EXCEPT !.wire = TRUE, !.dispatched = resolves, !.limp = flops]
    BY <1>2, <2>1 DEF SetRagdoll, StartRagdoll
  <2>3. r \in Players
    BY <2>2, ZenonT(40) DEF Players
  <2>4. /\ r.wire = TRUE /\ SameBody(q, r) /\ r.health = q.health /\ r.flashLeft = q.flashLeft
    BY <2>2, ZenonT(40) DEF Players, SameBody
  <2> QED BY <1>2, <2>3, <2>4
<1>3. CASE limp # q.wire /\ ~ limp
  <2>1. r = [q EXCEPT !.wire = FALSE, !.dispatched = FALSE, !.limp = FALSE]
    BY <1>3 DEF SetRagdoll, StopRagdoll
  <2>2. r \in Players
    BY <2>1, ZenonT(40) DEF Players
  <2>3. /\ r.wire = FALSE /\ ~ r.limp /\ ~ r.dispatched /\ SameBody(q, r)
        /\ r.health = q.health /\ r.flashLeft = q.flashLeft
    BY <2>1, ZenonT(40) DEF Players, SameBody
  <2> QED BY <1>3, <2>2, <2>3
<1> QED BY <1>1, <1>2, <1>3

LEMMA Posed ==
    ASSUME NEW q, PlayerInv(q), q.live, NEW new \in Poses, NEW resolves \in BOOLEAN,
           NEW r, r = SetTargetPose(q, new, resolves)
    PROVE  /\ PlayerInv(r) /\ r.live /\ r.hasPose /\ r.target = new.x /\ r.health = new.health
           /\ r.red = q.red
           /\ r.flashLeft = q.flashLeft \/ (q.hasPose /\ new.health < q.health)
<1>v. PICK v : v = SetVitals(q, new.health)
  OBVIOUS
<1>g. PICK g : g = SetRagdoll(v, new.limp, resolves)
  OBVIOUS
<1>1. q \in Players /\ new.x \in Pos /\ new.limp \in BOOLEAN /\ new.health \in 0 .. MaxHealth
  BY DEF PlayerInv, Poses
<1>2. /\ v \in Players /\ v.health = new.health /\ SameBody(q, v)
      /\ v.flashLeft = q.flashLeft \/ (q.hasPose /\ new.health < q.health)
      /\ v.wire = q.wire /\ v.limp = q.limp /\ v.dispatched = q.dispatched
  BY <1>1, <1>v, Vitals
<1>3. v.limp \/ v.dispatched => v.wire
  BY <1>2 DEF PlayerInv, Latches
<1>4. /\ g \in Players /\ g.wire = new.limp /\ SameBody(v, g)
      /\ g.limp \/ g.dispatched => g.wire
      /\ g.health = v.health /\ g.flashLeft = v.flashLeft
  <2> DEFINE limp == new.limp
  <2>1. limp \in BOOLEAN /\ g = SetRagdoll(v, limp, resolves)
    BY <1>1, <1>g
  <2> HIDE DEF limp
  <2>2. /\ g \in Players /\ g.wire = limp /\ SameBody(v, g)
        /\ g.limp \/ g.dispatched => g.wire
        /\ g.health = v.health /\ g.flashLeft = v.flashLeft
    BY <1>2, <1>3, <2>1, Ragdoll
  <2> QED BY <2>2 DEF limp
<1>5. /\ Latches(g) /\ Labels(g) /\ g.live /\ g.red = q.red /\ g.hasPose = q.hasPose
      /\ g.health = new.health /\ g.flashLeft = v.flashLeft
  BY <1>2, <1>4 DEF PlayerInv, SameBody, Latches, Labels
<1>6. CASE r = SnapTo(g, new.x)
  <2> DEFINE s == [g EXCEPT !.cur = new.x, !.target = new.x, !.left = 0, !.hasPose = TRUE]
  <2>1. 0 \in 0 .. Window
    BY PuppetAssumption
  <2>2. /\ s \in Players /\ Latches(s) /\ Labels(s) /\ s.live /\ s.red = g.red
        /\ s.health = g.health /\ s.flashLeft = g.flashLeft /\ s.hasPose
        /\ s.cur = new.x /\ s.target = new.x
    BY <1>1, <1>4, <1>5, <2>1, ZenonT(40) DEF Players, Latches, Labels
  <2>3. r = ApplyToEngine(s)
    BY <1>6 DEF SnapTo
  <2> HIDE DEF s
  <2>4. r \in Players
    BY <2>2, <2>3, Applied
  <2>5. /\ Latches(r) /\ Labels(r) /\ Arrives(r) /\ r.live /\ r.red = s.red /\ r.hasPose
        /\ r.health = s.health /\ r.flashLeft = s.flashLeft /\ r.target = new.x
    BY <2>2, <2>3 DEF ApplyToEngine, Players, Latches, Labels, Arrives
  <2> QED BY <1>2, <1>5, <2>2, <2>4, <2>5 DEF PlayerInv
<1>7. CASE r = [g EXCEPT !.target = new.x, !.left = Window, !.dirty = TRUE] /\ g.hasPose
  <2>1. Window \in 0 .. Window /\ Window # 0
    BY PuppetAssumption
  <2>2. r \in Players
    <3> DEFINE x == new.x
    <3>1. r = [g EXCEPT !.target = x, !.left = Window, !.dirty = TRUE]
      BY <1>7
    <3>2. x \in Pos /\ g \in Players
      BY <1>1, <1>4
    <3> HIDE DEF x
    <3> QED BY <2>1, <3>1, <3>2, ZenonT(40) DEF Players
  <2>3. /\ Latches(r) /\ Labels(r) /\ Arrives(r) /\ r.live /\ r.red = g.red /\ r.hasPose
        /\ r.health = g.health /\ r.flashLeft = g.flashLeft /\ r.target = new.x
    BY <1>4, <1>5, <1>7, <2>1, ZenonT(40) DEF Players, Latches, Labels, Arrives
  <2> QED BY <1>2, <1>5, <2>2, <2>3 DEF PlayerInv
<1>8. \/ r = SnapTo(g, new.x)
      \/ r = [g EXCEPT !.target = new.x, !.left = Window, !.dirty = TRUE] /\ g.hasPose
  BY <1>v, <1>g DEF SetTargetPose
<1> QED BY <1>6, <1>7, <1>8

(* The window moves on, and what is dirty is pushed. *)
LEMMA Glided ==
    ASSUME NEW q, PlayerInv(q), q.live, NEW a \in Advanced(q), NEW b, b = Pushed(a)
    PROVE  /\ PlayerInv(b) /\ SameBody(q, b)
           /\ b.target = q.target /\ b.health = q.health /\ b.flashLeft = q.flashLeft
<1>1. q \in Players /\ Latches(q) /\ Arrives(q) /\ Labels(q)
  BY DEF PlayerInv
<1>2. /\ a \in Players /\ SameBody(q, a) /\ a.wire = q.wire /\ a.limp = q.limp
      /\ a.dispatched = q.dispatched
      /\ a.target = q.target /\ a.health = q.health /\ a.flashLeft = q.flashLeft
      /\ a.hasPose /\ a.left = 0 => a.cur = a.target /\ (a.dirty \/ a = q)
  <2>1. CASE q.left = 0
    <3>1. a = q
      BY <2>1 DEF Advanced
    <3> QED BY <1>1, <3>1 DEF SameBody, Arrives
  <2>2. CASE q.left # 0
    <3>1. PICK l \in 0 .. q.left - 1, x \in Between(q.cur, q.target) : a = Moved(q, l, x)
      BY <2>2 DEF Advanced
    <3>2. q.left \in 0 .. Window /\ q.target \in Pos /\ Window \in Nat
      BY <1>1, PuppetAssumption, ZenonT(40) DEF Players
    <3>3. l \in 0 .. Window /\ x \in Pos
      BY <3>2 DEF Between
    <3> QED BY <1>1, <3>1, <3>2, <3>3, ZenonT(40) DEF Moved, Players, SameBody
  <2> QED BY <2>1, <2>2
<1>3. CASE a.dirty
  <2>a. PICK at : at = IF a.dispatched THEN a.at ELSE a.cur
    OBVIOUS
  <2>1. b = [a EXCEPT !.at = at, !.dirty = FALSE]
    BY <1>3, <2>a DEF Pushed, ApplyToEngine
  <2>b. a \in Players
    BY <1>2
  <2>2. b \in Players
    BY <1>2, <1>3, Applied DEF Pushed
  <2>3. /\ SameBody(a, b) /\ b.wire = a.wire /\ b.limp = a.limp /\ b.dispatched = a.dispatched
        /\ b.target = a.target /\ b.health = a.health /\ b.flashLeft = a.flashLeft
        /\ b.cur = a.cur /\ b.left = a.left
        /\ b.at = at
    BY <2>b, <2>1, ZenonT(40) DEF Players, SameBody
  <2>4. Latches(b) /\ Labels(b)
    BY <1>1, <1>2, <2>3 DEF Latches, Labels, SameBody
  <2>5. Arrives(b)
    BY <1>1, <1>2, <2>a, <2>3 DEF Arrives, Latches, SameBody
  <2> QED BY <1>2, <2>2, <2>3, <2>4, <2>5 DEF PlayerInv, SameBody
<1>4. CASE ~ a.dirty
  <2>1. b = a
    BY <1>4 DEF Pushed
  <2>2. Latches(a) /\ Labels(a)
    BY <1>1, <1>2 DEF Latches, Labels, SameBody
  <2>3. Arrives(a)
    BY <1>1, <1>2, <1>4 DEF Arrives
  <2> QED BY <1>2, <2>1, <2>2, <2>3 DEF PlayerInv
<1> QED BY <1>3, <1>4

(* What the flash leaves as it is. *)
SamePose(q, r) ==
    /\ r.hasPose = q.hasPose /\ r.left = q.left /\ r.cur = q.cur /\ r.target = q.target
    /\ r.at = q.at /\ r.wire = q.wire /\ r.limp = q.limp /\ r.dispatched = q.dispatched
    /\ r.live = q.live /\ r.actor = q.actor /\ r.entry = q.entry
    /\ r.labelLive = q.labelLive /\ r.health = q.health /\ r.flashLeft = q.flashLeft

LEMMA SamePoseChain ==
    ASSUME NEW q, NEW r, NEW s, SamePose(q, r), SamePose(r, s)
    PROVE  SamePose(q, s)
BY DEF SamePose

LEMMA LabelFlash ==
    ASSUME NEW f \in Players, NEW on \in BOOLEAN, f.entry, NEW d, d = SetFlash(f, on)
    PROVE  /\ d \in Players /\ SamePose(f, d) /\ d.flashing = f.flashing /\ d.red = f.red
           /\ d.labelLive => d.labelRed = on
<1>1. PICK red \in BOOLEAN : red = IF f.entry /\ f.labelLive THEN on ELSE f.labelRed
  BY ZenonT(40) DEF Players
<1>2. d = [f EXCEPT !.labelRed = red]
  BY <1>1 DEF SetFlash
<1>3. d \in Players
  BY <1>2, ZenonT(40) DEF Players
<1> QED BY <1>1, <1>2, <1>3, ZenonT(40) DEF Players, SamePose

LEMMA RedBody ==
    ASSUME NEW d \in Players, NEW r, r = Reddened(d)
    PROVE  r \in Players /\ SamePose(d, r) /\ r.flashing = d.flashing /\ r.labelRed = d.labelRed
<1>1. CASE d.saved = "none"
  <2>1. "body" \in {"none", "body", "gone"}
    OBVIOUS
  <2>2. r = [d EXCEPT !.red = TRUE, !.saved = "body"]
    BY <1>1 DEF Reddened
  <2>3. r \in Players
    BY <2>1, <2>2, ZenonT(40) DEF Players
  <2>4. SamePose(d, r) /\ r.flashing = d.flashing /\ r.labelRed = d.labelRed
    BY <2>2, ZenonT(40) DEF Players, SamePose
  <2> QED BY <2>3, <2>4
<1>2. CASE d.saved # "none"
  BY <1>2 DEF Reddened, SamePose
<1> QED BY <1>1, <1>2

LEMMA HealedBody ==
    ASSUME NEW d \in Players, NEW r, r = Restored(d)
    PROVE  /\ r \in Players /\ SamePose(d, r) /\ (r.red => d.red)
           /\ r.flashing = d.flashing /\ r.labelRed = d.labelRed
<1>1. PICK red \in BOOLEAN : red = (d.red /\ d.saved # "body")
  OBVIOUS
<1>2. r = [d EXCEPT !.red = red, !.saved = "none"]
  BY <1>1 DEF Restored
<1>3. "none" \in {"none", "body", "gone"}
  OBVIOUS
<1>4. r \in Players
  BY <1>2, <1>3, ZenonT(40) DEF Players
<1>5. SamePose(d, r) /\ r.flashing = d.flashing /\ r.labelRed = d.labelRed /\ (r.red => d.red)
  BY <1>1, <1>2, ZenonT(40) DEF Players, SamePose
<1> QED BY <1>4, <1>5

(* The flash begins or ends. *)
LEMMA Flashed ==
    ASSUME NEW b, PlayerInv(b), b.live, NEW t \in 0 .. FlashTime,
           NEW r, r = FlashEdge([b EXCEPT !.flashLeft = t])
    PROVE  /\ PlayerInv(r) /\ r.live /\ r.hasPose = b.hasPose /\ r.target = b.target
           /\ r.health = b.health /\ r.flashLeft = t
           /\ r.red => b.red \/ t > 0
<1>puppet. PICK c : c = [b EXCEPT !.flashLeft = t]
  OBVIOUS
<1>1. /\ c \in Players /\ Latches(c) /\ Arrives(c) /\ Labels(c) /\ c.live
      /\ c.hasPose = b.hasPose /\ c.target = b.target /\ c.health = b.health
      /\ c.flashLeft = t /\ c.red = b.red
  BY <1>puppet, ZenonT(40) DEF PlayerInv, Players, Latches, Arrives, Labels
<1>2. r = FlashEdge(c) /\ c.entry
  BY <1>1, <1>puppet DEF Latches
<1>3. ASSUME SamePose(c, r), r \in Players, r.red => c.red \/ t > 0,
             r.labelLive => r.labelRed = r.flashing
      PROVE  /\ PlayerInv(r) /\ r.live /\ r.hasPose = b.hasPose /\ r.target = b.target
             /\ r.health = b.health /\ r.flashLeft = t
             /\ r.red => b.red \/ t > 0
  <2>1. Latches(r) /\ Arrives(r) /\ Labels(r)
    BY <1>1, <1>2, <1>3 DEF Latches, Arrives, Labels, SamePose
  <2> QED BY <1>1, <1>3, <2>1 DEF PlayerInv, SamePose
<1>4. CASE (c.armed /\ c.flashLeft > 0) = c.flashing
  <2>1. r = c
    BY <1>2, <1>4 DEF FlashEdge
  <2> QED BY <1>1, <1>3, <2>1 DEF Labels, SamePose
<1>5. CASE c.armed /\ c.flashLeft > 0 /\ ~ c.flashing
  <2>1. PICK f : f = [c EXCEPT !.flashing = TRUE]
    OBVIOUS
  <2>2. f \in Players /\ SamePose(c, f) /\ f.flashing = TRUE /\ f.red = c.red
    BY <1>1, <2>1, ZenonT(40) DEF Players, SamePose
  <2>3. PICK d : d = SetFlash(f, TRUE)
    OBVIOUS
  <2>4. /\ d \in Players /\ SamePose(c, d) /\ d.flashing = TRUE
        /\ d.labelLive => d.labelRed = TRUE
        /\ d.red = c.red
    <3>1. f.entry
      BY <1>2, <2>2 DEF SamePose
    <3> QED BY <2>2, <2>3, <3>1, LabelFlash, SamePoseChain
  <2>5. r = Reddened(d)
    BY <1>2, <1>5, <2>1, <2>3 DEF FlashEdge
  <2>6. r \in Players /\ SamePose(d, r) /\ r.flashing = d.flashing /\ r.labelRed = d.labelRed
    BY <2>4, <2>5, RedBody
  <2>7. SamePose(c, r)
    BY <2>4, <2>6, SamePoseChain
  <2>8. r.labelLive => r.labelRed = r.flashing
    BY <2>4, <2>6 DEF SamePose
  <2> QED BY <1>1, <1>3, <1>5, <2>6, <2>7, <2>8
<1>6. CASE ~ (c.armed /\ c.flashLeft > 0) /\ c.flashing
  <2>1. PICK f : f = [c EXCEPT !.flashing = FALSE, !.armed = FALSE]
    OBVIOUS
  <2>2. f \in Players /\ SamePose(c, f) /\ f.flashing = FALSE /\ f.red = c.red
    BY <1>1, <2>1, ZenonT(40) DEF Players, SamePose
  <2>3. PICK d : d = SetFlash(f, FALSE)
    OBVIOUS
  <2>4. /\ d \in Players /\ SamePose(c, d) /\ d.flashing = FALSE
        /\ d.labelLive => d.labelRed = FALSE
        /\ d.red = c.red
    <3>1. f.entry
      BY <1>2, <2>2 DEF SamePose
    <3> QED BY <2>2, <2>3, <3>1, LabelFlash, SamePoseChain
  <2>5. r = Restored(d)
    BY <1>2, <1>6, <2>1, <2>3 DEF FlashEdge
  <2>6. /\ r \in Players /\ SamePose(d, r) /\ (r.red => d.red)
        /\ r.flashing = d.flashing /\ r.labelRed = d.labelRed
    BY <2>4, <2>5, HealedBody
  <2>7. SamePose(c, r)
    BY <2>4, <2>6, SamePoseChain
  <2>8. r.labelLive => r.labelRed = r.flashing
    BY <2>4, <2>6 DEF SamePose
  <2> QED BY <1>1, <1>3, <2>4, <2>6, <2>7, <2>8
<1> QED BY <1>1, <1>4, <1>5, <1>6, ZenonT(40) DEF Players

LEMMA TickedBody ==
    ASSUME NEW q, PlayerInv(q), NEW r \in Ticked(q)
    PROVE  /\ PlayerInv(r) /\ r.live = q.live /\ r.hasPose = q.hasPose
           /\ r.target = q.target /\ r.health = q.health
           /\ r.flashLeft > 0 => q.flashLeft > 0
           /\ r.red => q.red \/ q.flashLeft > 0
<1>1. q \in Players /\ Latches(q)
  BY DEF PlayerInv
<1>2. CASE ~ Valid(q)
  <2>1. r = q
    BY <1>2 DEF Ticked
  <2> QED BY <2>1
<1>3. CASE Valid(q)
  <2>1. PICK c \in {[Pushed(a) EXCEPT !.flashLeft = t] : a \in Advanced(q),
                        t \in {n \in 0 .. FlashTime : n < q.flashLeft \/ n = 0}} :
            r = FlashEdge(c)
    BY <1>3 DEF Ticked
  <2>2. PICK a \in Advanced(q), t \in {n \in 0 .. FlashTime : n < q.flashLeft \/ n = 0} :
            c = [Pushed(a) EXCEPT !.flashLeft = t]
    BY <2>1
  <2>3. PICK b : b = Pushed(a)
    OBVIOUS
  <2>4. q.live
    BY <1>3 DEF Valid
  <2>5. /\ PlayerInv(b) /\ SameBody(q, b) /\ b.target = q.target /\ b.health = q.health
        /\ b.flashLeft = q.flashLeft
    BY <2>3, <2>4, Glided
  <2>6. b.live /\ b.hasPose = q.hasPose /\ b.red = q.red
    BY <2>4, <2>5 DEF SameBody
  <2>7. t \in 0 .. FlashTime /\ r = FlashEdge([b EXCEPT !.flashLeft = t])
    BY <2>1, <2>2, <2>3
  <2>8. /\ PlayerInv(r) /\ r.live /\ r.hasPose = b.hasPose /\ r.target = b.target
        /\ r.health = b.health /\ r.flashLeft = t /\ (r.red => b.red \/ t > 0)
    BY <2>5, <2>6, <2>7, Flashed
  <2>9. t > 0 => q.flashLeft > 0
    <3>1. t \in Nat /\ (t < q.flashLeft \/ t = 0)
      BY PuppetAssumption
    <3>2. q.flashLeft \in 0 .. FlashTime
      BY <1>1 DEF Players
    <3> QED BY <3>1, <3>2, PuppetAssumption
  <2> QED BY <2>4, <2>5, <2>6, <2>8, <2>9
<1> QED BY <1>2, <1>3

-----------------------------------------------------------------------------
(* The slot and its player. *)
SlotTypeOK ==
    /\ slotReady \in BOOLEAN /\ slotWasReady \in BOOLEAN /\ poseIsNew \in BOOLEAN
    /\ hit \in BOOLEAN /\ pose \in Poses \cup {NoPose}

(* A pose is stored only for a player that holds the slot, and a body that  *)
(* has not been destroyed yet is of the present holder, or of one whose     *)
(* going the next frame sees.                                               *)
Closed ==
    /\ ~ slotReady => pose = NoPose
    /\ ~ slotWasReady => ~ puppet.live

(* What the frame knows of its body q, between its parts.                   *)
FrameInv(q) ==
    /\ PlayerInv(q)
    /\ q.red \/ q.flashLeft > 0 => hit
    /\ slotReady /\ q.live /\ q.hasPose /\ ~ hit => pose # NoPose /\ q.health =< pose.health

TargetsPose(q) == q.live /\ q.hasPose /\ pose # NoPose => q.target = pose.x

LabelShows == puppet.labelLive => puppet.labelHealth = puppet.health

PuppetInv ==
    /\ SlotTypeOK /\ Closed /\ FrameInv(puppet) /\ LabelShows
    /\ ~ poseIsNew => TargetsPose(puppet)

LEMMA NoPoseIsNone == NoPose \notin Poses
BY DEF NoPose, Poses, Pos

LEMMA PuppetInitInv == PuppetInit => PuppetInv
<1> SUFFICES ASSUME PuppetInit PROVE PuppetInv
  OBVIOUS
<1>1. SlotTypeOK /\ Closed
  BY DEF PuppetInit, SlotTypeOK, Closed, NewPlayer
<1>2. puppet \in Players
  BY PuppetAssumption DEF PuppetInit, NewPlayer, Players, Pos
<1>3. /\ ~ puppet.actor /\ ~ puppet.hasPose /\ ~ puppet.wire /\ ~ puppet.dispatched
      /\ puppet.flashLeft = 0 /\ ~ puppet.flashing
      /\ ~ puppet.live /\ ~ puppet.limp /\ ~ puppet.red /\ ~ puppet.labelLive
  BY DEF PuppetInit, NewPlayer
<1> QED BY <1>1, <1>2, <1>3 DEF PuppetInv, FrameInv, PlayerInv, Latches, Arrives, Labels,
                                TargetsPose, LabelShows

LEMMA FrameKept == ASSUME PuppetInv, Frame PROVE PuppetInv'
<1> DEFINE q == AfterEdge
<1>1. FrameInv(q) /\ (~ slotReady => ~ q.live) /\ (~ poseIsNew => TargetsPose(q))
  <2>1. CASE slotWasReady /\ ~ slotReady /\ Valid(puppet)
    <3>1. q = Destroy(puppet)
      BY <2>1 DEF AfterEdge
    <3>2. PlayerInv(q) /\ ~ q.live
      BY <2>1, <3>1, DestroyedBody DEF PuppetInv, FrameInv
    <3> QED BY <3>2 DEF FrameInv, PlayerInv, Latches, TargetsPose
  <2>2. CASE ~ (slotWasReady /\ ~ slotReady /\ Valid(puppet))
    <3>1. q = puppet
      BY <2>2 DEF AfterEdge
    <3> QED BY <2>2, <3>1 DEF PuppetInv, FrameInv, PlayerInv, Latches, Valid, Closed, SlotTypeOK
  <2> QED BY <2>1, <2>2
<1> HIDE DEF q
<1>2. PICK spawns, resolves, d, r :
           /\ spawns \in BOOLEAN /\ resolves \in BOOLEAN
           /\ d = Driven(q, spawns, resolves)
           /\ r \in Ticked(d) /\ puppet' = Labelled(r)
  <2>1. PICK spawns \in {TRUE, Valid(q)}, resolves \in {TRUE, ~ pose.limp} :
           \E d \in {Driven(q, spawns, resolves)} : \E r \in Ticked(d) : puppet' = Labelled(r)
    BY DEF Frame, q
  <2>2. Valid(q) \in BOOLEAN
    BY DEF Valid
  <2> QED BY <2>1, <2>2
<1>3. FrameInv(d) /\ (~ slotReady => ~ d.live) /\ TargetsPose(d)
  <2>1. CASE pose = NoPose
    <3>1. d = q
      BY <1>2, <2>1 DEF Driven
    <3> QED BY <1>1, <2>1, <3>1 DEF TargetsPose
  <2>2. CASE pose # NoPose /\ ~ Valid(q) /\ ~ spawns
    <3>1. d = q /\ ~ q.live
      BY <1>1, <1>2, <2>2 DEF Driven, Valid, FrameInv, PlayerInv, Latches
    <3> QED BY <1>1, <3>1 DEF TargetsPose
  <2>3. CASE pose # NoPose /\ (Valid(q) \/ spawns)
    <3>1. PICK s : s = IF Valid(q) THEN q ELSE Spawned(q)
      OBVIOUS
    <3>2. d = IF poseIsNew THEN SetTargetPose(s, pose, resolves) ELSE s
      BY <1>2, <2>3, <3>1 DEF Driven
    <3>3. slotReady /\ pose \in Poses
      BY <2>3 DEF PuppetInv, Closed, SlotTypeOK
    <3>4. FrameInv(s) /\ s.live /\ (~ poseIsNew => TargetsPose(s))
      <4>1. CASE Valid(q)
        BY <1>1, <3>1, <4>1 DEF Valid
      <4>2. CASE ~ Valid(q)
        <5>1. PlayerInv(s) /\ s.live /\ ~ s.hasPose /\ ~ s.red /\ s.flashLeft = 0
          BY <1>1, <3>1, <4>2, SpawnedBody DEF FrameInv
        <5> QED BY <5>1 DEF FrameInv, TargetsPose
      <4> QED BY <4>1, <4>2
    <3>5. CASE poseIsNew
      <4>1. /\ PlayerInv(d) /\ d.live /\ d.hasPose /\ d.target = pose.x /\ d.health = pose.health
            /\ d.red = s.red
            /\ d.flashLeft = s.flashLeft \/ (s.hasPose /\ pose.health < s.health)
        <5>1. d = SetTargetPose(s, pose, resolves) /\ PlayerInv(s) /\ s.live /\ pose \in Poses
          BY <3>2, <3>3, <3>4, <3>5 DEF FrameInv
        <5>2. resolves \in BOOLEAN
          BY <1>2
        <5> HIDE DEF TargetsPose
        <5> QED BY <5>1, <5>2, Posed
      <4>2. s.hasPose /\ pose.health < s.health => hit
        <5>1. s.health \in Int /\ pose.health \in Int
          BY <3>3, <3>4 DEF FrameInv, PlayerInv, Players, Poses
        <5> QED BY <3>3, <3>4, <5>1 DEF FrameInv
      <4>3. pose.health =< pose.health
        BY <3>3 DEF Poses
      <4> QED BY <2>3, <3>3, <3>4, <4>1, <4>2, <4>3 DEF FrameInv, TargetsPose
    <3>6. CASE ~ poseIsNew
      BY <3>2, <3>3, <3>4, <3>6
    <3> QED BY <3>5, <3>6 DEF PuppetInv, SlotTypeOK
  <2> QED BY <2>1, <2>2, <2>3
<1>4. /\ PlayerInv(r) /\ r.live = d.live /\ r.hasPose = d.hasPose
      /\ r.target = d.target /\ r.health = d.health
      /\ r.flashLeft > 0 => d.flashLeft > 0
      /\ r.red => d.red \/ d.flashLeft > 0
  BY <1>2, <1>3, TickedBody DEF FrameInv
<1>5. FrameInv(r) /\ (~ slotReady => ~ r.live) /\ TargetsPose(r)
  BY <1>3, <1>4 DEF FrameInv, TargetsPose
<1>6. /\ PlayerInv(puppet') /\ puppet'.live = r.live /\ puppet'.hasPose = r.hasPose
      /\ puppet'.target = r.target
      /\ puppet'.health = r.health /\ puppet'.flashLeft = r.flashLeft /\ puppet'.red = r.red
      /\ puppet'.labelLive => puppet'.labelHealth = puppet'.health
  <2>1. CASE r.entry /\ r.labelLive /\ Valid(r)
    <3>1. puppet' = [r EXCEPT !.labelHealth = r.health] /\ r.health \in 0 .. MaxHealth
      BY <1>2, <1>4, <2>1, ZenonT(40) DEF Labelled, PlayerInv, Players
    <3>2. puppet' \in Players
      BY <1>4, <3>1, ZenonT(40) DEF PlayerInv, Players
    <3> QED BY <1>4, <3>1, <3>2, ZenonT(40) DEF PlayerInv, Players, Latches, Arrives, Labels
  <2>2. CASE ~ (r.entry /\ r.labelLive /\ Valid(r))
    <3>1. puppet' = r /\ ~ r.labelLive
      BY <1>2, <1>4, <2>2 DEF Labelled, PlayerInv, Latches, Labels, Valid
    <3> QED BY <1>4, <3>1
  <2> QED BY <2>1, <2>2
<1>7. /\ slotWasReady' = slotReady /\ poseIsNew' = FALSE
      /\ UNCHANGED <<slotReady, pose, hit>>
  BY DEF Frame
<1>8. SlotTypeOK' /\ Closed'
  BY <1>5, <1>6, <1>7 DEF PuppetInv, SlotTypeOK, Closed
<1>9. FrameInv(puppet)' /\ LabelShows' /\ TargetsPose(puppet)'
  <2>1. PlayerInv(puppet)'
    BY <1>6 DEF PlayerInv, Latches, Arrives, Labels
  <2> QED BY <1>5, <1>6, <1>7, <2>1 DEF FrameInv, LabelShows, TargetsPose
<1> QED BY <1>8, <1>9 DEF PuppetInv

LEMMA PuppetStepKept == ASSUME PuppetInv, [PuppetNext]_puppetVars PROVE PuppetInv'
<1>1. CASE Frame
  BY <1>1, FrameKept
<1>2. CASE SlotOpens
  <2>1. puppet' = puppet /\ pose' = pose /\ pose = NoPose /\ ~ puppet.live
    BY <1>2 DEF PuppetInv, Closed, SlotOpens
  <2>2. PlayerInv(puppet)' /\ ~ puppet'.live
    BY <2>1 DEF PuppetInv, FrameInv, PlayerInv, Latches, Arrives, Labels
  <2>3. SlotTypeOK' /\ Closed'
    BY <1>2, <2>1 DEF PuppetInv, SlotTypeOK, Closed, SlotOpens
  <2> QED BY <1>2, <2>1, <2>2, <2>3 DEF PuppetInv, FrameInv, PlayerInv, Latches, LabelShows,
                                             TargetsPose
<1>3. CASE SlotCloses
  <2>1. puppet' = puppet /\ ~ slotReady' /\ hit' = hit /\ pose' = NoPose /\ slotReady
    BY <1>3 DEF SlotCloses
  <2>2. PlayerInv(puppet)'
    BY <2>1 DEF PuppetInv, FrameInv, PlayerInv, Latches, Arrives, Labels
  <2>3. SlotTypeOK'
    BY <1>3 DEF PuppetInv, SlotTypeOK, SlotCloses
  <2>4. Closed'
    BY <1>3, <2>1 DEF PuppetInv, Closed, SlotCloses
  <2> QED BY <2>1, <2>2, <2>3, <2>4 DEF PuppetInv, FrameInv, LabelShows, TargetsPose
<1>4. ASSUME NEW new \in Poses, PoseArrives(new) PROVE PuppetInv'
  <2>1. puppet' = puppet /\ slotReady /\ slotReady' /\ pose' = new /\ poseIsNew' = TRUE
    BY <1>4 DEF PoseArrives, PuppetInv, SlotTypeOK
  <2>2. hit' = (hit \/ (pose # NoPose /\ new.health < pose.health))
    BY <1>4 DEF PoseArrives
  <2>3. PlayerInv(puppet)'
    BY <2>1 DEF PuppetInv, FrameInv, PlayerInv, Latches, Arrives, Labels
  <2>4. SlotTypeOK' /\ Closed'
    BY <1>4, <2>1, <2>2 DEF PuppetInv, SlotTypeOK, Closed, PoseArrives
  <2>5. slotReady' /\ puppet'.live /\ puppet'.hasPose /\ ~ hit' =>
            pose' # NoPose /\ puppet'.health =< pose'.health
    <3> SUFFICES ASSUME puppet.live, puppet.hasPose, ~ hit'
                 PROVE  new # NoPose /\ puppet.health =< new.health
      BY <2>1
    <3>1. ~ hit /\ pose # NoPose /\ puppet.health =< pose.health /\ ~ (new.health < pose.health)
      BY <2>1, <2>2 DEF PuppetInv, FrameInv
    <3>2. puppet.health \in Int /\ pose.health \in Int /\ new.health \in Int
      BY <3>1 DEF PuppetInv, FrameInv, PlayerInv, Players, SlotTypeOK, Poses
    <3> QED BY <3>1, <3>2, NoPoseIsNone
  <2>6. puppet'.red \/ puppet'.flashLeft > 0 => hit'
    BY <2>1, <2>2 DEF PuppetInv, FrameInv
  <2> QED BY <2>1, <2>3, <2>4, <2>5, <2>6 DEF PuppetInv, FrameInv, LabelShows
<1>5. CASE LevelChange
  <2>1. /\ ~ puppet'.live /\ ~ puppet'.limp /\ ~ puppet'.red /\ puppet'.flashLeft = 0
        /\ ~ puppet'.labelLive /\ puppet'.hasPose = puppet.hasPose
        /\ puppet'.actor = puppet.actor /\ puppet'.entry = puppet.entry
        /\ puppet'.flashing = puppet.flashing /\ puppet'.wire = puppet.wire
        /\ puppet'.dispatched = puppet.dispatched /\ puppet'.left = puppet.left
        /\ puppet'.cur = puppet.cur /\ puppet'.target = puppet.target
    BY <1>5 DEF LevelChange, PuppetInv, FrameInv, PlayerInv, Players
  <2>2. puppet' \in Players
    <3>1. PICK saved : saved = IF puppet.saved = "body" THEN "gone" ELSE puppet.saved
      OBVIOUS
    <3>2. saved \in {"none", "body", "gone"}
      BY <3>1 DEF PuppetInv, FrameInv, PlayerInv, Players
    <3>4. puppet \in Players /\ 0 \in 0 .. FlashTime
      BY PuppetAssumption DEF PuppetInv, FrameInv, PlayerInv
    <3>3. puppet' = [puppet EXCEPT !.live = FALSE, !.limp = FALSE, !.red = FALSE, !.flashLeft = 0,
                         !.saved = saved, !.labelLive = FALSE, !.labelRed = FALSE]
      BY <1>5, <3>1 DEF LevelChange
    <3> QED BY <3>2, <3>3, <3>4, ZenonT(40) DEF Players
  <2>3. PlayerInv(puppet)'
    BY <2>1, <2>2 DEF PuppetInv, FrameInv, PlayerInv, Latches, Arrives, Labels
  <2>4. SlotTypeOK' /\ Closed'
    BY <1>5, <2>1 DEF PuppetInv, SlotTypeOK, Closed, LevelChange
  <2> QED BY <2>1, <2>3, <2>4 DEF PuppetInv, FrameInv, LabelShows, TargetsPose
<1>6. CASE UNCHANGED puppetVars
  <2>1. /\ slotReady' = slotReady /\ slotWasReady' = slotWasReady /\ pose' = pose
        /\ poseIsNew' = poseIsNew /\ puppet' = puppet /\ hit' = hit
    BY <1>6 DEF puppetVars
  <2>2. PlayerInv(puppet)'
    BY <2>1 DEF PuppetInv, FrameInv, PlayerInv, Latches, Arrives, Labels
  <2>3. SlotTypeOK' /\ Closed'
    BY <2>1 DEF PuppetInv, SlotTypeOK, Closed
  <2> QED BY <2>1, <2>2, <2>3 DEF PuppetInv, FrameInv, LabelShows, TargetsPose
<1> QED BY <1>1, <1>2, <1>3, <1>4, <1>5, <1>6 DEF PuppetNext

THEOREM PuppetInvariance == PuppetSpec => []PuppetInv
BY PuppetInitInv, PuppetStepKept, PTL DEF PuppetSpec

(* On the way of a pose from the store to the screen, for any numbers of   *)
(* positions, frames, levels and holders: what ApplyToEngine, Tick and the *)
(* spawn leave out of the engine is never missing from what is shown.      *)
THEOREM AlwaysShownAsPosed == PuppetSpec => []ShownIsPosed
<1>1. PuppetInv => ShownIsPosed
  BY DEF PuppetInv, FrameInv, PlayerInv, Latches, Arrives, TargetsPose, ShownIsPosed, Valid
<1> QED BY <1>1, PuppetInvariance, PTL

(* SetVitals and the edge of the flash in RemotePlayer::Tick redden the    *)
(* body of a slot only after its holder was hit, whoever had it before.    *)
THEOREM RedOnlyIfHit == PuppetSpec => []RedIsHit
<1>1. PuppetInv => RedIsHit
  BY DEF PuppetInv, FrameInv, RedIsHit
<1> QED BY <1>1, PuppetInvariance, PTL

(* A nameplate's label never outlives its puppet and shows its health,     *)
(* through respawns, changes of level and changes of the holder.           *)
THEOREM LabelAlwaysOfPuppet == PuppetSpec => []LabelOfPuppet
<1>1. PuppetInv => LabelOfPuppet
  BY DEF PuppetInv, FrameInv, PlayerInv, Latches, Labels, LabelShows, LabelOfPuppet, Valid
<1> QED BY <1>1, PuppetInvariance, PTL
=============================================================================
