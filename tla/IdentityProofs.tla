--------------------------- MODULE IdentityProofs ---------------------------
(***************************************************************************)
(* Proofs about ElementIds and Peers: the ids of elements and the players  *)
(* that they name, for every number of elements and slots, every size of   *)
(* the id ranges and whatever players call themselves.                     *)
(***************************************************************************)
EXTENDS ElementIds, Peers, QueueLemmas

-----------------------------------------------------------------------------
(* The id ranges, for every size of the ranges and number of bands, and    *)
(* stacks of ids without duplicates.                                       *)

(* Dividing m by no more than m gives at least one.                        *)
LEMMA ProductPositive ==
    ASSUME NEW m \in Nat, NEW n \in Nat \ {0}, NEW q \in Int, NEW r \in 0 .. n - 1,
           m = n * q + r, m >= n
    PROVE  q >= 1 /\ n * q <= m
<1>1. CASE q >= 1 BY <1>1, SMT
<1>2. CASE q <= 0
  <2>1. n * q <= 0 BY <1>2, SMT
  <2>2. QED BY <2>1, SMT
<1>3. QED BY <1>1, <1>2

(* Every band has an id, and the bands fit the peer range.                 *)
LEMMA SlotBandSizeBounds ==
    /\ SlotBandSize \in Nat \ {0}
    /\ PeerBandCount * SlotBandSize <= MaxElements - HostRangeSize
<1> DEFINE M == MaxElements - HostRangeSize
<1>1. M \in Nat /\ PeerBandCount \in Nat \ {0} /\ M >= PeerBandCount
  BY IdRangesAssumption
<1>2. M = PeerBandCount * (M \div PeerBandCount) + (M % PeerBandCount)
      /\ M % PeerBandCount \in 0 .. PeerBandCount - 1 /\ M \div PeerBandCount \in Int
  BY <1>1
<1> HIDE DEF M
<1>3. (M \div PeerBandCount) >= 1 /\ PeerBandCount * (M \div PeerBandCount) <= M
  BY <1>1, <1>2, ProductPositive
<1>4. SlotBandSize = M \div PeerBandCount BY DEF SlotBandSize, M
<1>5. QED BY <1>2, <1>3, <1>4 DEF M

(* Multiplication by a natural number is monotone.                         *)
LEMMA ProductMonotone ==
    ASSUME NEW a \in Nat, NEW b \in Nat, NEW n \in Nat, a <= b
    PROVE  a * n <= b * n /\ a * n \in Nat
<1>1. (b - a) * n >= 0 BY SMT
<1>2. (b - a) * n = b * n - a * n BY SMT
<1>3. QED BY <1>1, <1>2, SMT

(* Every band is a non-empty piece of the peer range, and the bands follow *)
(* each other.                                                             *)
LEMMA BandBounds ==
    ASSUME NEW b \in PeerSlotIds
    PROVE  /\ BandBase(b) \in Nat /\ BandEnd(b) \in Nat
           /\ HostRangeSize <= BandBase(b)
           /\ BandBase(b) + SlotBandSize <= BandEnd(b)
           /\ BandBase(b) < BandEnd(b)
           /\ BandEnd(b) <= MaxElements
<1> DEFINE S == SlotBandSize
<1>1. S \in Nat \ {0} /\ PeerBandCount * S <= MaxElements - HostRangeSize
  BY SlotBandSizeBounds
<1>2. b \in Nat /\ b + 1 \in Nat /\ b + 1 <= PeerBandCount /\ PeerBandCount \in Nat
      /\ HostRangeSize \in Nat /\ MaxElements \in Nat
  BY IdRangesAssumption DEF PeerSlotIds
<1> HIDE DEF S
<1>3. (b + 1) * S <= PeerBandCount * S /\ b * S \in Nat
  BY <1>1, <1>2, ProductMonotone
<1>4. (b + 1) * S = b * S + S BY <1>1, <1>2, SMT
<1>5. BandBase(b) = HostRangeSize + b * S BY DEF BandBase, S
<1>6. BandEnd(b) = IF b + 1 = PeerBandCount THEN MaxElements ELSE BandBase(b) + S
  BY DEF BandEnd, S
<1> DEFINE P == b * S Q == PeerBandCount * S
<1>7. P \in Nat /\ P + S <= Q /\ Q <= MaxElements - HostRangeSize /\ Q \in Nat
  BY <1>1, <1>2, <1>3, <1>4, ProductMonotone
<1>8. BandBase(b) = HostRangeSize + P BY <1>5
<1> HIDE DEF P, Q
<1>9. BandEnd(b) \in {MaxElements, HostRangeSize + P + S} BY <1>2, <1>6, <1>8
<1>10. P + S <= MaxElements - HostRangeSize BY <1>1, <1>2, <1>7
<1>11. S = SlotBandSize BY DEF S
<1>12. QED BY <1>1, <1>2, <1>7, <1>8, <1>9, <1>10, <1>11

(* A band ends before the bands of higher slots begin.                     *)
LEMMA BandsOrdered ==
    ASSUME NEW a \in PeerSlotIds, NEW b \in PeerSlotIds, a < b
    PROVE  BandEnd(a) <= BandBase(b)
<1> DEFINE S == SlotBandSize
<1>1. S \in Nat BY SlotBandSizeBounds
<1>2. a \in Nat /\ b \in Nat /\ a + 1 \in Nat /\ a + 1 <= b /\ a + 1 # PeerBandCount
      /\ HostRangeSize \in Nat
  BY IdRangesAssumption DEF PeerSlotIds
<1> HIDE DEF S
<1>3. (a + 1) * S <= b * S BY <1>1, <1>2, ProductMonotone
<1>4. (a + 1) * S = a * S + S BY <1>1, <1>2, SMT
<1>5. a * S \in Nat /\ b * S \in Nat BY <1>1, <1>2, ProductMonotone
<1>6. BandEnd(a) = HostRangeSize + a * S + S /\ BandBase(b) = HostRangeSize + b * S
  BY <1>2 DEF BandEnd, BandBase, S
<1> DEFINE P == a * S Q == b * S
<1>7. P + S <= Q /\ P \in Nat /\ Q \in Nat BY <1>3, <1>4, <1>5
<1>8. BandEnd(a) = HostRangeSize + P + S /\ BandBase(b) = HostRangeSize + Q BY <1>6
<1> HIDE DEF P, Q
<1>9. QED BY <1>1, <1>2, <1>7, <1>8

(* Two clients that hold different slots mint from disjoint sets of ids,   *)
(* and neither mints a pre-slot id or a host id (registry.h:54-57).        *)
THEOREM BandsDisjoint ==
    ASSUME NEW a \in PeerSlotIds, NEW b \in PeerSlotIds
    PROVE  /\ a # b => Band(a) \cap Band(b) = {}
           /\ Band(a) \cap HostMintIds = {}
           /\ Band(a) \subseteq Ids
           /\ Band(a) \subseteq Nat
<1>1. a # b => a < b \/ b < a
  BY IdRangesAssumption DEF PeerSlotIds
<1>2. HostRangeSize \in Nat /\ MaxElements \in Nat BY IdRangesAssumption
<1>3. a < b => Band(a) \cap Band(b) = {}
  BY BandBounds, BandsOrdered DEF Band
<1>4. b < a => Band(a) \cap Band(b) = {}
  BY BandBounds, BandsOrdered DEF Band
<1>5. Band(a) \cap HostMintIds = {} BY <1>2, BandBounds DEF Band, HostMintIds
<1>6. Band(a) \subseteq Ids /\ Band(a) \subseteq Nat BY <1>2, BandBounds DEF Band, Ids
<1>7. QED BY <1>1, <1>3, <1>4, <1>5, <1>6

-----------------------------------------------------------------------------
(* A range pushed in descending order is a stack of its ids, each once.    *)
LEMMA DescendingStackProperties ==
    ASSUME NEW lo \in Nat, NEW hi \in Nat, lo <= hi
    PROVE  /\ DescendingStack(lo, hi) \in Seq(lo .. hi - 1)
           /\ IsInjective(DescendingStack(lo, hi))
           /\ ToSet(DescendingStack(lo, hi)) = lo .. hi - 1
<1> DEFINE s == DescendingStack(lo, hi)
<1>1. s = [i \in 1 .. hi - lo |-> hi - i] BY DEF DescendingStack
<1>2. hi - lo \in Nat /\ \A i \in 1 .. hi - lo : hi - i \in lo .. hi - 1 OBVIOUS
<1>3. s \in [1 .. hi - lo -> lo .. hi - 1] BY <1>1, <1>2
<1>4. s \in Seq(lo .. hi - 1) BY <1>2, <1>3, SeqDef
<1>5. IsInjective(s) BY <1>1 DEF IsInjective
<1>6. ToSet(s) \subseteq lo .. hi - 1 BY <1>3 DEF ToSet
<1>7. ASSUME NEW id \in lo .. hi - 1 PROVE id \in ToSet(s)
  <2>1. hi - id \in 1 .. hi - lo /\ hi - (hi - id) = id OBVIOUS
  <2>2. QED BY <1>1, <2>1 DEF ToSet
<1>8. QED BY <1>4, <1>5, <1>6, <1>7

(* Popping takes exactly the last id off a stack without duplicates.       *)
LEMMA PopProperties ==
    ASSUME NEW S, NEW s \in Seq(S), s # <<>>, IsInjective(s)
    PROVE  /\ Front(s) \in Seq(S)
           /\ IsInjective(Front(s))
           /\ Last(s) \in ToSet(s) /\ Last(s) \in S
           /\ ToSet(Front(s)) = ToSet(s) \ {Last(s)}
<1> DEFINE n == Len(s)
<1>1. n \in Nat \ {0} /\ DOMAIN s = 1 .. n /\ \A i \in 1 .. n : s[i] \in S
  BY EmptySeq, LenProperties, ElementOfSeq
<1>2. /\ Front(s) \in Seq(S)
      /\ Len(Front(s)) = n - 1
      /\ \A i \in 1 .. n - 1 : Front(s)[i] = s[i]
  BY <1>1, SubSeqProperties DEF Front
<1>3. DOMAIN Front(s) = 1 .. n - 1 BY <1>2, LenProperties
<1> HIDE DEF n
<1>4. IsInjective(Front(s))
  BY <1>1, <1>2, <1>3 DEF IsInjective
<1>5. Last(s) = s[n] /\ n \in DOMAIN s BY <1>1 DEF Last, n
<1>6. ToSet(Front(s)) = {s[i] : i \in 1 .. n - 1} BY <1>2, <1>3 DEF ToSet
<1>7. \A i \in 1 .. n - 1 : s[i] # s[n] BY <1>1 DEF IsInjective
<1>8. ToSet(s) = {s[i] : i \in 1 .. n} BY <1>1 DEF ToSet
<1>9. \A i \in 1 .. n : i = n \/ i \in 1 .. n - 1 BY <1>1
<1>10. ToSet(Front(s)) = ToSet(s) \ {Last(s)}
  BY <1>1, <1>5, <1>6, <1>7, <1>8, <1>9
<1>11. QED BY <1>1, <1>2, <1>4, <1>5, <1>10 DEF ToSet

(* Pushing an id that is not on the stack adds exactly that id.            *)
LEMMA PushProperties ==
    ASSUME NEW S, NEW s \in Seq(S), NEW x \in S
    PROVE  /\ Append(s, x) \in Seq(S)
           /\ ToSet(Append(s, x)) = ToSet(s) \cup {x}
           /\ IsInjective(s) /\ x \notin ToSet(s) => IsInjective(Append(s, x))
<1> DEFINE n == Len(s) a == Append(s, x)
<1>1. n \in Nat /\ DOMAIN s = 1 .. n BY LenProperties
<1>2. /\ a \in Seq(S) /\ Len(a) = n + 1
      /\ \A i \in 1 .. n : a[i] = s[i]
      /\ a[n + 1] = x
  BY AppendProperties
<1>3. DOMAIN a = 1 .. n + 1 BY <1>2, LenProperties
<1> HIDE DEF n, a
<1>4. \A i \in 1 .. n + 1 : i = n + 1 \/ i \in 1 .. n BY <1>1
<1>5. ToSet(a) = {a[i] : i \in 1 .. n + 1} /\ ToSet(s) = {s[i] : i \in 1 .. n}
  BY <1>1, <1>3 DEF ToSet
<1>6. ToSet(a) = ToSet(s) \cup {x}
  <2>1. ToSet(a) \subseteq ToSet(s) \cup {x} BY <1>2, <1>4, <1>5
  <2>2. \A i \in 1 .. n : i \in 1 .. n + 1 BY <1>1
  <2>3. n + 1 \in 1 .. n + 1 BY <1>1
  <2>4. ToSet(s) \cup {x} \subseteq ToSet(a) BY <1>2, <1>5, <2>2, <2>3
  <2>5. QED BY <2>1, <2>4
<1>7. ASSUME IsInjective(s), x \notin ToSet(s) PROVE IsInjective(a)
  BY <1>1, <1>2, <1>3, <1>4, <1>5, <1>7 DEF IsInjective
<1>8. QED BY <1>2, <1>6, <1>7 DEF a

-----------------------------------------------------------------------------
(* The element layer.                                                      *)

(* What the assumptions on the constants come to.                          *)
LEMMA ConstantFacts ==
    /\ Null \notin Elements /\ Prop # Npc
    /\ HostRangeSize \in Nat /\ MaxElements \in Nat /\ HostRangeSize <= MaxElements
    /\ HostRangeSize > 1 /\ PeerBandCount \in Nat /\ PeerBandCount > 1
    /\ InvalidId \notin Ids
    /\ 0 \in PeerSlotIds
BY IdRangesAssumption, ElementIdsAssumption DEF InvalidId, Ids, PeerSlotIds

(* A wire id has an origin. *)
LEMMA OriginIsSlot ==
    ASSUME me \in PeerSlotIds, NEW id \in WireIds
    PROVE  Origin(id) \in PeerSlotIds
<1>1. CASE IsHostId(id)
  BY <1>1, ConstantFacts DEF Origin, HostSlot
<1>2. CASE ~ IsHostId(id)
  <2>1. id \notin HostMintIds BY <1>2, ConstantFacts DEF HostMintIds, IsHostId
  <2>2. \E s \in ClientSlotIds : id \in Band(s) BY <2>1 DEF WireIds
  <2>3. Origin(id) \in ClientSlotIds BY <1>2, <2>2 DEF Origin
  <2>4. QED BY <2>3 DEF ClientSlotIds
<1>3. QED BY <1>1, <1>2

(* The ids this process mints and the wire ids of its peers are disjoint.  *)
LEMMA IdAreas ==
    ASSUME me \in PeerSlotIds
    PROVE  /\ OwnIds \subseteq Ids /\ WireIds \subseteq Ids
           /\ OwnIds \cap WireIds = {}
           /\ \A id \in OwnIds : IsHostId(id) <=> IsHost
<1>1. \A a \in PeerSlotIds :
        Band(a) \subseteq Ids /\ Band(a) \cap HostMintIds = {} /\ \A id \in Band(a) : ~ IsHostId(id)
  BY BandsDisjoint, BandBounds, ConstantFacts DEF Band, IsHostId
<1>2. \A a, b \in PeerSlotIds : a # b => Band(a) \cap Band(b) = {}
  BY BandsDisjoint
<1>3. HostMintIds \subseteq Ids /\ \A id \in HostMintIds : IsHostId(id)
  BY ConstantFacts DEF HostMintIds, Ids, IsHostId
<1>4. ClientSlotIds \subseteq PeerSlotIds /\ 0 \notin ClientSlotIds
  BY DEF ClientSlotIds, HostSlot
<1>5. CASE IsHost
  <2>1. OwnIds = HostMintIds BY <1>5 DEF OwnIds
  <2>2. WireIds = UNION {Band(s) : s \in ClientSlotIds \ {me}} BY <1>5 DEF WireIds
  <2>3. QED BY <1>1, <1>3, <1>4, <1>5, <2>1, <2>2
<1>6. CASE ~ IsHost
  <2>1. OwnIds = Band(0) \cup Band(me) BY <1>6 DEF OwnIds
  <2>2. WireIds = HostMintIds \cup UNION {Band(s) : s \in ClientSlotIds \ {me}}
    BY <1>6 DEF WireIds
  <2>3. OwnIds \subseteq Ids /\ WireIds \subseteq Ids
    BY <1>1, <1>3, <1>4, <2>1, <2>2, ConstantFacts
  <2>4. OwnIds \cap HostMintIds = {} BY <1>1, <2>1, ConstantFacts
  <2>5. \A s \in ClientSlotIds \ {me} : OwnIds \cap Band(s) = {}
    BY <1>2, <1>4, <2>1, ConstantFacts
  <2>6. QED BY <1>1, <1>6, <2>1, <2>2, <2>3, <2>4, <2>5, ConstantFacts
<1>7. QED BY <1>5, <1>6

-----------------------------------------------------------------------------
(* Every variable keeps its type.                                          *)

(* The registry starts with well-typed stacks and empty tables.            *)
LEMMA InitTypeOK == Init => TypeOK
<1> SUFFICES ASSUME Init PROVE TypeOK OBVIOUS
<1> USE DEF Init
<1>1. hostFree \in Seq(Ids)
  <2>1. hostFree \in Seq(1 .. HostRangeSize - 1)
    BY DescendingStackProperties, ConstantFacts
  <2>2. 1 .. HostRangeSize - 1 \subseteq Ids BY ConstantFacts DEF Ids
  <2>3. QED BY <2>1, <2>2, SeqMonotonic
<1>2. localFree \in Seq(Ids)
  <2>0. BandBase(0) \in Nat /\ BandEnd(0) \in Nat /\ BandBase(0) <= BandEnd(0)
    BY BandBounds, ConstantFacts
  <2>1. localFree \in Seq(Band(0))
    BY <2>0, DescendingStackProperties DEF Band
  <2>2. Band(0) \subseteq Ids BY BandsDisjoint, ConstantFacts
  <2>3. QED BY <2>1, <2>2, SeqMonotonic
<1>3. QED
  BY <1>1, <1>2, ConstantFacts DEF TypeOK, Types, Stages, NoSlot

(* No operation of the registry or the owner maps leaves the types.        *)
LEMMA NextTypeOK == TypeOK /\ [Next]_vars => TypeOK'
<1> SUFFICES ASSUME TypeOK, [Next]_vars PROVE TypeOK' OBVIOUS
<1> USE DEF TypeOK
<1>1. CASE SetLocalPeerBand
  <2>0. BandBase(me) \in Nat /\ BandEnd(me) \in Nat /\ BandBase(me) <= BandEnd(me)
    BY BandBounds
  <2>1. DescendingStack(BandBase(me), BandEnd(me)) \in Seq(Band(me))
    BY <2>0, DescendingStackProperties DEF Band
  <2>2. Band(me) \subseteq Ids BY BandsDisjoint
  <2>3. localFree' \in Seq(Ids) BY <1>1, <2>1, <2>2, SeqMonotonic DEF SetLocalPeerBand
  <2>4. QED BY <1>1, <2>3 DEF SetLocalPeerBand, elementVars
<1>2. ASSUME NEW e \in Elements, NEW t \in Types, Alloc(e, t) PROVE TypeOK'
  <2>1. FreeStack \in Seq(Ids) /\ FreeStack # <<>> BY <1>2 DEF Alloc, FreeStack
  <2>2. Last(FreeStack) \in Ids /\ Front(FreeStack) \in Seq(Ids)
    BY <2>1, EmptySeq, LenProperties, ElementOfSeq, SubSeqProperties DEF Last, Front
  <2>3. hostFree' \in Seq(Ids) /\ localFree' \in Seq(Ids)
    BY <1>2, <2>2 DEF Alloc, PopFreeStack, FreeStack
  <2>4. QED BY <1>2, <2>2, <2>3 DEF Alloc, Stages
<1>3. ASSUME NEW e \in Elements, Emplace(e) PROVE TypeOK'
  <2>1. typeOf[e] \in Types /\ idOf[e] \in Ids \cup {InvalidId} OBVIOUS
  <2>2. [owner[typeOf[e]] EXCEPT ![idOf[e]] = e] \in [Ids -> Elements \cup {Null}]
    BY <2>1
  <2>3. [owner EXCEPT ![typeOf[e]][idOf[e]] = e] \in [Types -> [Ids -> Elements \cup {Null}]]
    BY <2>1, <2>2
  <2>4. owner' \in [Types -> [Ids -> Elements \cup {Null}]] BY <1>3, <2>3 DEF Emplace
  <2>5. stage' \in [Elements -> Stages] BY <1>3 DEF Emplace, Stages
  <2>6. QED BY <1>3, <2>4, <2>5 DEF Emplace, registryVars
<1>4. ASSUME NEW e \in Elements, NEW t \in Types, NEW id \in Ids, PlaceMirror(e, t, id)
      PROVE  TypeOK'
  <2>1. Origin(id) \in PeerSlotIds BY <1>4, OriginIsSlot DEF PlaceMirror
  <2>2. QED BY <1>4, <2>1 DEF PlaceMirror, registryVars, Stages
<1>5. ASSUME NEW e \in Elements, NEW id \in Ids, RegisterMirror(e, id) PROVE TypeOK'
  BY <1>5 DEF RegisterMirror, Stages
<1>6. ASSUME NEW e \in Elements, NEW id \in Ids, RollBackInstall(e, id) PROVE TypeOK'
  BY <1>6 DEF RollBackInstall, registryVars, Stages
<1>7. ASSUME NEW t \in Types, NEW id \in Ids, TakeInline(t, id) PROVE TypeOK'
  BY <1>7 DEF TakeInline, registryVars, Stages, Owned
<1>8. ASSUME NEW t \in Types, NEW id \in Ids, TakeDeferred(t, id) PROVE TypeOK'
  BY <1>8 DEF TakeDeferred, registryVars, Stages, Owned
<1>9. CASE DrainMirrorsOnly
  BY <1>9 DEF DrainMirrorsOnly, Drain, registryVars, Stages, Types
<1>10. ASSUME NEW s \in PeerSlotIds, DrainMirrorsForSlot(s) PROVE TypeOK'
  BY <1>10 DEF DrainMirrorsForSlot, Drain, registryVars, Stages, Types
<1>11. CASE DrainAll
  BY <1>11 DEF DrainAll, Drain, registryVars, Stages, Types
<1>12. CASE Flush
  BY <1>12 DEF Flush, registryVars, Stages
<1>13. ASSUME NEW e \in Elements, Destroy(e) PROVE TypeOK'
  <2>1. byId' \in [Ids -> Elements \cup {Null}]
    BY <1>13 DEF Destroy, UnregisterMirror, FreeId
  <2>2. hostFree' \in Seq(Ids) /\ localFree' \in Seq(Ids)
    <3>1. CASE idOf[e] = InvalidId BY <1>13, <3>1 DEF Destroy
    <3>2. CASE idOf[e] # InvalidId
      <4>1. idOf[e] \in Ids BY <3>2
      <4>2. Append(hostFree, idOf[e]) \in Seq(Ids) /\ Append(localFree, idOf[e]) \in Seq(Ids)
        BY <4>1, AppendProperties
      <4>3. QED BY <1>13, <3>2, <4>2 DEF Destroy, UnregisterMirror, FreeId
    <3>3. QED BY <3>1, <3>2
  <2>3. QED BY <1>13, <2>1, <2>2 DEF Destroy, Stages, Types, NoSlot
<1>14. CASE UNCHANGED vars BY <1>14 DEF vars, registryVars, elementVars
<1>15. QED
  BY <1>1, <1>2, <1>3, <1>4, <1>5, <1>6, <1>7, <1>8, <1>9, <1>10, <1>11,
     <1>12, <1>13, <1>14 DEF Next

(* Type correctness of the element layer. *)
THEOREM TypeCorrect == Spec => []TypeOK
BY InitTypeOK, NextTypeOK, PTL DEF Spec

-----------------------------------------------------------------------------
(* The inductive invariant.  First the facts several actions need.         *)

(* What the process has minted so far is its own, never a wire id.         *)
LEMMA MintedAreOwn ==
    ASSUME me \in PeerSlotIds, activeBand \in {0, me}
    PROVE  MintedIds \subseteq OwnIds /\ MintedIds \cap WireIds = {} /\ MintedIds \subseteq Ids
BY IdAreas DEF MintedIds, OwnIds

(* A step that leaves the registry and the elements' ids alone keeps the   *)
(* two conjuncts about them.                                               *)
LEMMA IdsFrame ==
    ASSUME IInv, UNCHANGED <<me, registryVars, idOf, isMirror>>
    PROVE  IdsConsistent' /\ StackConsistent'
<1>1. UNCHANGED <<me, byId, hostFree, localFree, activeBand, idOf, isMirror>>
  BY DEF registryVars
<1>2. UNCHANGED <<IsHost, MintedIds, WireIds, FreeStack>>
  BY <1>1 DEF IsHost, MintedIds, WireIds, FreeStack
<1>3. QED BY <1>1, <1>2 DEF IInv, IdsConsistent, StackConsistent

(* What is in no owner map. *)
LEMMA Unowned ==
    ASSUME IInv, NEW e \in Elements, stage[e] \notin {"placed", "losing", "owned"}
    PROVE  \A t \in Types, id \in Ids : owner[t][id] # e
BY ConstantFacts DEF IInv, OwnersConsistent, Owned

(* An element is in one owner map at most, under one id. *)
LEMMA OwnedOnce ==
    ASSUME IInv, NEW e \in Elements, NEW t \in Types, NEW id \in Ids, owner[t][id] = e
    PROVE  /\ typeOf[e] = t
           /\ \A u \in Types, j \in Ids : owner[u][j] = e => u = t /\ j = id
BY ConstantFacts DEF IInv, OwnersConsistent, Owned

(* Taking an element out of its owner map, on the way to destruction.      *)
LEMMA TakeKeepsIInv ==
    ASSUME IInv, TypeOK', NEW t \in Types, NEW id \in Ids, Owned(t, id),
           NEW next \in {"doomed", "queued"},
           next = "queued" => idOf[owner[t][id]] # InvalidId,
           owner' = [owner EXCEPT ![t][id] = Null],
           stage' = [stage EXCEPT ![owner[t][id]] = next],
           UNCHANGED <<me, registryVars, typeOf, idOf, isMirror, ownerSlot>>
    PROVE  IInv'
<1> DEFINE e == owner[t][id]
<1>1. e \in Elements /\ TypeOK BY DEF IInv, TypeOK, Owned
<1>2. IdsConsistent' /\ StackConsistent' BY IdsFrame
<1>3. StagesConsistent'
  BY <1>1 DEF IInv, StagesConsistent, TypeOK
<1>4. \A u \in Types, j \in Ids :
        owner'[u][j] = IF u = t /\ j = id THEN Null ELSE owner[u][j]
  BY <1>1 DEF TypeOK
<1>5. \A u \in Types, j \in Ids :
        Owned(u, j)' => owner'[u][j] = owner[u][j] /\ owner[u][j] # e /\ owner[u][j] \in Elements
  BY <1>1, <1>4, OwnedOnce DEF Owned, TypeOK
<1>6. \A u \in Types, j \in Ids : Owned(u, j)' => stage'[owner'[u][j]] = stage[owner[u][j]]
  BY <1>1, <1>5 DEF TypeOK
<1>7. WireIds' = WireIds BY DEF WireIds, IsHost
<1>8. OwnersConsistent'
  BY <1>5, <1>6, <1>7 DEF IInv, OwnersConsistent, Owned
<1>9. QED BY <1>2, <1>3, <1>8 DEF IInv

(* Draining a set of elements out of an owner map.                         *)
LEMMA DrainKeepsIInv ==
    ASSUME IInv, TypeOK', NEW t \in Types, NEW out \in SUBSET Elements,
           \A e \in out : \E id \in Ids : owner[t][id] = e,
           owner' = [owner EXCEPT ![t] =
                       [id \in Ids |-> IF owner[t][id] \in out THEN Null ELSE owner[t][id]]],
           stage' = [e \in Elements |-> IF e \in out THEN "doomed" ELSE stage[e]],
           UNCHANGED <<me, registryVars, typeOf, idOf, isMirror, ownerSlot>>
    PROVE  IInv'
<1>1. TypeOK BY DEF IInv
<1>2. IdsConsistent' /\ StackConsistent' BY IdsFrame
<1>3. StagesConsistent' BY <1>1 DEF IInv, StagesConsistent, TypeOK
<1>4. \A u \in Types, j \in Ids :
        owner'[u][j] = IF u = t /\ owner[u][j] \in out THEN Null ELSE owner[u][j]
  BY <1>1 DEF TypeOK
<1>5. \A u \in Types, j \in Ids :
        Owned(u, j)' => owner'[u][j] = owner[u][j] /\ owner[u][j] \in Elements \ out
  BY <1>1, <1>4, OwnedOnce DEF Owned, TypeOK
<1>6. \A u \in Types, j \in Ids : Owned(u, j)' => stage'[owner'[u][j]] = stage[owner[u][j]]
  BY <1>5
<1>7. WireIds' = WireIds BY DEF WireIds, IsHost
<1>8. OwnersConsistent'
  BY <1>5, <1>6, <1>7 DEF IInv, OwnersConsistent, Owned
<1>9. QED BY <1>2, <1>3, <1>8 DEF IInv

(* The inductive invariant holds of an empty registry.                     *)
LEMMA InitIInv == Init => IInv
<1> SUFFICES ASSUME Init PROVE IInv OBVIOUS
<1> USE DEF Init
<1>1. TypeOK BY InitTypeOK
<1>2. IdsConsistent /\ StagesConsistent /\ OwnersConsistent
  BY ConstantFacts DEF IdsConsistent, StagesConsistent, OwnersConsistent, Owned, Types
<1>3. IsInjective(hostFree) /\ ToSet(hostFree) = HostMintIds
  BY DescendingStackProperties, ConstantFacts DEF HostMintIds
<1>4. IsInjective(localFree) /\ ToSet(localFree) = Band(0)
  <2>1. BandBase(0) \in Nat /\ BandEnd(0) \in Nat /\ BandBase(0) <= BandEnd(0)
    BY BandBounds, ConstantFacts
  <2>2. QED BY <2>1, DescendingStackProperties DEF Band
<1>5. HostMintIds \subseteq Ids /\ Band(0) \subseteq Ids
  BY BandsDisjoint, ConstantFacts DEF HostMintIds, Ids
<1>6. StackConsistent
  BY <1>3, <1>4, <1>5 DEF StackConsistent, FreeStack, MintedIds
<1>7. QED BY <1>1, <1>2, <1>6 DEF IInv

(* Nothing is bound in the band a client is about to activate. *)
LEMMA NewBandUnbound ==
    ASSUME IInv, ~ IsHost, activeBand # me, NEW id \in Band(me)
    PROVE  id \in Ids /\ byId[id] = Null
<1>1. me \in PeerSlotIds /\ activeBand = 0 /\ me # 0 /\ TypeOK
  BY DEF IInv, TypeOK, IdsConsistent, IsHost, HostSlot
<1>2. id \in Ids /\ id \notin Band(0) BY <1>1, BandsDisjoint, ConstantFacts
<1>3. id \in OwnIds BY DEF OwnIds
<1>4. id \notin WireIds BY <1>1, <1>3, IdAreas
<1>5. id \notin MintedIds BY <1>1, <1>2 DEF MintedIds
<1>6. ASSUME byId[id] # Null PROVE FALSE
  <2>1. byId[id] \in Elements /\ idOf[byId[id]] = id
    BY <1>1, <1>2, <1>6 DEF IInv, IdsConsistent, TypeOK
  <2>2. QED BY <1>2, <1>4, <1>5, <2>1, ConstantFacts DEF IInv, IdsConsistent
<1>7. QED BY <1>2, <1>6

(* The band switch replaces the free stack by the new band's, whose ids are *)
(* all unused.                                                             *)
LEMMA SetLocalPeerBandKeepsIInv ==
    ASSUME IInv, TypeOK', SetLocalPeerBand
    PROVE  IInv'
<1> USE DEF SetLocalPeerBand, elementVars
<1>1. me \in PeerSlotIds /\ activeBand \in {0, me} /\ TypeOK
  BY DEF IInv, TypeOK, IdsConsistent
<1>2. StagesConsistent' BY DEF IInv, StagesConsistent
<1>3. WireIds' = WireIds /\ IsHost' = IsHost BY DEF WireIds, IsHost
<1>4. OwnersConsistent' BY <1>3 DEF IInv, OwnersConsistent, Owned
<1>5. MintedIds \subseteq MintedIds'
  <2>1. MintedIds = Band(0) BY <1>1 DEF MintedIds, SetLocalPeerBand
  <2>2. MintedIds' = Band(0) \cup Band(me) BY <1>3 DEF MintedIds, SetLocalPeerBand
  <2>3. QED BY <2>1, <2>2
<1>6. IdsConsistent' BY <1>3, <1>5 DEF IInv, IdsConsistent
<1>7. IsInjective(localFree') /\ ToSet(localFree') = Band(me)
  <2>1. BandBase(me) \in Nat /\ BandEnd(me) \in Nat /\ BandBase(me) <= BandEnd(me)
    BY <1>1, BandBounds
  <2>2. QED BY <2>1, DescendingStackProperties DEF Band
<1>8. FreeStack' = localFree' /\ ~ IsHost' /\ activeBand' = me
  BY <1>3 DEF FreeStack
<1>9. MintedIds' = Band(0) \cup Band(me) BY <1>8 DEF MintedIds
<1>10. StackConsistent'
  BY <1>7, <1>8, <1>9, NewBandUnbound DEF StackConsistent
<1>11. QED BY <1>2, <1>4, <1>6, <1>10 DEF IInv

(* The free stack after a pop: the popped id is gone, the rest stays.      *)
LEMMA PopStack ==
    ASSUME IInv, FreeStack # <<>>, PopFreeStack, UNCHANGED <<me, activeBand>>
    PROVE  /\ Last(FreeStack) \in MintedIds /\ Last(FreeStack) \in Ids
           /\ Last(FreeStack) \in ToSet(FreeStack)
           /\ byId[Last(FreeStack)] = Null
           /\ IsInjective(FreeStack')
           /\ ToSet(FreeStack') = ToSet(FreeStack) \ {Last(FreeStack)}
<1>1. FreeStack \in Seq(Ids) BY DEF IInv, TypeOK, FreeStack
<1>2. FreeStack' = Front(FreeStack) BY DEF FreeStack, PopFreeStack, IsHost
<1>3. IsInjective(FreeStack) BY DEF IInv, StackConsistent
<1>4. QED BY <1>1, <1>2, <1>3, PopProperties DEF IInv, StackConsistent

(* The popped id was unused, and leaves the stack as the element takes it. *)
LEMMA AllocKeepsIInv ==
    ASSUME IInv, TypeOK', NEW e \in Elements, NEW t \in Types, Alloc(e, t)
    PROVE  IInv'
<1> DEFINE id == Last(FreeStack)
<1>1. /\ id \in MintedIds /\ id \in Ids /\ id \in ToSet(FreeStack) /\ byId[id] = Null
      /\ IsInjective(FreeStack')
      /\ ToSet(FreeStack') = ToSet(FreeStack) \ {id}
  BY PopStack DEF Alloc
<1>2. TypeOK /\ stage[e] = "none" /\ idOf[e] = InvalidId /\ ~ isMirror[e]
  BY DEF IInv, StagesConsistent, Alloc
<1> HIDE DEF id
<1>3. /\ byId' = [byId EXCEPT ![id] = e]
      /\ stage' = [stage EXCEPT ![e] = "minted"]
      /\ typeOf' = [typeOf EXCEPT ![e] = t]
      /\ idOf' = [idOf EXCEPT ![e] = id]
      /\ UNCHANGED <<me, activeBand, owner, isMirror>>
  BY <1>1 DEF Alloc, id
<1>4. UNCHANGED <<IsHost, MintedIds, WireIds>> BY <1>3 DEF IsHost, MintedIds, WireIds
<1>5. IdsConsistent'
  BY <1>1, <1>2, <1>3, <1>4, ConstantFacts DEF IInv, IdsConsistent, TypeOK
<1>6. StagesConsistent'
  BY <1>1, <1>2, <1>3, ConstantFacts DEF IInv, StagesConsistent, TypeOK
<1>7. \A u \in Types, j \in Ids : owner[u][j] # e BY <1>2, Unowned
<1>8. OwnersConsistent'
  BY <1>2, <1>3, <1>4, <1>7 DEF IInv, OwnersConsistent, Owned, TypeOK
<1>9. StackConsistent'
  BY <1>1, <1>2, <1>3, <1>4, ConstantFacts DEF IInv, StackConsistent, TypeOK
<1>10. QED BY <1>5, <1>6, <1>8, <1>9 DEF IInv

(* A minted id is in no owner map yet, so the element is placed under it.  *)
LEMMA EmplaceKeepsIInv ==
    ASSUME IInv, TypeOK', NEW e \in Elements, Emplace(e)
    PROVE  IInv'
<1> DEFINE t == typeOf[e] id == idOf[e]
<1>1. TypeOK /\ stage[e] = "minted" /\ id \in Ids /\ t \in Types
  BY DEF IInv, TypeOK, StagesConsistent, Emplace
<1>2. IdsConsistent' /\ StackConsistent' BY IdsFrame DEF Emplace
<1>3. UNCHANGED <<me, registryVars, typeOf, idOf, isMirror>> BY DEF Emplace
<1>4. \A u \in Types, j \in Ids : owner[u][j] # e BY <1>1, Unowned
<1>5. WireIds' = WireIds BY <1>3 DEF WireIds, IsHost
<1>6. CASE Owned(t, id)
  <2>1. stage' = [stage EXCEPT ![e] = "doomed"] /\ owner' = owner BY <1>6 DEF Emplace
  <2>2. StagesConsistent' BY <1>1, <1>3, <2>1 DEF IInv, StagesConsistent, TypeOK
  <2>3. OwnersConsistent'
    BY <1>1, <1>3, <1>4, <1>5, <2>1 DEF IInv, OwnersConsistent, Owned, TypeOK
  <2>4. QED BY <1>2, <2>2, <2>3 DEF IInv
<1>7. CASE ~ Owned(t, id)
  <2>1. stage' = [stage EXCEPT ![e] = "owned"] /\ owner' = [owner EXCEPT ![t][id] = e]
    BY <1>7 DEF Emplace
  <2>2. StagesConsistent' BY <1>1, <1>3, <2>1 DEF IInv, StagesConsistent, TypeOK
  <2>3. \A u \in Types, j \in Ids :
          owner'[u][j] = IF u = t /\ j = id THEN e ELSE owner[u][j]
    BY <1>1, <2>1 DEF TypeOK
  <2>4. \A d \in Elements : stage'[d] = IF d = e THEN "owned" ELSE stage[d]
    BY <1>1, <2>1 DEF TypeOK
  <2>5. \A u \in Types, j \in Ids : owner[u][j] \in Elements \cup {Null}
    BY <1>1 DEF TypeOK
  <2>6. OwnersConsistent'
    BY <1>1, <1>3, <1>4, <1>5, <2>3, <2>4, <2>5, ConstantFacts
       DEF IInv, OwnersConsistent, Owned
  <2>7. QED BY <1>2, <2>2, <2>6 DEF IInv
<1>8. QED BY <1>6, <1>7

(* Install places an element that has no id under a free wire id.          *)
LEMMA PlaceMirrorKeepsIInv ==
    ASSUME IInv, TypeOK', NEW e \in Elements, NEW t \in Types, NEW id \in Ids,
           PlaceMirror(e, t, id)
    PROVE  IInv'
<1>1. TypeOK /\ stage[e] = "none" /\ id \in WireIds /\ ~ Owned(t, id)
  BY DEF IInv, PlaceMirror
<1>2. IdsConsistent' /\ StackConsistent' BY IdsFrame DEF PlaceMirror
<1>3. /\ UNCHANGED <<me, registryVars, idOf, isMirror>>
      /\ stage' = [stage EXCEPT ![e] = "placed"]
      /\ typeOf' = [typeOf EXCEPT ![e] = t]
      /\ owner' = [owner EXCEPT ![t][id] = e]
  BY DEF PlaceMirror
<1>4. \A u \in Types, j \in Ids : owner[u][j] # e BY <1>1, Unowned
<1>5. WireIds' = WireIds BY <1>3 DEF WireIds, IsHost
<1>6. StagesConsistent' BY <1>1, <1>3 DEF IInv, StagesConsistent, TypeOK
<1>7. \A u \in Types, j \in Ids :
        owner'[u][j] = IF u = t /\ j = id THEN e ELSE owner[u][j]
  BY <1>1, <1>3 DEF TypeOK
<1>8. \A d \in Elements : /\ stage'[d] = IF d = e THEN "placed" ELSE stage[d]
                          /\ typeOf'[d] = IF d = e THEN t ELSE typeOf[d]
  BY <1>1, <1>3 DEF TypeOK
<1>9. \A u \in Types, j \in Ids : owner[u][j] \in Elements \cup {Null}
  BY <1>1 DEF TypeOK
<1>10. OwnersConsistent'
  BY <1>1, <1>3, <1>4, <1>5, <1>7, <1>8, <1>9, ConstantFacts
     DEF IInv, OwnersConsistent, Owned
<1>11. QED BY <1>2, <1>6, <1>10 DEF IInv

(* A mirror takes an id that resolves to nothing, or none.                 *)
LEMMA RegisterMirrorKeepsIInv ==
    ASSUME IInv, TypeOK', NEW e \in Elements, NEW id \in Ids, RegisterMirror(e, id)
    PROVE  IInv'
<1>1. /\ TypeOK /\ stage[e] = "placed" /\ idOf[e] = InvalidId /\ ~ isMirror[e]
      /\ typeOf[e] \in Types /\ owner[typeOf[e]][id] = e
  BY DEF IInv, TypeOK, StagesConsistent, RegisterMirror, HeldUnder
<1>2. id \in WireIds BY <1>1, ConstantFacts DEF IInv, OwnersConsistent, Owned
<1>3. \A u \in Types, j \in Ids : owner[u][j] = e => u = typeOf[e] /\ j = id
  BY <1>1, OwnedOnce
<1>4. UNCHANGED <<me, hostFree, localFree, activeBand, owner, typeOf>>
  BY DEF RegisterMirror
<1>5. UNCHANGED <<IsHost, MintedIds, WireIds, FreeStack>>
  BY <1>4 DEF IsHost, MintedIds, WireIds, FreeStack
<1>6. id \notin MintedIds
  BY <1>1, <1>2, MintedAreOwn DEF IInv, TypeOK, IdsConsistent
<1>7. CASE byId[id] = Null
  <2>1. /\ byId' = [byId EXCEPT ![id] = e]
        /\ idOf' = [idOf EXCEPT ![e] = id]
        /\ isMirror' = [isMirror EXCEPT ![e] = TRUE]
        /\ stage' = [stage EXCEPT ![e] = "owned"]
    BY <1>7 DEF RegisterMirror
  <2>2. IdsConsistent'
    BY <1>1, <1>2, <1>4, <1>5, <1>7, <2>1, ConstantFacts DEF IInv, IdsConsistent, TypeOK
  <2>3. StagesConsistent'
    BY <1>1, <2>1, ConstantFacts DEF IInv, StagesConsistent, TypeOK
  <2>4. OwnersConsistent'
    BY <1>1, <1>2, <1>3, <1>4, <1>5, <2>1 DEF IInv, OwnersConsistent, Owned, TypeOK
  <2>5. StackConsistent'
    <3>1. \A j \in MintedIds : byId'[j] = byId[j] /\ j \in Ids
      BY <1>1, <1>6, <2>1, MintedAreOwn DEF IInv, TypeOK, IdsConsistent
    <3>2. (IF IsHost THEN HostMintIds ELSE Band(activeBand)) \subseteq MintedIds
      BY DEF MintedIds
    <3>3. QED BY <1>4, <1>5, <3>1, <3>2 DEF IInv, StackConsistent
  <2>6. QED BY <2>2, <2>3, <2>4, <2>5 DEF IInv
<1>8. CASE byId[id] # Null
  <2>1. stage' = [stage EXCEPT ![e] = "losing"] /\ UNCHANGED <<byId, idOf, isMirror>>
    BY <1>8 DEF RegisterMirror
  <2>2. IdsConsistent' /\ StackConsistent' BY <1>4, <2>1, IdsFrame DEF registryVars
  <2>3. StagesConsistent' BY <1>1, <2>1 DEF IInv, StagesConsistent, TypeOK
  <2>4. OwnersConsistent'
    BY <1>1, <1>2, <1>3, <1>4, <1>5, <2>1 DEF IInv, OwnersConsistent, Owned, TypeOK
  <2>5. QED BY <2>2, <2>3, <2>4 DEF IInv
<1>9. QED BY <1>7, <1>8

(* A flush changes stages only.                                            *)
LEMMA FlushKeepsIInv ==
    ASSUME IInv, TypeOK', Flush
    PROVE  IInv'
<1> USE DEF Flush
<1>1. IdsConsistent' /\ StackConsistent' BY IdsFrame
<1>2. StagesConsistent' BY DEF IInv, StagesConsistent
<1>3. WireIds' = WireIds BY DEF WireIds, IsHost
<1>4. \A t \in Types, id \in Ids : Owned(t, id) => stage'[owner[t][id]] = stage[owner[t][id]]
  <2>1. TAKE t \in Types, id \in Ids
  <2>2. HAVE Owned(t, id)
  <2>3. owner[t][id] \in Elements /\ stage[owner[t][id]] \in {"placed", "losing", "owned"}
    BY <2>2 DEF IInv, TypeOK, OwnersConsistent, Owned
  <2>4. QED BY <2>3
<1>5. OwnersConsistent' BY <1>3, <1>4 DEF IInv, OwnersConsistent, Owned
<1>6. QED BY <1>1, <1>2, <1>5 DEF IInv

(* ~Element of an element that had no id, of a mirror, and of an element   *)
(* minted here.                                                            *)
LEMMA DestroyKeepsIInv ==
    ASSUME IInv, TypeOK', NEW e \in Elements, Destroy(e)
    PROVE  IInv'
<1> DEFINE id == idOf[e]
<1>1. TypeOK /\ stage[e] = "doomed" BY DEF IInv, Destroy
<1>2. /\ stage' = [stage EXCEPT ![e] = "none"]
      /\ typeOf' = [typeOf EXCEPT ![e] = Prop]
      /\ idOf' = [idOf EXCEPT ![e] = InvalidId]
      /\ isMirror' = [isMirror EXCEPT ![e] = FALSE]
      /\ UNCHANGED <<me, activeBand, owner>>
  BY DEF Destroy
<1>3. UNCHANGED <<IsHost, MintedIds, WireIds>> BY <1>2 DEF IsHost, MintedIds, WireIds
<1>4. \A u \in Types, j \in Ids : owner[u][j] # e BY <1>1, Unowned
<1>5. StagesConsistent' BY <1>1, <1>2 DEF IInv, StagesConsistent, TypeOK
<1>6. OwnersConsistent'
  <2>1. \A d \in Elements \ {e} :
          stage'[d] = stage[d] /\ typeOf'[d] = typeOf[d] /\ idOf'[d] = idOf[d]
    BY <1>1, <1>2 DEF TypeOK
  <2>2. \A u \in Types, j \in Ids : Owned(u, j) => owner[u][j] \in Elements \ {e}
    BY <1>1, <1>4 DEF TypeOK, Owned
  <2>3. QED BY <1>2, <1>3, <2>1, <2>2 DEF IInv, OwnersConsistent, Owned
<1>7. CASE id = InvalidId
  <2>1. UNCHANGED <<byId, hostFree, localFree>> BY <1>7 DEF Destroy
  <2>2. \A j \in Ids : byId[j] # e
    <3>1. \A j \in Ids : byId[j] # Null => idOf[byId[j]] = j BY DEF IInv, IdsConsistent
    <3>2. QED BY <1>7, <3>1, ConstantFacts
  <2>3. IdsConsistent'
    BY <1>1, <1>2, <1>3, <2>1, <2>2 DEF IInv, IdsConsistent, TypeOK
  <2>4. StackConsistent'
    BY <1>2, <1>3, <2>1 DEF IInv, StackConsistent, FreeStack
  <2>5. QED BY <1>5, <1>6, <2>3, <2>4 DEF IInv
<1>8. CASE id # InvalidId
  <2>1. id \in Ids /\ byId[id] = e /\ byId[id] # Null
    BY <1>1, <1>8, ConstantFacts DEF IInv, IdsConsistent, TypeOK
  <2>2. byId' = [byId EXCEPT ![id] = Null]
    BY <1>1, <1>8, <2>1 DEF Destroy, UnregisterMirror, FreeId, TypeOK
  <2>3. \A j \in Ids : byId[j] = e => j = id BY <1>1, ConstantFacts DEF IInv, IdsConsistent
  <2>4. IdsConsistent'
    BY <1>1, <1>2, <1>3, <2>1, <2>2, <2>3, ConstantFacts DEF IInv, IdsConsistent, TypeOK
  <2>5. CASE isMirror[e]
    <3>1. UNCHANGED <<hostFree, localFree>> BY <1>8, <2>5 DEF Destroy, UnregisterMirror
    <3>2. id \in WireIds BY <1>8, <2>5 DEF IInv, IdsConsistent
    <3>3. id \notin MintedIds
      BY <1>1, <3>2, MintedAreOwn DEF IInv, TypeOK, IdsConsistent
    <3>4. (IF IsHost THEN HostMintIds ELSE Band(activeBand)) \subseteq MintedIds
      BY DEF MintedIds
    <3>5. MintedIds \subseteq Ids
      BY <1>1, MintedAreOwn DEF IInv, TypeOK, IdsConsistent
    <3>6. \A j \in MintedIds : byId'[j] = byId[j] BY <1>1, <2>2, <3>3, <3>5 DEF TypeOK
    <3>7. StackConsistent'
      BY <1>2, <1>3, <3>1, <3>4, <3>6 DEF IInv, StackConsistent, FreeStack
    <3>8. QED BY <1>5, <1>6, <2>4, <3>7 DEF IInv
  <2>6. CASE ~ isMirror[e]
    <3>1. id \in MintedIds BY <1>8, <2>6 DEF IInv, IdsConsistent
    <3>2. MintedIds \subseteq OwnIds /\ MintedIds \subseteq Ids
      BY <1>1, MintedAreOwn DEF IInv, TypeOK, IdsConsistent
    <3>3. IsHostId(id) <=> IsHost BY <1>1, <3>1, <3>2, IdAreas DEF TypeOK
    <3>4. FreeStack' = Append(FreeStack, id)
      BY <1>1, <1>3, <1>8, <2>1, <2>6, <3>3 DEF Destroy, FreeId, FreeStack, TypeOK
    <3>5. FreeStack \in Seq(Ids) BY <1>1 DEF TypeOK, FreeStack
    <3>6. id \notin ToSet(FreeStack) BY <2>1 DEF IInv, StackConsistent
    <3>7. /\ ToSet(FreeStack') = ToSet(FreeStack) \cup {id}
          /\ IsInjective(FreeStack')
      BY <2>1, <3>4, <3>5, <3>6, PushProperties DEF IInv, StackConsistent
    <3>8. \A j \in MintedIds : byId'[j] = IF j = id THEN Null ELSE byId[j]
      BY <1>1, <2>2, <3>2 DEF TypeOK
    <3>9. (IF IsHost THEN HostMintIds ELSE Band(activeBand)) \subseteq MintedIds
      BY DEF MintedIds
    <3>10. StackConsistent'
      BY <1>2, <1>3, <3>1, <3>7, <3>8, <3>9 DEF IInv, StackConsistent
    <3>11. QED BY <1>5, <1>6, <2>4, <3>10 DEF IInv
  <2>7. QED BY <2>5, <2>6
<1>9. QED BY <1>7, <1>8

(* Every step keeps the inductive invariant.                               *)
LEMMA NextIInv == IInv /\ [Next]_vars => IInv'
<1> SUFFICES ASSUME IInv, [Next]_vars PROVE IInv' OBVIOUS
<1>1. TypeOK /\ TypeOK' BY NextTypeOK DEF IInv
<1>2. CASE SetLocalPeerBand BY <1>1, <1>2, SetLocalPeerBandKeepsIInv
<1>3. ASSUME NEW e \in Elements, NEW t \in Types, Alloc(e, t) PROVE IInv'
  BY <1>1, <1>3, AllocKeepsIInv
<1>4. ASSUME NEW e \in Elements, Emplace(e) PROVE IInv'
  BY <1>1, <1>4, EmplaceKeepsIInv
<1>5. ASSUME NEW e \in Elements, NEW t \in Types, NEW id \in Ids, PlaceMirror(e, t, id)
      PROVE  IInv'
  BY <1>1, <1>5, PlaceMirrorKeepsIInv
<1>6. ASSUME NEW e \in Elements, NEW id \in Ids, RegisterMirror(e, id) PROVE IInv'
  BY <1>1, <1>6, RegisterMirrorKeepsIInv
<1>7. ASSUME NEW e \in Elements, NEW id \in Ids, RollBackInstall(e, id) PROVE IInv'
  <2>1. typeOf[e] \in Types /\ Owned(typeOf[e], id) /\ owner[typeOf[e]][id] = e
    BY <1>1, <1>7, ConstantFacts DEF TypeOK, RollBackInstall, HeldUnder, Owned
  <2>2. QED BY <1>1, <1>7, <2>1, TakeKeepsIInv DEF RollBackInstall
<1>8. ASSUME NEW t \in Types, NEW id \in Ids, TakeInline(t, id) PROVE IInv'
  BY <1>1, <1>8, TakeKeepsIInv DEF TakeInline
<1>9. ASSUME NEW t \in Types, NEW id \in Ids, TakeDeferred(t, id) PROVE IInv'
  <2>1. id \notin WireIds BY <1>1, <1>9, IdAreas DEF TakeDeferred, TypeOK
  <2>2. owner[t][id] \in Elements /\ stage[owner[t][id]] = "owned"
    BY <1>1, <1>9, <2>1 DEF IInv, OwnersConsistent, TakeDeferred, TypeOK, Owned
  <2>3. idOf[owner[t][id]] # InvalidId BY <2>2 DEF IInv, StagesConsistent
  <2>4. QED BY <1>1, <1>9, <2>3, TakeKeepsIInv DEF TakeDeferred
<1>10. CASE DrainMirrorsOnly
  <2> DEFINE out == {e \in Elements : (\E id \in Ids : owner[Prop][id] = e) /\ isMirror[e]}
  <2>1. Prop \in Types BY DEF Types
  <2>2. /\ owner' = [owner EXCEPT ![Prop] =
                 [id \in Ids |-> IF owner[Prop][id] \in out THEN Null ELSE owner[Prop][id]]]
        /\ stage' = [e \in Elements |-> IF e \in out THEN "doomed" ELSE stage[e]]
        /\ UNCHANGED <<me, registryVars, typeOf, idOf, isMirror, ownerSlot>>
    BY <1>10 DEF DrainMirrorsOnly, Drain
  <2>3. out \in SUBSET Elements /\ \A e \in out : \E id \in Ids : owner[Prop][id] = e OBVIOUS
  <2> HIDE DEF out
  <2>4. QED BY <1>1, <2>1, <2>2, <2>3, DrainKeepsIInv
<1>11. ASSUME NEW s \in PeerSlotIds, DrainMirrorsForSlot(s) PROVE IInv'
  <2> DEFINE out == {e \in Elements : (\E id \in Ids : owner[Prop][id] = e) /\ isMirror[e] /\ ownerSlot[e] = s}
  <2>1. Prop \in Types BY DEF Types
  <2>2. /\ owner' = [owner EXCEPT ![Prop] =
                 [id \in Ids |-> IF owner[Prop][id] \in out THEN Null ELSE owner[Prop][id]]]
        /\ stage' = [e \in Elements |-> IF e \in out THEN "doomed" ELSE stage[e]]
        /\ UNCHANGED <<me, registryVars, typeOf, idOf, isMirror, ownerSlot>>
    BY <1>11 DEF DrainMirrorsForSlot, Drain
  <2>3. out \in SUBSET Elements /\ \A e \in out : \E id \in Ids : owner[Prop][id] = e OBVIOUS
  <2> HIDE DEF out
  <2>4. QED BY <1>1, <2>1, <2>2, <2>3, DrainKeepsIInv
<1>12. CASE DrainAll
  <2> DEFINE out == {e \in Elements : (\E id \in Ids : owner[Npc][id] = e) /\ TRUE}
  <2>1. Npc \in Types BY DEF Types
  <2>2. /\ owner' = [owner EXCEPT ![Npc] =
                 [id \in Ids |-> IF owner[Npc][id] \in out THEN Null ELSE owner[Npc][id]]]
        /\ stage' = [e \in Elements |-> IF e \in out THEN "doomed" ELSE stage[e]]
        /\ UNCHANGED <<me, registryVars, typeOf, idOf, isMirror, ownerSlot>>
    BY <1>12 DEF DrainAll, Drain
  <2>3. out \in SUBSET Elements /\ \A e \in out : \E id \in Ids : owner[Npc][id] = e OBVIOUS
  <2> HIDE DEF out
  <2>4. QED BY <1>1, <2>1, <2>2, <2>3, DrainKeepsIInv
<1>13. CASE Flush BY <1>1, <1>13, FlushKeepsIInv
<1>14. ASSUME NEW e \in Elements, Destroy(e) PROVE IInv'
  BY <1>1, <1>14, DestroyKeepsIInv
<1>15. CASE UNCHANGED vars
  <2>1. UNCHANGED <<me, registryVars, idOf, isMirror, owner, stage, typeOf>>
    BY <1>15 DEF vars, elementVars
  <2>2. IdsConsistent' /\ StackConsistent' BY <2>1, IdsFrame
  <2>3. WireIds' = WireIds BY <2>1 DEF WireIds, IsHost
  <2>4. StagesConsistent' /\ OwnersConsistent'
    BY <2>1, <2>3 DEF IInv, StagesConsistent, OwnersConsistent, Owned
  <2>5. QED BY <1>1, <2>2, <2>4 DEF IInv
<1>16. QED
  BY <1>2, <1>3, <1>4, <1>5, <1>6, <1>7, <1>8, <1>9, <1>10, <1>11, <1>12,
     <1>13, <1>14, <1>15 DEF Next

(* So it holds throughout.                                                 *)
LEMMA InductiveInvariant == Spec => []IInv
BY InitIInv, NextIInv, PTL DEF Spec

-----------------------------------------------------------------------------
(* Registry::Get resolves an id to a living element that has that id.      *)
THEOREM ResolutionSafe == Spec => []ResolvesToLiveElement
<1>1. IInv => ResolvesToLiveElement
  <2> SUFFICES ASSUME IInv, NEW id \in Ids, byId[id] # Null
               PROVE  /\ stage[byId[id]] \in {"minted", "owned", "queued", "doomed"}
                      /\ idOf[byId[id]] = id
    BY DEF ResolvesToLiveElement
  <2>1. byId[id] \in Elements /\ idOf[byId[id]] = id /\ stage[byId[id]] \in Stages
    BY DEF IInv, TypeOK, IdsConsistent
  <2>2. idOf[byId[id]] # InvalidId BY <2>1, ConstantFacts
  <2>3. QED BY <2>1, <2>2 DEF IInv, StagesConsistent, Stages
<1>2. QED BY <1>1, InductiveInvariant, PTL

(* The owner maps and the registry name the same elements. *)
THEOREM OwnerMapsSafe == Spec => []OwnerMapsAgree
<1>1. IInv => OwnerMapsAgree
  <2> SUFFICES ASSUME IInv, NEW t \in Types, NEW id \in Ids, Owned(t, id),
                      stage[owner[t][id]] = "owned"
               PROVE  byId[id] = owner[t][id]
    BY DEF OwnerMapsAgree, IInv, OwnersConsistent
  <2>1. owner[t][id] \in Elements /\ idOf[owner[t][id]] = id
    BY DEF IInv, TypeOK, OwnersConsistent, Owned
  <2>2. QED BY <2>1, ConstantFacts DEF IInv, IdsConsistent
<1>2. QED BY <1>1, InductiveInvariant, PTL

(* The free-stack divergence branch of AllocHostId and AllocLocalId cannot *)
(* be taken, as long as peers put only ids of their own area on the wire.  *)
THEOREM FreeIdsSafe == Spec => []FreeIdsUnused
<1>1. IInv => FreeIdsUnused
  <2> SUFFICES ASSUME IInv PROVE FreeIdsUnused OBVIOUS
  <2>1. MintedIds \subseteq OwnIds /\ MintedIds \cap WireIds = {} /\ MintedIds \subseteq Ids
    BY MintedAreOwn DEF IInv, TypeOK, IdsConsistent
  <2>2. ASSUME NEW id \in ToSet(FreeStack), NEW t \in Types, Owned(t, id) PROVE FALSE
    <3>1. id \in MintedIds /\ byId[id] = Null BY DEF IInv, StackConsistent
    <3>2. stage[owner[t][id]] = "owned" BY <2>1, <2>2, <3>1 DEF IInv, OwnersConsistent
    <3>3. owner[t][id] \in Elements /\ idOf[owner[t][id]] = id
      BY <2>1, <2>2, <3>1, <3>2 DEF IInv, TypeOK, OwnersConsistent, Owned
    <3>4. byId[id] = owner[t][id] BY <2>1, <3>1, <3>3, ConstantFacts DEF IInv, IdsConsistent
    <3>5. QED BY <2>2, <3>1, <3>4 DEF Owned
  <2>3. QED BY <2>1, <2>2 DEF FreeIdsUnused, IInv, StackConsistent
<1>2. QED BY <1>1, InductiveInvariant, PTL

(* No id of the active mint area is lost. *)
THEOREM NoLeak == Spec => []NoIdLeak
<1>1. IInv => NoIdLeak BY DEF IInv, StackConsistent, NoIdLeak, MintArea
<1>2. QED BY <1>1, InductiveInvariant, PTL

(* A disconnect drain of the props leaves no wire mirror behind: game-     *)
(* thread serialization keeps it out of the middle of an Install.          *)
THEOREM DrainComplete == Spec => NoMirrorOutlivesDrain
<1>1. IInv /\ DrainMirrorsOnly => \A id \in WireIds : ~ Owned(Prop, id)'
  <2> SUFFICES ASSUME IInv, DrainMirrorsOnly, NEW id \in WireIds, owner'[Prop][id] # Null
               PROVE  FALSE
    BY DEF Owned
  <2>1. TypeOK /\ Prop \in Types BY DEF IInv, Types
  <2>2. id \in Ids /\ id \notin MintedIds
    BY <2>1, IdAreas, MintedAreOwn DEF IInv, TypeOK, IdsConsistent
  <2> DEFINE e == owner[Prop][id]
  <2>3. e \in Elements /\ ~ isMirror[e]
    <3>1. owner'[Prop][id] = IF e \in {d \in Elements :
              (\E j \in Ids : owner[Prop][j] = d) /\ isMirror[d]} THEN Null ELSE e
      BY <2>1, <2>2 DEF DrainMirrorsOnly, Drain, TypeOK
    <3>2. e # Null /\ e \in Elements BY <2>1, <2>2, <3>1 DEF TypeOK
    <3>3. QED BY <2>2, <3>1, <3>2
  <2>4. stage[e] \notin {"placed", "losing"} BY <2>3 DEF DrainMirrorsOnly, Drain, GtFree
  <2>5. Owned(Prop, id) BY <2>3, ConstantFacts DEF Owned
  <2>6. idOf[e] = id BY <2>1, <2>2, <2>4, <2>5 DEF IInv, OwnersConsistent
  <2>7. QED BY <2>2, <2>3, <2>6, ConstantFacts DEF IInv, IdsConsistent
<1>2. IInv /\ [Next]_vars => [DrainMirrorsOnly => \A id \in WireIds : ~ Owned(Prop, id)']_vars
  BY <1>1
<1>3. QED BY <1>2, InductiveInvariant, PTL DEF Spec, NoMirrorOutlivesDrain

-----------------------------------------------------------------------------
(* ElementIds implements IdTable.                                          *)

(* The initial states are initial states of the table.                     *)
LEMMA InitImplements == Init => Table!Init
<1> SUFFICES ASSUME Init PROVE Table!Init OBVIOUS
<1>1. IInv BY InitIInv
<1>2. ToSet(FreeStack) \in SUBSET Ids
  BY <1>1, MintedAreOwn DEF IInv, TypeOK, IdsConsistent, StackConsistent
<1>3. QED BY <1>2 DEF Table!Init, Init

(* An element without an id is bound nowhere. *)
LEMMA NoIdUnbound ==
    ASSUME IInv, NEW e \in Elements, idOf[e] = InvalidId
    PROVE  ~ Table!Bound(e)
<1>1. \A id \in Ids : byId[id] # Null => idOf[byId[id]] = id BY DEF IInv, IdsConsistent
<1>2. QED BY <1>1, ConstantFacts DEF Table!Bound

(* Every step is a step of the table or leaves it alone.                   *)
LEMMA StepImplements == IInv /\ [Next]_vars => [Table!Next]_(Table!vars)
<1> SUFFICES ASSUME IInv, [Next]_vars PROVE Table!Next \/ UNCHANGED Table!vars OBVIOUS
<1> USE DEF Table!vars
<1>1. TypeOK /\ IInv' /\ TypeOK' BY NextIInv, NextTypeOK DEF IInv
<1>2. ToSet(FreeStack) \in SUBSET Ids /\ ToSet(FreeStack') \in SUBSET Ids
  <2>1. MintedIds \subseteq Ids
    BY <1>1, MintedAreOwn DEF IInv, TypeOK, IdsConsistent
  <2>2. me' = me
    BY DEF Next, SetLocalPeerBand, Alloc, Emplace, PlaceMirror, RegisterMirror, RollBackInstall,
           TakeInline, TakeDeferred, DrainMirrorsOnly, DrainMirrorsForSlot, DrainAll, Drain,
           Flush, Destroy, vars
  <2>3. MintedIds' \subseteq Ids
    <3>1. CASE IsHost
      BY <1>1, <2>1, <2>2, <3>1 DEF MintedIds, IsHost
    <3>2. CASE ~ IsHost
      BY <1>1, <2>2, <3>2, BandsDisjoint, ConstantFacts DEF MintedIds, IsHost, TypeOK
    <3>3. QED BY <3>1, <3>2
  <2>4. QED BY <1>1, <2>1, <2>3 DEF IInv, StackConsistent
<1>3. ASSUME UNCHANGED <<me, byId, hostFree, localFree>> PROVE UNCHANGED Table!vars
  BY <1>3 DEF FreeStack, IsHost
<1>4. CASE SetLocalPeerBand
  <2>1. byId' = byId BY <1>4 DEF SetLocalPeerBand
  <2>2. \A id \in ToSet(FreeStack') : byId[id] = Null
    BY <1>1, <2>1 DEF IInv, StackConsistent
  <2>3. Table!Regrant BY <1>2, <2>1, <2>2 DEF Table!Regrant
  <2>4. QED BY <2>3 DEF Table!Next
<1>5. ASSUME NEW e \in Elements, NEW t \in Types, Alloc(e, t) PROVE Table!Next
  <2> DEFINE id == Last(FreeStack)
  <2>1. /\ id \in Ids /\ id \in ToSet(FreeStack) /\ byId[id] = Null
        /\ ToSet(FreeStack') = ToSet(FreeStack) \ {id}
    BY <1>5, PopStack DEF Alloc
  <2>2. byId' = [byId EXCEPT ![id] = e] BY <1>5, <2>1 DEF Alloc
  <2>3. idOf[e] = InvalidId BY <1>5 DEF Alloc, IInv, StagesConsistent
  <2> HIDE DEF id
  <2>4. Table!Mint(e, id) BY <2>1, <2>2, <2>3, NoIdUnbound DEF Table!Mint
  <2>5. QED BY <2>1, <2>4 DEF Table!Next
<1>6. ASSUME NEW e \in Elements, Emplace(e) PROVE UNCHANGED Table!vars
  BY <1>3, <1>6 DEF Emplace, registryVars
<1>7. ASSUME NEW e \in Elements, NEW t \in Types, NEW id \in Ids, PlaceMirror(e, t, id)
      PROVE  UNCHANGED Table!vars
  BY <1>3, <1>7 DEF PlaceMirror, registryVars
<1>8. ASSUME NEW e \in Elements, NEW id \in Ids, RegisterMirror(e, id)
      PROVE  Table!Next \/ UNCHANGED Table!vars
  <2>1. UNCHANGED <<me, hostFree, localFree>> BY <1>8 DEF RegisterMirror
  <2>2. FreeStack' = FreeStack BY <2>1 DEF FreeStack, IsHost
  <2>3. CASE byId[id] # Null BY <1>3, <1>8, <2>1, <2>3 DEF RegisterMirror
  <2>4. CASE byId[id] = Null
    <3>1. byId' = [byId EXCEPT ![id] = e] BY <1>8, <2>4 DEF RegisterMirror
    <3>2. idOf[e] = InvalidId BY <1>8 DEF RegisterMirror, IInv, StagesConsistent
    <3>3. /\ typeOf[e] \in Types /\ owner[typeOf[e]][id] = e
          /\ stage[e] # "owned"
      BY <1>1, <1>8 DEF TypeOK, RegisterMirror, HeldUnder
    <3>4. id \in WireIds BY <3>3, ConstantFacts DEF IInv, OwnersConsistent, Owned
    <3>5. id \notin ToSet(FreeStack)
      BY <1>1, <3>4, MintedAreOwn DEF IInv, TypeOK, IdsConsistent, StackConsistent
    <3>6. Table!Borrow(e, id)
      BY <2>2, <2>4, <3>1, <3>2, <3>5, NoIdUnbound DEF Table!Borrow
    <3>7. QED BY <3>6 DEF Table!Next
  <2>5. QED BY <2>3, <2>4
<1>9. ASSUME NEW e \in Elements, NEW id \in Ids, RollBackInstall(e, id)
      PROVE  UNCHANGED Table!vars
  BY <1>3, <1>9 DEF RollBackInstall, registryVars
<1>10. ASSUME NEW t \in Types, NEW id \in Ids, TakeInline(t, id) \/ TakeDeferred(t, id)
       PROVE  UNCHANGED Table!vars
  BY <1>3, <1>10 DEF TakeInline, TakeDeferred, registryVars
<1>11. ASSUME \/ DrainMirrorsOnly
              \/ \E s \in PeerSlotIds : DrainMirrorsForSlot(s)
              \/ DrainAll
       PROVE  UNCHANGED Table!vars
  BY <1>3, <1>11 DEF DrainMirrorsOnly, DrainMirrorsForSlot, DrainAll, Drain, registryVars
<1>12. CASE Flush BY <1>3, <1>12 DEF Flush, registryVars
<1>13. ASSUME NEW e \in Elements, Destroy(e) PROVE Table!Next \/ UNCHANGED Table!vars
  <2> DEFINE id == idOf[e]
  <2>1. UNCHANGED me BY <1>13 DEF Destroy
  <2>2. CASE id = InvalidId BY <1>3, <1>13, <2>1, <2>2 DEF Destroy
  <2>3. CASE id # InvalidId
    <3>1. id \in Ids /\ byId[id] = e /\ byId[id] # Null
      BY <1>1, <2>3, ConstantFacts DEF IInv, IdsConsistent, TypeOK
    <3>2. byId' = [byId EXCEPT ![id] = Null]
      BY <1>1, <1>13, <2>3, <3>1 DEF Destroy, UnregisterMirror, FreeId, TypeOK
    <3>3. CASE isMirror[e]
      <4>1. UNCHANGED <<hostFree, localFree>>
        BY <1>13, <2>3, <3>3 DEF Destroy, UnregisterMirror
      <4>2. ToSet(FreeStack') = ToSet(FreeStack) BY <2>1, <4>1 DEF FreeStack, IsHost
      <4>3. Table!GiveBack(id) BY <3>1, <3>2, <4>2 DEF Table!GiveBack
      <4>4. QED BY <3>1, <4>3 DEF Table!Next
    <3>4. CASE ~ isMirror[e]
      <4>1. id \in OwnIds
        BY <1>1, <2>3, <3>4, MintedAreOwn DEF IInv, TypeOK, IdsConsistent
      <4>2. IsHostId(id) <=> IsHost BY <1>1, <4>1, IdAreas DEF TypeOK
      <4>3. FreeStack' = Append(FreeStack, id)
        BY <1>13, <2>1, <2>3, <3>1, <3>4, <4>2 DEF Destroy, FreeId, FreeStack, IsHost
      <4>4. FreeStack \in Seq(Ids) BY <1>1 DEF TypeOK, FreeStack
      <4>5. ToSet(FreeStack') = ToSet(FreeStack) \cup {id}
        BY <3>1, <4>3, <4>4, PushProperties
      <4>6. Table!Recycle(id) BY <3>1, <3>2, <4>5 DEF Table!Recycle
      <4>7. QED BY <3>1, <4>6 DEF Table!Next
    <3>5. QED BY <3>3, <3>4
  <2>4. QED BY <2>2, <2>3
<1>14. CASE UNCHANGED vars BY <1>3, <1>14 DEF vars, registryVars
<1>15. QED
  BY <1>4, <1>5, <1>6, <1>7, <1>8, <1>9, <1>10, <1>11, <1>12, <1>13, <1>14 DEF Next

(* Whatever the threads do, the registry is a table that never binds an id *)
(* over a living binding and mints no id that is in use.                   *)
THEOREM ElementIdsImplementsIdTable == Spec => ImplementsIdTable
BY InitImplements, StepImplements, InductiveInvariant, PTL
   DEF Spec, ImplementsIdTable, Table!Spec
-----------------------------------------------------------------------------
(* Who is who: the inductive invariant.                                    *)

(* The id of the player element of process p, the ids that p draws from,   *)
(* and all that it may have drawn. *)
OwnId(p) == IF p = HostSlot THEN 1 ELSE BandBase(p)
Stock(p, own) ==
    IF p = HostSlot THEN HostMintIds ELSE IF own = Unknown THEN Band(0) ELSE Band(p)
Home(p, own) == IF p = HostSlot THEN HostMintIds ELSE Band(0) \cup Stock(p, own)

PlayerElements == [eid : Ids, mirror : BOOLEAN, puppet : BOOLEAN]
OwnElement(p) == [eid |-> OwnId(p), mirror |-> FALSE, puppet |-> FALSE]

IsRegistry(r) == r = [me |-> r.me, free |-> r.free, el |-> r.el, props |-> r.props]

(* r has minted an id for slot s. *)
Mints(r, s) == ~ r.el[s].mirror /\ r.el[s].eid # NoEid

(* Process p, which mints in home, has each of these ids at one place, and *)
(* a mirror under the id of the slot's own process. *)
Sound(r, p, home) ==
    /\ IsRegistry(r)
    /\ r.free \in Seq(home) /\ IsInjective(r.free)
    /\ r.props \subseteq home /\ r.props \cap ToSet(r.free) = {}
    /\ r.el \in [PeerSlotIds -> PlayerElements]
    /\ \A s \in PeerSlotIds :
          /\ r.el[s].mirror => r.el[s].eid = OwnId(s) /\ s # p
          /\ ~ r.el[s].mirror /\ r.el[s].eid = NoEid => r.el[s] = NoElement
          /\ Mints(r, s) =>
                /\ r.el[s].eid \in home \ (r.props \cup ToSet(r.free))
                /\ \A t \in PeerSlotIds \ {s} : Mints(r, t) => r.el[t].eid # r.el[s].eid

(* What is not free is in use. *)
Covers(r, stock) ==
    \A id \in stock \ (ToSet(r.free) \cup r.props) :
        \E s \in PeerSlotIds : Mints(r, s) /\ r.el[s].eid = id

RegistryOf(r, p) ==
    /\ r.me \in {Unknown, p}
    /\ Sound(r, p, Home(p, r.me))
    /\ r.el[p] = IF r.me = p THEN OwnElement(p) ELSE NoElement
    /\ p = HostSlot /\ r.me = Unknown => r = Fresh(HostSlot)

-----------------------------------------------------------------------------
(* Who is who: the registry of one process.                                *)

(* The ids of the players differ, and no process mints another's. *)
LEMMA PlayerIds ==
    ASSUME NEW p \in Processes
    PROVE  /\ OwnId(p) \in Ids \ {NoEid}
           /\ \A s \in Processes \ {p} : OwnId(s) # OwnId(p)
           /\ \A own \in {Unknown, p} :
                 /\ Stock(p, own) \subseteq Home(p, own) /\ Home(p, own) \subseteq Ids \ {NoEid}
                 /\ \A s \in Processes \ {p} : OwnId(s) \notin Home(p, own)
           /\ OwnId(p) \in Stock(p, p)
           /\ p # HostSlot => OwnId(p) \notin Band(0) /\ Band(0) \cap Band(p) = {}
           /\ IsAllowedSenderEid(p = HostSlot, OwnId(p))
           /\ p \in Int /\ p # Unknown
<1>1. /\ HostRangeSize \in Nat /\ HostRangeSize > 1 /\ MaxElements \in Nat
      /\ HostRangeSize <= MaxElements /\ PeerBandCount \in Nat /\ PeerBandCount > 1
      /\ HostSlot \in PeerSlotIds /\ PeerSlotIds \subseteq Nat
  BY IdRangesAssumption DEF PeerSlotIds, HostSlot
<1>2. \A s \in PeerSlotIds : BandBase(s) \in Band(s) /\ BandBase(s) >= HostRangeSize
  BY <1>1, BandBounds DEF Band
<1>3. \A s, t \in PeerSlotIds : s # t => Band(s) \cap Band(t) = {}
  BY BandsDisjoint
<1>4. \A s \in PeerSlotIds : Band(s) \cap HostMintIds = {} /\ Band(s) \subseteq Ids
  BY BandsDisjoint
<1>5. HostMintIds \subseteq Ids \ {NoEid} /\ 1 \in HostMintIds
  BY <1>1 DEF HostMintIds, Ids, NoEid
<1>6. \A s \in PeerSlotIds : NoEid \notin Band(s)
  BY <1>1, BandBounds DEF Band, NoEid
<1>7. \A s \in Processes : OwnId(s) \in (IF s = HostSlot THEN HostMintIds ELSE Band(s))
  BY <1>2, <1>5 DEF OwnId, Processes
<1>8. \A s \in Processes \ {p} : OwnId(s) # OwnId(p)
  BY <1>3, <1>4, <1>7 DEF Processes
<1>9. ASSUME NEW own \in {Unknown, p}
      PROVE  /\ Stock(p, own) \subseteq Home(p, own) /\ Home(p, own) \subseteq Ids \ {NoEid}
             /\ \A s \in Processes \ {p} : OwnId(s) \notin Home(p, own)
  BY <1>1, <1>3, <1>4, <1>5, <1>6, <1>7 DEF Stock, Home, Processes, HostSlot
<1>10. OwnId(p) \in Stock(p, p) /\ p \in Int /\ p # Unknown
  BY <1>1, <1>7 DEF Stock, Unknown, Processes
<1>11. p # HostSlot => OwnId(p) \notin Band(0) /\ Band(0) \cap Band(p) = {}
  BY <1>1, <1>3, <1>7 DEF Processes, HostSlot
<1>12. IsAllowedSenderEid(p = HostSlot, OwnId(p))
  <2>1. CASE p = HostSlot
    <3>1. OwnId(p) = 1 /\ 1 \in Ids
      BY <1>5, <2>1 DEF OwnId
    <3> QED BY <1>1, <2>1, <3>1
            DEF IsAllowedSenderEid, IsAllowedHostAllocatedEid, IsHostId
  <2>2. CASE p # HostSlot
    <3>1. OwnId(p) = BandBase(p) /\ BandBase(p) \in Ids /\ BandBase(p) >= HostRangeSize
          /\ BandBase(p) \in Nat
      BY <1>2, <1>4, <2>2, BandBounds DEF OwnId, Processes
    <3> QED BY <1>1, <2>2, <3>1
            DEF IsAllowedSenderEid, IsAllowedPeerAllocatedEid, IsHostId
  <2> QED BY <2>1, <2>2
<1> QED BY <1>5, <1>4, <1>6, <1>7, <1>8, <1>9, <1>10, <1>11, <1>12 DEF Processes

(* DropPlayerElement: the slot's element is gone, and its id free again if *)
(* this process had minted it. *)
LEMMA Dropped ==
    ASSUME NEW p \in Processes, NEW home, NEW r, Sound(r, p, home), NEW s \in PeerSlotIds,
           NEW q, q = DropPlayerElement(r, s)
    PROVE  /\ Sound(q, p, home)
           /\ q.me = r.me /\ q.props = r.props
           /\ q.el = [r.el EXCEPT ![s] = NoElement]
           /\ Mints(r, s) => q.free # <<>>
           /\ ~ Mints(r, s) => q.free = r.free
           /\ \A stock : Covers(r, stock) => Covers(q, stock)
<1>1. PICK id : id = r.el[s].eid
  OBVIOUS
<1>2. PICK f : f = IF Mints(r, s) THEN Append(r.free, id) ELSE r.free
  OBVIOUS
<1>3. PICK el : el = [r.el EXCEPT ![s] = NoElement]
  OBVIOUS
<1>4. q = [me |-> r.me, free |-> f, el |-> el, props |-> r.props]
  BY <1>1, <1>2, <1>3 DEF DropPlayerElement, Mints, Sound, IsRegistry
<1>5. q.me = r.me /\ q.free = f /\ q.el = el /\ q.props = r.props /\ IsRegistry(q)
  BY <1>4 DEF IsRegistry
<1>6. NoElement \in PlayerElements
  BY IdRangesAssumption DEF NoElement, NoEid, PlayerElements, Ids
<1>7. el \in [PeerSlotIds -> PlayerElements] /\ el[s] = NoElement
      /\ \A t \in PeerSlotIds \ {s} : el[t] = r.el[t]
  BY <1>3, <1>6 DEF Sound
<1>8. ~ Mints(q, s) /\ \A t \in PeerSlotIds \ {s} : Mints(q, t) <=> Mints(r, t)
  BY <1>5, <1>7 DEF Mints, NoElement
<1>9. Mints(r, s) => id \in home /\ id \notin ToSet(r.free) /\ id \notin r.props
  BY <1>1 DEF Sound
<1>10. /\ f \in Seq(home) /\ IsInjective(f)
       /\ ToSet(f) = ToSet(r.free) \cup (IF Mints(r, s) THEN {id} ELSE {})
       /\ Mints(r, s) => f # <<>>
  <2>1. CASE Mints(r, s)
    <3>1. f = Append(r.free, id) /\ r.free \in Seq(home) /\ id \in home
      BY <1>2, <1>9, <2>1 DEF Sound
    <3>2. f # <<>>
      BY <3>1, AppendProperties, EmptySeq
    <3> QED BY <1>9, <2>1, <3>1, <3>2, PushProperties DEF Sound
  <2>2. CASE ~ Mints(r, s)
    BY <1>2, <2>2 DEF Sound
  <2> QED BY <2>1, <2>2
<1>11. \A t \in PeerSlotIds :
          /\ el[t].mirror => el[t].eid = OwnId(t) /\ t # p
          /\ ~ el[t].mirror /\ el[t].eid = NoEid => el[t] = NoElement
  BY <1>7 DEF Sound, NoElement
<1>12. ASSUME NEW t \in PeerSlotIds, Mints(q, t)
       PROVE  /\ q.el[t].eid \in home \ (q.props \cup ToSet(q.free))
              /\ \A u \in PeerSlotIds \ {t} : Mints(q, u) => q.el[u].eid # q.el[t].eid
  <2>1. t # s /\ Mints(r, t) /\ q.el[t] = r.el[t]
    BY <1>5, <1>7, <1>8, <1>12
  <2>2. r.el[t].eid \in home \ (r.props \cup ToSet(r.free))
    BY <2>1 DEF Sound
  <2>3. Mints(r, s) => r.el[t].eid # id
    BY <1>1, <2>1 DEF Sound
  <2>4. ASSUME NEW u \in PeerSlotIds \ {t}, Mints(q, u) PROVE q.el[u].eid # q.el[t].eid
    BY <1>5, <1>7, <1>8, <2>1, <2>4 DEF Sound
  <2> QED BY <1>5, <1>10, <2>1, <2>2, <2>3, <2>4
<1>13. r.props \subseteq home /\ r.props \cap ToSet(f) = {}
  BY <1>9, <1>10 DEF Sound
<1>14. Sound(q, p, home)
  BY <1>5, <1>7, <1>10, <1>11, <1>12, <1>13 DEF Sound
<1>15. ASSUME NEW stock, Covers(r, stock) PROVE Covers(q, stock)
  <2> SUFFICES ASSUME NEW x \in stock \ (ToSet(f) \cup r.props)
               PROVE  \E t \in PeerSlotIds : Mints(q, t) /\ q.el[t].eid = x
    BY <1>5 DEF Covers
  <2>1. PICK t \in PeerSlotIds : Mints(r, t) /\ r.el[t].eid = x
    BY <1>10, <1>15 DEF Covers
  <2>2. t # s
    BY <1>1, <1>10, <2>1
  <2> QED BY <1>5, <1>7, <1>8, <2>1, <2>2
<1> QED BY <1>2, <1>3, <1>5, <1>10, <1>14, <1>15

(* What AllocPlayerElement makes of r: a slot without an element gets one  *)
(* under the next free id, which nothing else has. *)
Given(q, r, s, puppet, p, home) ==
    /\ Sound(q, p, home)
    /\ q.me = r.me /\ q.props = r.props
    /\ r.free = <<>> => q = r
    /\ r.free # <<>> =>
          /\ q.el = [r.el EXCEPT ![s] =
                 [eid |-> Last(r.free), mirror |-> FALSE, puppet |-> puppet]]
          /\ Last(r.free) \in home
    /\ \A stock : Covers(r, stock) => Covers(q, stock)

LEMMA Allocated ==
    ASSUME NEW p \in Processes, NEW home, home \subseteq Ids \ {NoEid},
           \A s \in PeerSlotIds \ {p} : OwnId(s) \notin home,
           NEW r, Sound(r, p, home), NEW s \in PeerSlotIds, r.el[s] = NoElement,
           NEW puppet \in BOOLEAN, NEW q, q = AllocPlayerElement(r, s, puppet)
    PROVE  Given(q, r, s, puppet, p, home)
<1>1. CASE r.free = <<>>
  BY <1>1 DEF AllocPlayerElement, Given
<1>2. CASE r.free # <<>>
  <2>1. PICK id : id = Last(r.free)
    OBVIOUS
  <2>2. PICK f : f = Front(r.free)
    OBVIOUS
  <2>3. /\ f \in Seq(home) /\ IsInjective(f) /\ id \in ToSet(r.free) /\ id \in home
        /\ ToSet(f) = ToSet(r.free) \ {id}
    BY <1>2, <2>1, <2>2, PopProperties DEF Sound
  <2>4. id \in Ids /\ id # NoEid /\ id \notin r.props
    BY <2>3 DEF Sound
  <2>5. \A t \in PeerSlotIds : r.el[t].eid # id
    <3> TAKE t \in PeerSlotIds
    <3>1. CASE r.el[t].mirror
      BY <2>3, <3>1 DEF Sound
    <3>2. CASE Mints(r, t)
      BY <2>3, <3>2 DEF Sound
    <3> QED BY <2>4, <3>1, <3>2 DEF Mints
  <2>6. CanAlloc(r)
    BY <1>2, <2>1, <2>4, <2>5 DEF CanAlloc, Occupied
  <2>7. PICK new : new = [eid |-> id, mirror |-> FALSE, puppet |-> puppet]
    OBVIOUS
  <2>8. PICK el : el = [r.el EXCEPT ![s] = new]
    OBVIOUS
  <2>9. q = [me |-> r.me, free |-> f, el |-> el, props |-> r.props]
    BY <1>2, <2>1, <2>2, <2>6, <2>7, <2>8 DEF AllocPlayerElement, Popped, Sound, IsRegistry
  <2>10. q.me = r.me /\ q.free = f /\ q.el = el /\ q.props = r.props /\ IsRegistry(q)
    BY <2>9 DEF IsRegistry
  <2>11. new \in PlayerElements /\ new.eid = id /\ new.mirror = FALSE
    BY <2>4, <2>7 DEF PlayerElements
  <2>12. el \in [PeerSlotIds -> PlayerElements] /\ el[s] = new
         /\ \A t \in PeerSlotIds \ {s} : el[t] = r.el[t]
    BY <2>8, <2>11 DEF Sound
  <2>13. Mints(q, s) /\ \A t \in PeerSlotIds \ {s} : Mints(q, t) <=> Mints(r, t)
    BY <2>4, <2>10, <2>11, <2>12 DEF Mints
  <2>14. \A t \in PeerSlotIds :
           /\ el[t].mirror => el[t].eid = OwnId(t) /\ t # p
           /\ ~ el[t].mirror /\ el[t].eid = NoEid => el[t] = NoElement
    BY <2>4, <2>11, <2>12 DEF Sound
  <2>15. ASSUME NEW t \in PeerSlotIds, Mints(q, t)
         PROVE  /\ el[t].eid \in home \ (r.props \cup ToSet(f))
                /\ \A u \in PeerSlotIds \ {t} : Mints(q, u) => el[u].eid # el[t].eid
    <3>1. CASE t = s
      BY <2>3, <2>4, <2>5, <2>11, <2>12, <3>1
    <3>2. CASE t # s
      <4>1. Mints(r, t) /\ el[t] = r.el[t]
        BY <2>12, <2>13, <2>15, <3>2
      <4>2. r.el[t].eid \in home \ (r.props \cup ToSet(r.free))
        BY <4>1 DEF Sound
      <4>3. ASSUME NEW u \in PeerSlotIds \ {t}, Mints(q, u) PROVE el[u].eid # el[t].eid
        <5>1. CASE u = s
          BY <2>5, <2>11, <2>12, <4>1, <5>1
        <5>2. CASE u # s
          BY <2>12, <2>13, <4>1, <4>3, <5>2 DEF Sound
        <5> QED BY <5>1, <5>2
      <4> QED BY <2>3, <4>1, <4>2, <4>3
    <3> QED BY <3>1, <3>2
  <2>16. Sound(q, p, home)
    BY <2>3, <2>10, <2>12, <2>14, <2>15 DEF Sound
  <2>17. ASSUME NEW stock, Covers(r, stock) PROVE Covers(q, stock)
    <3> SUFFICES ASSUME NEW x \in stock \ (ToSet(f) \cup r.props)
                 PROVE  \E t \in PeerSlotIds : Mints(q, t) /\ el[t].eid = x
      BY <2>10 DEF Covers
    <3>1. CASE x = id
      BY <2>11, <2>12, <2>13, <3>1
    <3>2. CASE x # id
      <4>1. PICK t \in PeerSlotIds : Mints(r, t) /\ r.el[t].eid = x
        BY <2>3, <2>17, <3>2 DEF Covers
      <4>2. t # s
        BY <4>1 DEF Mints, NoElement
      <4> QED BY <2>12, <2>13, <4>1, <4>2
    <3> QED BY <3>1, <3>2
  <2> QED BY <1>2, <2>1, <2>3, <2>7, <2>8, <2>10, <2>16, <2>17 DEF Given
<1> QED BY <1>1, <1>2

(* What EnsurePlayerElement makes of r for the slot of another player: its *)
(* element is bound to the puppet, except that it has none when the ids    *)
(* have run out. *)
Bound(q, r, s, puppet, p, home) ==
    /\ Sound(q, p, home)
    /\ q.me = r.me /\ q.props = r.props
    /\ \A t \in PeerSlotIds \ {s} : q.el[t] = r.el[t]
    /\ q.el[s].mirror = r.el[s].mirror
    /\ r.free # <<>> \/ r.el[s] # NoElement => q.el[s].puppet = puppet
    /\ \A stock : Covers(r, stock) => Covers(q, stock)

LEMMA Ensured ==
    ASSUME NEW p \in Processes, NEW home, home \subseteq Ids \ {NoEid},
           \A s \in PeerSlotIds \ {p} : OwnId(s) \notin home,
           NEW r, Sound(r, p, home), NEW s \in PeerSlotIds,
           NEW puppet \in BOOLEAN, NEW q, q = EnsurePlayerElement(r, s, puppet)
    PROVE  Bound(q, r, s, puppet, p, home)
<1>0. r.el \in [PeerSlotIds -> PlayerElements] /\ IsRegistry(r)
  BY DEF Sound
<1>1. CASE r.el[s] # NoElement /\ r.el[s].puppet = puppet
  BY <1>1 DEF EnsurePlayerElement, Bound
<1>2. CASE ~ (r.el[s] # NoElement /\ r.el[s].puppet = puppet) /\ r.el[s].mirror
  <2>1. PICK new : new = [r.el[s] EXCEPT !.puppet = puppet]
    OBVIOUS
  <2>2. /\ new \in PlayerElements /\ new.eid = r.el[s].eid /\ new.mirror = r.el[s].mirror
        /\ new.puppet = puppet
    BY <1>0, <2>1 DEF PlayerElements
  <2>3. PICK el : el = [r.el EXCEPT ![s] = new]
    OBVIOUS
  <2>4. q = [me |-> r.me, free |-> r.free, el |-> el, props |-> r.props]
    BY <1>0, <1>2, <2>1, <2>3 DEF EnsurePlayerElement, IsRegistry
  <2>5. q.me = r.me /\ q.free = r.free /\ q.el = el /\ q.props = r.props /\ IsRegistry(q)
    BY <2>4 DEF IsRegistry
  <2>6. el \in [PeerSlotIds -> PlayerElements] /\ el[s] = new
        /\ \A t \in PeerSlotIds \ {s} : el[t] = r.el[t]
    BY <1>0, <2>2, <2>3
  <2>7. \A t \in PeerSlotIds : Mints(q, t) <=> Mints(r, t)
    BY <2>2, <2>5, <2>6 DEF Mints
  <2>8. \A t \in PeerSlotIds : el[t].eid = r.el[t].eid /\ el[t].mirror = r.el[t].mirror
    BY <2>2, <2>6
  <2>9. \A t \in PeerSlotIds :
           /\ el[t].mirror => el[t].eid = OwnId(t) /\ t # p
           /\ ~ el[t].mirror /\ el[t].eid = NoEid => el[t] = NoElement
    BY <1>2, <2>6, <2>8 DEF Sound
  <2>10. \A t \in PeerSlotIds : Mints(q, t) =>
           /\ el[t].eid \in home \ (r.props \cup ToSet(r.free))
           /\ \A u \in PeerSlotIds \ {t} : Mints(q, u) => el[u].eid # el[t].eid
    BY <2>7, <2>8 DEF Sound
  <2>11. Sound(q, p, home)
    BY <2>5, <2>6, <2>9, <2>10 DEF Sound
  <2>12. \A stock : Covers(r, stock) => Covers(q, stock)
    BY <2>5, <2>7, <2>8 DEF Covers
  <2> QED BY <2>2, <2>5, <2>6, <2>11, <2>12 DEF Bound
<1>3. CASE ~ (r.el[s] # NoElement /\ r.el[s].puppet = puppet) /\ ~ r.el[s].mirror
  <2>1. PICK d : d = DropPlayerElement(r, s)
    OBVIOUS
  <2>2. /\ Sound(d, p, home)
        /\ d.me = r.me /\ d.props = r.props
        /\ d.el = [r.el EXCEPT ![s] = NoElement]
        /\ Mints(r, s) => d.free # <<>>
        /\ ~ Mints(r, s) => d.free = r.free
        /\ \A stock : Covers(r, stock) => Covers(d, stock)
    BY <2>1, Dropped
  <2>3. d.el[s] = NoElement /\ \A t \in PeerSlotIds \ {s} : d.el[t] = r.el[t]
    BY <1>0, <2>2
  <2>4. q = AllocPlayerElement(d, s, puppet)
    BY <1>3, <2>1 DEF EnsurePlayerElement
  <2>5. PICK new : new = [eid |-> Last(d.free), mirror |-> FALSE, puppet |-> puppet]
    OBVIOUS
  <2>6. /\ Sound(q, p, home)
        /\ q.me = d.me /\ q.props = d.props
        /\ d.free = <<>> => q = d
        /\ d.free # <<>> => q.el = [d.el EXCEPT ![s] = new]
        /\ \A stock : Covers(d, stock) => Covers(q, stock)
    <3>1. Given(q, d, s, puppet, p, home)
      <4>1. Sound(d, p, home) /\ d.el[s] = NoElement
        BY <2>2, <2>3
      <4> QED BY <2>4, <4>1, Allocated
    <3> QED BY <2>5, <3>1 DEF Given
  <2>7. new.mirror = FALSE /\ new.puppet = puppet
    BY <2>5
  <2>8. d.el \in [PeerSlotIds -> PlayerElements]
    BY <2>2 DEF Sound
  <2>9. /\ \A t \in PeerSlotIds \ {s} : q.el[t] = r.el[t]
        /\ d.free = <<>> => q.el[s] = NoElement
        /\ d.free # <<>> => q.el[s] = new
    BY <2>3, <2>6, <2>8
  <2>10. q.el[s].mirror = FALSE /\ r.el[s].mirror = FALSE
    BY <1>0, <1>3, <2>7, <2>9 DEF NoElement, PlayerElements
  <2>11. r.el[s] # NoElement => Mints(r, s)
    BY <1>3 DEF Mints, Sound
  <2>12. r.free # <<>> \/ r.el[s] # NoElement => d.free # <<>>
    BY <2>2, <2>11
  <2> QED BY <2>2, <2>6, <2>7, <2>9, <2>10, <2>12 DEF Bound
<1> QED BY <1>1, <1>2, <1>3

(* EstablishMirrorForSlot with the id of the slot's player: the mirror is  *)
(* registered, for no one else has that id, and bound to the puppet.       *)
Identified(q, r, s, p, home) ==
    /\ Sound(q, p, home)
    /\ q.me = r.me /\ q.props = r.props
    /\ q.el = [r.el EXCEPT ![s] =
           [eid |-> OwnId(s), mirror |-> TRUE, puppet |-> r.el[s].puppet]]
    /\ \A stock : Covers(r, stock) => Covers(q, stock)

LEMMA Mirrored ==
    ASSUME NEW p \in Processes, NEW home, home \subseteq Ids \ {NoEid},
           \A s \in PeerSlotIds \ {p} : OwnId(s) \notin home,
           NEW r, Sound(r, p, home), NEW s \in PeerSlotIds \ {p},
           NEW q, q = EstablishMirrorForSlot(r, s, OwnId(s))
    PROVE  Identified(q, r, s, p, home)
<1>0. r.el \in [PeerSlotIds -> PlayerElements]
  BY DEF Sound
<1>1. PICK new : new = [eid |-> OwnId(s), mirror |-> TRUE, puppet |-> r.el[s].puppet]
  OBVIOUS
<1>2. /\ OwnId(s) \in Ids \ {NoEid} /\ \A t \in PeerSlotIds \ {s} : OwnId(t) # OwnId(s)
  BY PlayerIds DEF Processes
<1>3. /\ new \in PlayerElements /\ new.eid = OwnId(s) /\ new.mirror = TRUE
      /\ new.puppet = r.el[s].puppet
  BY <1>0, <1>1, <1>2 DEF PlayerElements
<1>4. CASE r.el[s].mirror /\ r.el[s].eid = OwnId(s)
  <2>1. r.el[s] = new
    BY <1>0, <1>1, <1>4 DEF PlayerElements
  <2>2. r.el = [r.el EXCEPT ![s] = new]
    BY <1>0, <2>1
  <2>3. q = r
    BY <1>4 DEF EstablishMirrorForSlot
  <2> QED BY <1>1, <1>4, <2>2, <2>3 DEF Identified
<1>5. CASE ~ (r.el[s].mirror /\ r.el[s].eid = OwnId(s))
  <2>1. PICK d : d = DropPlayerElement(r, s)
    OBVIOUS
  <2>2. /\ Sound(d, p, home)
        /\ d.me = r.me /\ d.props = r.props
        /\ d.el = [r.el EXCEPT ![s] = NoElement]
        /\ \A stock : Covers(r, stock) => Covers(d, stock)
    BY <2>1, Dropped
  <2>3. d.el \in [PeerSlotIds -> PlayerElements] /\ d.el[s] = NoElement
        /\ \A t \in PeerSlotIds \ {s} : d.el[t] = r.el[t]
    BY <1>0, <2>2 DEF Sound
  <2>4. \A t \in PeerSlotIds : d.el[t].eid # OwnId(s)
    <3> TAKE t \in PeerSlotIds
    <3>1. CASE t = s
      BY <1>2, <2>3, <3>1 DEF NoElement
    <3>2. CASE t # s /\ d.el[t].mirror
      BY <1>2, <2>2, <3>2 DEF Sound
    <3>3. CASE Mints(d, t)
      BY <2>2, <3>3 DEF Sound
    <3> QED BY <1>2, <3>1, <3>2, <3>3 DEF Mints
  <2>5. OwnId(s) \notin Occupied(d)
    BY <2>2, <2>4 DEF Occupied, Sound
  <2>6. PICK el : el = [d.el EXCEPT ![s] = new]
    OBVIOUS
  <2>7. IsRegistry(d)
    BY <2>2 DEF Sound
  <2>8. q = [me |-> d.me, free |-> d.free, el |-> el, props |-> d.props]
    BY <1>1, <1>5, <2>1, <2>5, <2>6, <2>7 DEF EstablishMirrorForSlot, IsRegistry
  <2>9. q.me = d.me /\ q.free = d.free /\ q.el = el /\ q.props = d.props /\ IsRegistry(q)
    BY <2>8 DEF IsRegistry
  <2>10. el \in [PeerSlotIds -> PlayerElements] /\ el[s] = new
         /\ \A t \in PeerSlotIds \ {s} : el[t] = d.el[t]
    BY <1>3, <2>3, <2>6
  <2>11. ~ Mints(q, s) /\ ~ Mints(d, s)
         /\ \A t \in PeerSlotIds \ {s} : Mints(q, t) <=> Mints(d, t)
    BY <1>3, <2>3, <2>9, <2>10 DEF Mints, NoElement
  <2>12. \A t \in PeerSlotIds :
           /\ el[t].mirror => el[t].eid = OwnId(t) /\ t # p
           /\ ~ el[t].mirror /\ el[t].eid = NoEid => el[t] = NoElement
    BY <1>3, <2>2, <2>10 DEF Sound
  <2>13. \A t \in PeerSlotIds : Mints(q, t) =>
           /\ el[t].eid \in home \ (d.props \cup ToSet(d.free))
           /\ \A u \in PeerSlotIds \ {t} : Mints(q, u) => el[u].eid # el[t].eid
    BY <2>2, <2>10, <2>11 DEF Sound
  <2>14. Sound(q, p, home)
    BY <2>2, <2>9, <2>10, <2>12, <2>13 DEF Sound
  <2>15. \A stock : Covers(d, stock) => Covers(q, stock)
    BY <2>9, <2>10, <2>11 DEF Covers
  <2>16. el = [r.el EXCEPT ![s] = new]
    BY <1>0, <2>2, <2>6
  <2> QED BY <1>1, <2>2, <2>9, <2>14, <2>15, <2>16 DEF Identified
<1> QED BY <1>4, <1>5

(* A process starts with its stock, some of it in use for props.           *)
LEMMA Started ==
    ASSUME NEW p \in Processes, NEW r, r = Fresh(p)
    PROVE  /\ RegistryOf(r, p) /\ r.me = Unknown /\ r.el = [s \in PeerSlotIds |-> NoElement]
           /\ Covers(r, Stock(p, Unknown))
           /\ IsFiniteSet(r.props)
           /\ Cardinality(r.props) =< (IF p = HostSlot THEN 0 ELSE Seeds)
           /\ p = HostSlot => r.free # <<>> /\ Last(r.free) = 1 /\ r.props = {}
<1>1. PICK lo \in Nat, hi \in Nat :
        /\ lo = IF p = HostSlot THEN 1 ELSE BandBase(0)
        /\ hi = IF p = HostSlot THEN HostRangeSize ELSE BandEnd(0)
  BY IdRangesAssumption, BandBounds DEF PeerSlotIds
<1>2. PICK seeded \in Nat : seeded = IF p = HostSlot THEN 0 ELSE Seeds
  BY PeersAssumption
<1>3. PICK stack : stack = DescendingStack(lo, hi)
  OBVIOUS
<1>4. lo < hi /\ seeded =< hi - lo /\ lo .. hi - 1 = Stock(p, Unknown)
  <2>1. CASE p = HostSlot
    BY <1>1, <1>2, <2>1, IdRangesAssumption DEF Stock, HostMintIds
  <2>2. CASE p # HostSlot
    <3>1. 0 \in PeerSlotIds /\ SlotBandSize \in Nat \ {0}
      BY IdRangesAssumption, SlotBandSizeBounds DEF PeerSlotIds
    <3>2. BandBase(0) + SlotBandSize =< BandEnd(0) /\ Seeds =< SlotBandSize
      BY <3>1, BandBounds, PeersAssumption
    <3>3. lo = BandBase(0) /\ hi = BandEnd(0) /\ seeded = Seeds
      BY <1>1, <1>2, <2>2
    <3>4. lo .. hi - 1 = Stock(p, Unknown)
      BY <2>2, <3>3 DEF Stock, Band
    <3> QED BY <3>1, <3>2, <3>3, <3>4
  <2> QED BY <2>1, <2>2
<1>5. /\ stack \in Seq(lo .. hi - 1) /\ IsInjective(stack)
      /\ ToSet(stack) = lo .. hi - 1 /\ Len(stack) = hi - lo /\ stack[hi - lo] = lo
  <2>1. stack \in Seq(lo .. hi - 1) /\ IsInjective(stack) /\ ToSet(stack) = lo .. hi - 1
    BY <1>3, <1>4, DescendingStackProperties
  <2>2. stack = [i \in 1 .. hi - lo |-> hi - i] /\ hi - lo \in Nat /\ hi - lo \in 1 .. hi - lo
    BY <1>3, <1>4 DEF DescendingStack
  <2>3. Len(stack) \in Nat /\ DOMAIN stack = 1 .. Len(stack)
    BY <2>1, LenProperties
  <2>4. Len(stack) = hi - lo
    BY <2>2, <2>3
  <2> QED BY <2>1, <2>2, <2>4
<1>6. PICK n \in 0 .. hi - lo : n = Len(stack) - seeded
  BY <1>4, <1>5
<1>7. PICK f : f = SubSeq(stack, 1, n)
  OBVIOUS
<1>8. PICK used : used = {stack[i] : i \in n + 1 .. Len(stack)}
  OBVIOUS
<1>9. r = [me |-> Unknown, free |-> f, el |-> [s \in PeerSlotIds |-> NoElement], props |-> used]
  BY <1>1, <1>2, <1>3, <1>6, <1>7, <1>8 DEF Fresh
<1>10. /\ r.me = Unknown /\ r.free = f /\ r.el = [s \in PeerSlotIds |-> NoElement]
       /\ r.props = used /\ IsRegistry(r)
  BY <1>9 DEF IsRegistry
<1>11. PICK len \in Nat : len = hi - lo /\ len = Len(stack) /\ DOMAIN stack = 1 .. len
  BY <1>4, <1>5, LenProperties
<1>12. \A i \in 1 .. len : stack[i] \in lo .. hi - 1
  BY <1>5, <1>11, ElementOfSeq
<1>13. /\ f \in Seq(lo .. hi - 1) /\ Len(f) = n /\ DOMAIN f = 1 .. n
       /\ \A i \in 1 .. n : f[i] = stack[i]
  <2>1. \A i \in 1 .. n : i \in 1 .. len
    BY <1>11
  <2>2. f \in Seq(lo .. hi - 1) /\ Len(f) = n /\ \A i \in 1 .. n : f[i] = stack[i]
    BY <1>5, <1>6, <1>7, <1>11, <1>12, <2>1, SubSeqProperties
  <2> QED BY <2>2, LenProperties
<1>14. IsInjective(f)
  BY <1>5, <1>11, <1>13 DEF IsInjective
<1>15. used \subseteq lo .. hi - 1 /\ used \cap ToSet(f) = {}
  <2>1. ASSUME NEW i \in n + 1 .. len, NEW j \in 1 .. n PROVE stack[i] # stack[j]
    <3>1. i \in DOMAIN stack /\ j \in DOMAIN stack /\ i # j
      BY <1>11
    <3> QED BY <1>5, <3>1 DEF IsInjective
  <2>2. \A i \in n + 1 .. len : stack[i] \in lo .. hi - 1
    BY <1>12
  <2>3. \A x \in ToSet(f) : \E j \in 1 .. n : x = stack[j]
    BY <1>13 DEF ToSet
  <2> QED BY <1>8, <1>11, <2>1, <2>2, <2>3
<1>16. lo .. hi - 1 \subseteq ToSet(f) \cup used
  <2>1. \A i \in 1 .. n : stack[i] \in ToSet(f)
    BY <1>13 DEF ToSet
  <2>2. \A i \in n + 1 .. len : stack[i] \in used
    BY <1>8, <1>11
  <2>3. \A i \in 1 .. len : i \in 1 .. n \/ i \in n + 1 .. len
    BY <1>11
  <2>4. \A x \in lo .. hi - 1 : \E i \in 1 .. len : x = stack[i]
    BY <1>5, <1>11 DEF ToSet
  <2> QED BY <2>1, <2>2, <2>3, <2>4
<1>17. IsFiniteSet(used) /\ Cardinality(used) =< seeded
  <2> DEFINE I == n + 1 .. len
  <2>1. IsFiniteSet(I) /\ Cardinality(I) = seeded
    <3>1. n + 1 \in Int /\ len \in Int /\ len - (n + 1) + 1 = seeded
          /\ (n + 1 > len <=> seeded = 0)
      BY <1>6, <1>11
    <3> QED BY <3>1, FS_Interval
  <2>2. [i \in I |-> stack[i]] \in Surjection(I, used)
    BY <1>8, <1>11 DEF Surjection
  <2> HIDE DEF I
  <2> QED BY <2>1, <2>2, FS_Surjection
<1>18. Covers(r, Stock(p, Unknown))
  BY <1>4, <1>10, <1>16 DEF Covers
<1>19. /\ Stock(p, Unknown) \subseteq Home(p, Unknown)
       /\ \A s \in PeerSlotIds : r.el[s] = NoElement /\ NoElement \in PlayerElements
  BY <1>10, IdRangesAssumption DEF Stock, Home, NoElement, NoEid, PlayerElements, Ids
<1>20. f \in Seq(Home(p, Unknown)) /\ used \subseteq Home(p, Unknown)
  BY <1>4, <1>13, <1>15, <1>19, ElementOfSeq, LenProperties, SeqDef
<1>21. Sound(r, p, Home(p, Unknown))
  <2>1. r.el \in [PeerSlotIds -> PlayerElements]
    BY <1>10, <1>19
  <2>2. NoElement.eid = NoEid /\ ~ NoElement.mirror
    BY DEF NoElement
  <2>3. \A s \in PeerSlotIds : ~ r.el[s].mirror /\ ~ Mints(r, s) /\ r.el[s] = NoElement
    BY <1>19, <2>2 DEF Mints
  <2> QED BY <1>10, <1>14, <1>15, <1>20, <2>1, <2>3 DEF Sound
<1>22. p \in PeerSlotIds /\ p # Unknown
  BY PlayerIds DEF Processes
<1>23. RegistryOf(r, p)
  BY <1>10, <1>19, <1>21, <1>22 DEF RegistryOf
<1>24. p = HostSlot => f # <<>> /\ Last(f) = 1 /\ used = {}
  <2> SUFFICES ASSUME p = HostSlot PROVE f # <<>> /\ Last(f) = 1 /\ used = {}
    OBVIOUS
  <2>1. n = len /\ lo = 1 /\ n \in Nat \ {0}
    BY <1>1, <1>2, <1>4, <1>6, <1>11
  <2>2. f # <<>> /\ Last(f) = f[n]
    BY <1>13, <2>1, EmptySeq DEF Last
  <2>3. f[n] = 1
    BY <1>5, <1>11, <1>13, <2>1
  <2>4. used = {}
    BY <1>8, <1>11, <2>1
  <2> QED BY <2>2, <2>3, <2>4
<1> QED BY <1>2, <1>10, <1>17, <1>18, <1>23, <1>24

(* SetLocalPeerId: a process that did not know its slot draws from its own *)
(* stock now, and has its own element under the first id of that. *)
LEMMA Switched ==
    ASSUME NEW p \in Processes, NEW r, RegistryOf(r, p), NEW q, q = SetLocalPeerId(r, p)
    PROVE  /\ RegistryOf(q, p) /\ q.me = p /\ q.props = r.props
           /\ \A s \in PeerSlotIds \ {p} : q.el[s] = r.el[s]
           /\ Covers(r, Stock(p, r.me)) => Covers(q, Stock(p, p))
<1>0. /\ OwnId(p) \in Ids \ {NoEid} /\ OwnId(p) \in Stock(p, p) /\ p # Unknown
      /\ p \in PeerSlotIds
  BY PlayerIds DEF Processes
<1>1. CASE r.me = p
  <2>1. r.el[p] = OwnElement(p) /\ OwnElement(p) # NoElement
    BY <1>0, <1>1 DEF RegistryOf, OwnElement, NoElement
  <2>2. q = r
    BY <1>1, <2>1 DEF SetLocalPeerId
  <2> QED BY <1>1, <2>2
<1>2. CASE r.me # p
  <2>1. r.me = Unknown /\ r.el[p] = NoElement /\ Sound(r, p, Home(p, Unknown))
    BY <1>0, <1>2 DEF RegistryOf
  <2>2. PICK f : f = IF p = HostSlot THEN r.free ELSE DescendingStack(BandBase(p), BandEnd(p))
    OBVIOUS
  <2>3. PICK k : k = [me |-> p, free |-> f, el |-> r.el, props |-> r.props]
    OBVIOUS
  <2>4. k.me = p /\ k.free = f /\ k.el = r.el /\ k.props = r.props /\ IsRegistry(k)
    BY <2>3 DEF IsRegistry
  <2>5. \A s \in PeerSlotIds : Mints(k, s) <=> Mints(r, s)
    BY <2>4 DEF Mints
  <2>6. q = EnsurePlayerElement(k, p, FALSE)
    <3>1. ~ (r.me = p /\ r.el[p] # NoElement)
      BY <1>2
    <3>2. [r EXCEPT !.me = p] = [me |-> p, free |-> r.free, el |-> r.el, props |-> r.props]
      BY <2>1 DEF Sound, IsRegistry
    <3>3. CASE p = HostSlot
      BY <2>1, <2>2, <2>3, <3>1, <3>2, <3>3 DEF SetLocalPeerId
    <3>4. CASE p # HostSlot
      <4>1. TakePeerBand([r EXCEPT !.me = p], p) = k
        <5>1. PICK x : x = [me |-> p, free |-> r.free, el |-> r.el, props |-> r.props]
          OBVIOUS
        <5>2. [x EXCEPT !.free = f] = [me |-> p, free |-> f, el |-> r.el, props |-> r.props]
          BY <5>1
        <5>3. TakePeerBand(x, p) = [x EXCEPT !.free = f]
          BY <2>2, <3>4 DEF TakePeerBand
        <5> QED BY <2>3, <3>2, <5>1, <5>2, <5>3
      <4> QED BY <1>2, <2>1, <3>1, <3>4, <4>1 DEF SetLocalPeerId
    <3> QED BY <3>3, <3>4
  <2>7. DropPlayerElement(k, p) = k
    <3>1. r.el[p].eid = NoEid /\ ~ r.el[p].mirror
      BY <2>1 DEF NoElement
    <3>2. [r.el EXCEPT ![p] = NoElement] = r.el
      BY <2>1 DEF Sound
    <3>3. PICK freed : freed = IF k.el[p].eid = NoEid \/ k.el[p].mirror THEN k.free
                               ELSE Append(k.free, k.el[p].eid)
      OBVIOUS
    <3>4. freed = k.free
      BY <2>4, <3>1, <3>3
    <3>5. PICK el : el = [k.el EXCEPT ![p] = NoElement]
      OBVIOUS
    <3>6. el = k.el
      BY <2>4, <3>2, <3>5
    <3>7. DropPlayerElement(k, p) = [k EXCEPT !.el = el, !.free = freed]
      BY <3>3, <3>5 DEF DropPlayerElement
    <3>8. [k EXCEPT !.el = k.el, !.free = k.free] = k
      BY <2>4 DEF IsRegistry
    <3> QED BY <3>4, <3>6, <3>7, <3>8
  <2>8. q = AllocPlayerElement(k, p, FALSE)
    BY <2>1, <2>4, <2>6, <2>7 DEF EnsurePlayerElement, NoElement
  <2>9. PICK home : home = Home(p, p)
    OBVIOUS
  <2>10. home \subseteq Ids \ {NoEid} /\ \A s \in PeerSlotIds \ {p} : OwnId(s) \notin home
    BY <2>9, PlayerIds DEF Processes
  <2>11. /\ Sound(k, p, home)
         /\ f # <<>> /\ Last(f) = OwnId(p)
         /\ Covers(r, Stock(p, Unknown)) => Covers(k, Stock(p, p))
    <3>1. CASE p = HostSlot
      <4>1. r = Fresh(p)
        BY <2>1, <3>1 DEF RegistryOf
      <4>2. r.free # <<>> /\ Last(r.free) = 1
        BY <3>1, <4>1, Started
      <4>3. Home(p, Unknown) = home /\ Stock(p, Unknown) = Stock(p, p) /\ f = r.free
            /\ OwnId(p) = 1
        BY <2>2, <2>9, <3>1 DEF Home, Stock, OwnId
      <4>4. Sound(k, p, home)
        BY <2>1, <2>4, <2>5, <4>3 DEF Sound
      <4>5. Covers(r, Stock(p, Unknown)) => Covers(k, Stock(p, p))
        BY <2>4, <2>5, <4>3 DEF Covers
      <4> QED BY <4>2, <4>3, <4>4, <4>5
    <3>2. CASE p # HostSlot
      <4>1. /\ Home(p, Unknown) = Band(0) /\ home = Band(0) \cup Band(p) /\ Stock(p, p) = Band(p)
            /\ OwnId(p) = BandBase(p)
        BY <1>0, <2>9, <3>2 DEF Home, Stock, OwnId
      <4>2. /\ BandBase(p) \in Nat /\ BandEnd(p) \in Nat /\ BandBase(p) < BandEnd(p)
            /\ Band(0) \cap Band(p) = {}
        BY <1>0, <3>2, BandBounds, PlayerIds
      <4>3. /\ f \in Seq(Band(p)) /\ IsInjective(f) /\ ToSet(f) = Band(p)
        <5>1. PICK lo \in Nat, hi \in Nat : lo = BandBase(p) /\ hi = BandEnd(p)
          BY <4>2
        <5>2. Band(p) = lo .. hi - 1 /\ lo =< hi /\ f = DescendingStack(lo, hi)
          BY <2>2, <3>2, <4>2, <5>1 DEF Band
        <5> QED BY <5>2, DescendingStackProperties
      <4>4. f # <<>> /\ Last(f) = OwnId(p)
        <5>1. PICK n \in Nat : n = BandEnd(p) - BandBase(p)
          BY <4>2
        <5>2. n > 0 /\ f = [i \in 1 .. n |-> BandEnd(p) - i]
          BY <2>2, <3>2, <4>2, <5>1 DEF DescendingStack
        <5>3. Len(f) \in Nat /\ DOMAIN f = 1 .. Len(f)
          BY <4>3, LenProperties
        <5>4. Len(f) = n /\ f[n] = BandBase(p)
          BY <4>2, <5>1, <5>2, <5>3
        <5> QED BY <4>1, <4>3, <5>2, <5>4, EmptySeq DEF Last
      <4>5. f \in Seq(home)
        BY <4>1, <4>3, ElementOfSeq, LenProperties, SeqDef
      <4>6. r.props \subseteq home /\ r.props \cap ToSet(f) = {}
        BY <2>1, <4>1, <4>2, <4>3 DEF Sound
      <4>7. \A s \in PeerSlotIds : Mints(k, s) =>
                /\ k.el[s].eid \in home \ (k.props \cup ToSet(f))
                /\ \A t \in PeerSlotIds \ {s} : Mints(k, t) => k.el[t].eid # k.el[s].eid
        BY <2>1, <2>4, <2>5, <4>1, <4>2, <4>3 DEF Sound
      <4>8. Sound(k, p, home)
        BY <2>1, <2>4, <4>3, <4>5, <4>6, <4>7 DEF Sound
      <4>9. Covers(k, Stock(p, p))
        BY <2>4, <4>1, <4>3 DEF Covers
      <4> QED BY <4>4, <4>8, <4>9
    <3> QED BY <3>1, <3>2
  <2>12. PICK own : own = OwnElement(p)
    OBVIOUS
  <2>13. /\ Sound(q, p, home) /\ q.me = p /\ q.props = r.props
         /\ q.el = [r.el EXCEPT ![p] = own]
         /\ \A stock : Covers(k, stock) => Covers(q, stock)
    <3>1. home \subseteq Ids \ {NoEid}
      BY <2>10
    <3>5. \A s \in PeerSlotIds \ {p} : OwnId(s) \notin home
      BY <2>10
    <3>6. Sound(k, p, home)
      BY <2>11
    <3>7. k.el[p] = NoElement
      BY <2>1, <2>4
    <3>4. k.free # <<>> /\ Last(k.free) = OwnId(p)
      BY <2>4, <2>11
    <3>8. FALSE \in BOOLEAN
      OBVIOUS
    <3>9. Given(q, k, p, FALSE, p, home)
      BY <1>0, <2>8, <3>1, <3>5, <3>6, <3>7, <3>8, Allocated
    <3> QED BY <2>4, <2>12, <3>4, <3>9 DEF Given, OwnElement
  <2>14. r.el \in [PeerSlotIds -> PlayerElements]
    BY <2>1 DEF Sound
  <2>15. q.el[p] = own /\ \A s \in PeerSlotIds \ {p} : q.el[s] = r.el[s]
    BY <1>0, <2>13, <2>14
  <2>16. RegistryOf(q, p)
    BY <1>0, <2>9, <2>12, <2>13, <2>15 DEF RegistryOf
  <2> QED BY <2>1, <2>11, <2>13, <2>15, <2>16
<1> QED BY <1>1, <1>2

(* A prop that is dropped takes the next free id ... *)
Taken(q, r, p, home) ==
    /\ Sound(q, p, home) /\ q.me = r.me /\ q.el = r.el
    /\ q.props = r.props \cup {Last(r.free)}
    /\ \A stock : Covers(r, stock) => Covers(q, stock)

LEMMA PropMinted ==
    ASSUME NEW p \in Processes, NEW home, NEW r, Sound(r, p, home), CanAlloc(r),
           NEW q, q = MintProp(r)
    PROVE  Taken(q, r, p, home)
<1>1. PICK id : id = Last(r.free)
  OBVIOUS
<1>2. PICK f : f = Front(r.free)
  OBVIOUS
<1>3. r.free # <<>> /\ id \notin Occupied(r)
  BY <1>1 DEF CanAlloc
<1>4. /\ f \in Seq(home) /\ IsInjective(f) /\ id \in ToSet(r.free) /\ id \in home
      /\ ToSet(f) = ToSet(r.free) \ {id}
  BY <1>1, <1>2, <1>3, PopProperties DEF Sound
<1>5. q = [me |-> r.me, free |-> f, el |-> r.el, props |-> r.props \cup {id}]
  BY <1>1, <1>2 DEF MintProp, Popped, Sound, IsRegistry
<1>6. q.me = r.me /\ q.free = f /\ q.el = r.el /\ q.props = r.props \cup {id} /\ IsRegistry(q)
  <2>1. PICK held : held = r.props \cup {id}
    OBVIOUS
  <2>2. q = [me |-> r.me, free |-> f, el |-> r.el, props |-> held]
    BY <1>5, <2>1, Zenon
  <2>3. q.me = r.me /\ q.free = f /\ q.el = r.el /\ q.props = held /\ IsRegistry(q)
    BY <2>2 DEF IsRegistry
  <2> QED BY <2>1, <2>3
<1>7. \A s \in PeerSlotIds : Mints(q, s) <=> Mints(r, s)
  BY <1>6 DEF Mints
<1>8. \A s \in PeerSlotIds : Mints(r, s) => r.el[s].eid # id
  BY <1>4 DEF Sound
<1>9. r.props \cup {id} \subseteq home /\ (r.props \cup {id}) \cap ToSet(f) = {}
  BY <1>4 DEF Sound
<1>10. \A s \in PeerSlotIds : Mints(q, s) =>
          /\ r.el[s].eid \in home \ ((r.props \cup {id}) \cup ToSet(f))
          /\ \A t \in PeerSlotIds \ {s} : Mints(q, t) => r.el[t].eid # r.el[s].eid
  BY <1>4, <1>7, <1>8 DEF Sound
<1>11. Sound(q, p, home)
  <2>1. /\ q.el \in [PeerSlotIds -> PlayerElements]
        /\ \A s \in PeerSlotIds :
              /\ q.el[s].mirror => q.el[s].eid = OwnId(s) /\ s # p
              /\ ~ q.el[s].mirror /\ q.el[s].eid = NoEid => q.el[s] = NoElement
    BY <1>6 DEF Sound
  <2>2. /\ q.free \in Seq(home) /\ IsInjective(q.free)
        /\ q.props \subseteq home /\ q.props \cap ToSet(q.free) = {}
    BY <1>4, <1>6, <1>9
  <2>3. \A s \in PeerSlotIds : Mints(q, s) =>
            /\ q.el[s].eid \in home \ (q.props \cup ToSet(q.free))
            /\ \A t \in PeerSlotIds \ {s} : Mints(q, t) => q.el[t].eid # q.el[s].eid
    BY <1>6, <1>10
  <2> QED BY <1>6, <2>1, <2>2, <2>3 DEF Sound
<1>12. \A stock : Covers(r, stock) => Covers(q, stock)
  BY <1>4, <1>6, <1>7 DEF Covers
<1> QED BY <1>1, <1>6, <1>11, <1>12 DEF Taken

(* ... and gives it back when it is destroyed. *)
LEMMA PropGone ==
    ASSUME NEW p \in Processes, NEW home, NEW r, Sound(r, p, home), NEW id \in r.props,
           NEW q, q = FreeProp(r, id)
    PROVE  /\ Sound(q, p, home) /\ q.me = r.me /\ q.el = r.el /\ q.props = r.props \ {id}
           /\ \A stock : Covers(r, stock) => Covers(q, stock)
<1>1. PICK f : f = Append(r.free, id)
  OBVIOUS
<1>2. id \in home /\ id \notin ToSet(r.free) /\ r.free \in Seq(home) /\ IsInjective(r.free)
  BY DEF Sound
<1>3. f \in Seq(home) /\ IsInjective(f) /\ ToSet(f) = ToSet(r.free) \cup {id}
  BY <1>1, <1>2, PushProperties
<1>4. q = [me |-> r.me, free |-> f, el |-> r.el, props |-> r.props \ {id}]
  BY <1>1 DEF FreeProp, Sound, IsRegistry
<1>5. q.me = r.me /\ q.free = f /\ q.el = r.el /\ q.props = r.props \ {id} /\ IsRegistry(q)
  <2>1. PICK held : held = r.props \ {id}
    OBVIOUS
  <2>2. q = [me |-> r.me, free |-> f, el |-> r.el, props |-> held]
    BY <1>4, <2>1, Zenon
  <2>3. q.me = r.me /\ q.free = f /\ q.el = r.el /\ q.props = held /\ IsRegistry(q)
    BY <2>2 DEF IsRegistry
  <2> QED BY <2>1, <2>3
<1>6. \A s \in PeerSlotIds : Mints(q, s) <=> Mints(r, s)
  BY <1>5 DEF Mints
<1>7. \A s \in PeerSlotIds : Mints(r, s) => r.el[s].eid # id
  BY DEF Sound
<1>8. r.props \ {id} \subseteq home /\ (r.props \ {id}) \cap ToSet(f) = {}
  BY <1>3 DEF Sound
<1>9. \A s \in PeerSlotIds : Mints(q, s) =>
          /\ r.el[s].eid \in home \ ((r.props \ {id}) \cup ToSet(f))
          /\ \A t \in PeerSlotIds \ {s} : Mints(q, t) => r.el[t].eid # r.el[s].eid
  BY <1>3, <1>6, <1>7 DEF Sound
<1>10. Sound(q, p, home)
  <2>1. /\ q.el \in [PeerSlotIds -> PlayerElements]
        /\ \A s \in PeerSlotIds :
              /\ q.el[s].mirror => q.el[s].eid = OwnId(s) /\ s # p
              /\ ~ q.el[s].mirror /\ q.el[s].eid = NoEid => q.el[s] = NoElement
    BY <1>5 DEF Sound
  <2>2. /\ q.free \in Seq(home) /\ IsInjective(q.free)
        /\ q.props \subseteq home /\ q.props \cap ToSet(q.free) = {}
    BY <1>3, <1>5, <1>8
  <2>3. \A s \in PeerSlotIds : Mints(q, s) =>
            /\ q.el[s].eid \in home \ (q.props \cup ToSet(q.free))
            /\ \A t \in PeerSlotIds \ {s} : Mints(q, t) => q.el[t].eid # q.el[s].eid
    BY <1>5, <1>9
  <2> QED BY <1>5, <2>1, <2>2, <2>3 DEF Sound
<1>11. \A stock : Covers(r, stock) => Covers(q, stock)
  BY <1>3, <1>5, <1>6 DEF Covers
<1> QED BY <1>5, <1>10, <1>11

-----------------------------------------------------------------------------
(* Who is who: the nicknames.                                              *)

Glyphs == Shown \cup {Blank}

(* What may stand above a puppet: of the length the build allows, and      *)
(* without the dashes and spaces that SanitizeNickname trims.              *)
Displayable(n) ==
    /\ n \in Seq(Glyphs) /\ Len(n) \in 1 .. MaxNickLen
    /\ Head(n) # Dash /\ Last(n) \notin {Dash, Blank}

(* The last of some places, and the first. *)
LEMMA MaxOfPlaces ==
    ASSUME NEW k \in Nat, NEW S \in SUBSET (0 .. k), S # {}
    PROVE  Max(S) \in S /\ \A x \in S : Max(S) >= x
<1>1. PICK T : T = {k - x : x \in S}
  OBVIOUS
<1>2. T \in SUBSET Nat /\ T # {}
  <2>1. \A x \in S : k - x \in Nat
    OBVIOUS
  <2> QED BY <1>1, <2>1
<1>3. PICK least \in T : \A n \in T : least =< n
  BY <1>2, LeastOfNaturals
<1>4. PICK top \in S : least = k - top
  BY <1>1
<1>5. \A x \in S : top >= x
  <2> TAKE x \in S
  <2>1. k - x \in T
    BY <1>1
  <2> QED BY <1>3, <1>4, <2>1
<1> QED BY <1>4, <1>5 DEF Max

LEMMA MinOfPlaces ==
    ASSUME NEW S \in SUBSET Nat, S # {}
    PROVE  Min(S) \in S /\ \A x \in S : Min(S) =< x
<1>1. PICK least \in S : \A n \in S : least =< n
  BY LeastOfNaturals
<1> QED BY <1>1 DEF Min

(* Stripped: only what may be shown, and not more of it than fits. *)
LEMMA StrippedName ==
    ASSUME NEW T, NEW raw \in Seq(T), NEW n, n = Stripped(raw)
    PROVE  n \in Seq(Glyphs) /\ Len(n) \in 0 .. MaxNickLen
<1>1. PICK stays : stays = {i \in DOMAIN raw :
            \/ raw[i] \in Shown
            \/ raw[i] = Blank /\ \E j \in 1 .. i - 1 :
                  raw[j] \in Shown /\ \A k \in j + 1 .. i - 1 : raw[k] \notin Shown \cup {Blank}}
  OBVIOUS
<1>2. PICK fits : fits = {i \in stays : RankIn(stays, i) =< MaxNickLen}
  OBVIOUS
<1>3. n = Kept(raw, fits)
  BY <1>1, <1>2 DEF Stripped
<1>4. PICK len \in Nat : len = Len(raw) /\ DOMAIN raw = 1 .. len
  BY LenProperties
<1>5. stays \in SUBSET (1 .. len) /\ fits \in SUBSET stays
      /\ \A i \in stays : raw[i] \in Glyphs
  BY <1>1, <1>2, <1>4 DEF Shown, Glyphs
<1>6. fits \in SUBSET (1 .. len) /\ fits \in SUBSET DOMAIN raw
      /\ \A i \in fits : raw[i] \in Glyphs /\ RankIn(stays, i) =< MaxNickLen
  BY <1>2, <1>4, <1>5
<1>7. MaxNickLen \in Nat
  BY PeersAssumption
<1>8. IsFiniteSet(fits) /\ Cardinality(fits) \in 0 .. MaxNickLen
  <2>1. /\ \A i \in stays : RankIn(stays, i) \in 1 .. Cardinality(stays)
        /\ \A i, j \in stays : i < j => RankIn(stays, i) < RankIn(stays, j)
    BY <1>5, RankInIsOnto
  <2>2. IsFiniteSet(stays) /\ IsFiniteSet(fits)
    BY <1>5, <1>6, RankInSteps
  <2>3. Cardinality(stays) \in Nat /\ Cardinality(fits) \in Nat
    BY <2>2, FS_CardinalityType
  <2>4. [i \in fits |-> RankIn(stays, i)] \in Injection(fits, 1 .. MaxNickLen)
    <3>1. \A i \in fits : RankIn(stays, i) \in 1 .. MaxNickLen
      BY <1>5, <1>6, <1>7, <2>1, <2>3
    <3>2. \A i, j \in fits : i # j => RankIn(stays, i) # RankIn(stays, j)
      BY <1>5, <2>1, <2>3
    <3> QED BY <3>1, <3>2 DEF Injection, IsInjective
  <2>5. IsFiniteSet(1 .. MaxNickLen) /\ Cardinality(1 .. MaxNickLen) = MaxNickLen
    BY <1>7, FS_Interval
  <2>6. Cardinality(fits) =< Cardinality(1 .. MaxNickLen)
    BY <2>4, <2>5, FS_Injection
  <2> QED BY <1>7, <2>2, <2>3, <2>5, <2>6
<1>9. n \in Seq(T) /\ \A m \in DOMAIN n : n[m] \in Glyphs
  <2>1. /\ Kept(raw, fits) \in Seq(T)
        /\ \A m \in DOMAIN Kept(raw, fits) : \E i \in fits : Kept(raw, fits)[m] = raw[i]
    BY <1>6, KeptElements
  <2> QED BY <1>3, <1>6, <2>1
<1>10. Len(n) = Cardinality(fits)
  <2>1. DOMAIN n = 1 .. Cardinality(fits)
    BY <1>3 DEF Kept
  <2> QED BY <1>7, <1>8, <1>9, <2>1, LenProperties
<1> QED BY <1>8, <1>9, <1>10, LenProperties, SeqDef, ElementOfSeq

(* SanitizeNickname: what is shown is displayable, whatever the raw name.  *)
LEMMA SanitizedName ==
    ASSUME NEW T, NEW raw \in Seq(T)
    PROVE  Displayable(SanitizeNickname(raw))
<1>1. PICK n : n = Stripped(raw)
  OBVIOUS
<1>2. n \in Seq(Glyphs) /\ Len(n) \in 0 .. MaxNickLen /\ Len(n) \in Nat
      /\ DOMAIN n = 1 .. Len(n)
  BY <1>1, StrippedName, LenProperties
<1>3. PICK S : S = {0} \cup {i \in DOMAIN n : n[i] \notin {Blank, Dash}}
  OBVIOUS
<1>4. PICK m \in 0 .. Len(n) : m = Max(S) /\ (m # 0 => n[m] \notin {Blank, Dash})
  <2>1. S \in SUBSET (0 .. Len(n)) /\ S # {}
    BY <1>2, <1>3
  <2>2. Max(S) \in S
    BY <1>2, <2>1, MaxOfPlaces
  <2> QED BY <1>3, <2>1, <2>2
<1>5. PICK r : r = SubSeq(n, 1, m)
  OBVIOUS
<1>6. /\ r \in Seq(Glyphs) /\ Len(r) = m /\ DOMAIN r = 1 .. m /\ m \in Nat /\ m =< MaxNickLen
      /\ m # 0 => r[m] \notin {Blank, Dash}
  <2>1. \A i \in 1 .. m : n[i] \in Glyphs
    BY <1>2, <1>4, ElementOfSeq
  <2>2. r \in Seq(Glyphs) /\ Len(r) = (IF 1 <= m THEN m - 1 + 1 ELSE 0)
        /\ \A i \in 1 .. m - 1 + 1 : r[i] = n[1 + i - 1]
    BY <1>4, <1>5, <2>1, SubSeqProperties
  <2>3. m \in Nat /\ m =< MaxNickLen /\ Len(r) = m
    BY <1>2, <1>4, <2>2, PeersAssumption
  <2>4. m # 0 => r[m] = n[m]
    BY <2>2, <2>3
  <2> QED BY <1>4, <2>2, <2>3, <2>4, LenProperties
<1>7. TrimRight(Stripped(raw)) = r
  BY <1>1, <1>3, <1>4, <1>5 DEF TrimRight
<1>8. PICK L : L = {m + 1} \cup {i \in DOMAIN r : r[i] # Dash}
  OBVIOUS
<1>9. PICK k \in 1 .. m + 1 : k = Min(L) /\ (k # m + 1 => r[k] # Dash)
                              /\ (m # 0 => k =< m)
  <2>1. L \in SUBSET Nat /\ L # {} /\ L \subseteq 1 .. m + 1
    BY <1>6, <1>8
  <2>2. Min(L) \in L /\ \A x \in L : Min(L) =< x
    BY <2>1, MinOfPlaces
  <2>3. m # 0 => m \in L
    BY <1>6, <1>8
  <2> QED BY <1>6, <1>8, <2>1, <2>2, <2>3
<1>10. PICK t : t = SubSeq(r, k, m)
  OBVIOUS
<1>11. /\ t \in Seq(Glyphs) /\ Len(t) = m - k + 1 /\ DOMAIN t = 1 .. Len(t)
       /\ \A i \in 1 .. m - k + 1 : t[i] = r[k + i - 1]
  <2>1. \A i \in k .. m : r[i] \in Glyphs
    BY <1>6, <1>9, ElementOfSeq
  <2>2. k \in Int /\ m \in Int
    BY <1>6, <1>9
  <2>3. t \in Seq(Glyphs) /\ Len(t) = (IF k <= m THEN m - k + 1 ELSE 0)
        /\ \A i \in 1 .. m - k + 1 : t[i] = r[k + i - 1]
    BY <1>10, <2>1, <2>2, SubSeqProperties
  <2>4. Len(t) = m - k + 1
    BY <1>6, <1>9, <2>3
  <2> QED BY <2>3, <2>4, LenProperties
<1>12. SanitizeNickname(raw) = OrPlayer(t)
  <2>1. TrimLeft(r) = t
    BY <1>6, <1>8, <1>9, <1>10 DEF TrimLeft
  <2> QED BY <1>7, <2>1 DEF SanitizeNickname
<1>13. CASE m = 0
  <2>1. t = <<>>
    <3>1. k = 1
      BY <1>9, <1>13
    <3> QED BY <1>11, <1>13, <3>1, EmptySeq
  <2>2. SanitizeNickname(raw) = <<"a">>
    BY <1>12, <2>1 DEF OrPlayer
  <2>3. PICK a : a = "a" /\ a \in Glyphs /\ a # Dash /\ a # Blank
    BY DEF Glyphs, Shown, Dash, Blank
  <2>4. PICK one : one = <<a>>
    OBVIOUS
  <2>5. one \in Seq(Glyphs) /\ Len(one) = 1 /\ Head(one) = a
        /\ one[1] = a
    BY <2>3, <2>4
  <2>6. Last(one) = a
    BY <2>5 DEF Last
  <2> QED BY <2>2, <2>3, <2>4, <2>5, <2>6, PeersAssumption DEF Displayable
<1>14. CASE m # 0
  <2>1. Len(t) \in 1 .. MaxNickLen /\ t # <<>>
    BY <1>6, <1>9, <1>11, <1>14, PeersAssumption
  <2>2. Head(t) = r[k] /\ Last(t) = r[m]
    <3>1. t[1] = r[k] /\ t[Len(t)] = r[m]
      <4>1. k \in Int /\ m \in Int /\ k =< m /\ Len(t) = m - k + 1
        BY <1>6, <1>9, <1>11, <1>14
      <4>2. 1 \in 1 .. m - k + 1 /\ Len(t) \in 1 .. m - k + 1
            /\ k + 1 - 1 = k /\ k + Len(t) - 1 = m
        BY <4>1
      <4>3. t[1] = r[k + 1 - 1] /\ t[Len(t)] = r[k + Len(t) - 1]
        BY <1>11, <4>2
      <4> QED BY <4>2, <4>3
    <3>2. Head(t) = t[1]
      BY <1>11, <2>1, TailElements
    <3> QED BY <3>1, <3>2 DEF Last
  <2>3. Head(t) # Dash /\ Last(t) \notin {Dash, Blank}
    BY <1>6, <1>9, <1>14, <2>2
  <2> QED BY <1>11, <1>12, <2>1, <2>3 DEF Displayable, OrPlayer
<1> QED BY <1>13, <1>14
-----------------------------------------------------------------------------
(* Who is who: what holds of the session.                                  *)

(* The texts that stand for a nickname, in a message or in a cache. *)
Text == Seq(Characters \cup {"RemotePlayer"})
Name(n) == n \in {RemotePlayer, NoNick} \/ Displayable(n)

Messages == [kind : {"Join", "AssignPeerSlot", "PlayerJoined"}, from : Processes,
             slot : Processes, eid : Ids, nick : Text]

(* m may be under way to x while the clients of present are connected. *)
Due(x, m, present) ==
    \/ /\ m.kind = "Join" /\ m.slot = m.from /\ m.eid = OwnId(m.from)
       /\ m.from \in (IF x = HostSlot THEN present ELSE {HostSlot})
    \/ /\ m.kind = "AssignPeerSlot" /\ x # HostSlot
       /\ m.slot = x /\ m.eid \in {NoEid, OwnId(HostSlot)}
    \/ /\ m.kind = "PlayerJoined" /\ x # HostSlot
       /\ m.slot \in ClientSlotIds \ {x} /\ m.eid = OwnId(m.slot)

(* A process with these elements, nicknames and labels knows s; what is    *)
(* under way to it introduces s. *)
Known(r, n, l, s) ==
    /\ r.el[s].mirror
    /\ n[s] \notin {RemotePlayer, NoNick}
    /\ l[s] \in {NoPuppet, n[s]}
Introduced(q, s) ==
    \E m \in ToSet(q) : \/ m.kind = "Join" /\ m.from = s
                        \/ m.kind = "PlayerJoined" /\ m.slot = s

PeersTypes ==
    /\ up \subseteq seen /\ seen \subseteq ClientSlotIds
    /\ reg = [p \in Processes |-> reg[p]]
    /\ nick \in [Processes -> [PeerSlotIds -> Text]]
    /\ label \in [Processes -> [PeerSlotIds -> Text \cup {NoPuppet}]]
    /\ localNick \in [Processes -> Text]
    /\ joinSent \in [Processes -> SUBSET PeerSlotIds]
    /\ inbox \in [Processes -> Seq(Messages)]

RegistryInv == \A p \in Processes : RegistryOf(reg[p], p)

NamesInv ==
    \A p \in Processes : \A s \in PeerSlotIds :
        Name(nick[p][s]) /\ (label[p][s] = NoPuppet \/ Name(label[p][s]))

MailInv == \A x \in Processes : \A m \in ToSet(inbox[x]) : Due(x, m, up)

SessionInv ==
    /\ \A p \in Processes : joinSent[p] # {} => reg[p].me = p
    /\ \A c \in ClientSlotIds \ up : inbox[c] = <<>> /\ joinSent[c] = {}
    /\ \A c \in ClientSlotIds \ seen :
          c \notin joinSent[HostSlot] /\ reg[HostSlot].el[c] = NoElement

(* Who has sent its Join to p is known to p, or will be; and the host       *)
(* introduces those it knows to each other. *)
IntroInv ==
    /\ \A c \in up : c \in joinSent[HostSlot] =>
          Known(reg[c], nick[c], label[c], HostSlot) \/ Introduced(inbox[c], HostSlot)
    /\ \A c \in up : HostSlot \in joinSent[c] =>
          Known(reg[HostSlot], nick[HostSlot], label[HostSlot], c)
          \/ Introduced(inbox[HostSlot], c)
    /\ \A c, d \in up :
          /\ c # d
          /\ Known(reg[HostSlot], nick[HostSlot], label[HostSlot], c)
          /\ Known(reg[HostSlot], nick[HostSlot], label[HostSlot], d)
          => Known(reg[c], nick[c], label[c], d) \/ Introduced(inbox[c], d)

PeersInv ==
    PeersTypes /\ RegistryInv /\ NamesInv /\ MailInv /\ SessionInv /\ IntroInv

(* A name that is displayable is none of the placeholders. *)
LEMMA DisplayableIsName ==
    ASSUME NEW n, Displayable(n)
    PROVE  n \in Text /\ n \notin {RemotePlayer, NoNick, NoPuppet}
<1>1. n \in Text
  <2>1. Glyphs \subseteq Characters \cup {"RemotePlayer"}
    BY DEF Glyphs, Characters
  <2>2. Len(n) \in Nat /\ n \in [1 .. Len(n) -> Characters \cup {"RemotePlayer"}]
    BY <2>1, LenProperties, ElementOfSeq DEF Displayable
  <2> QED BY <2>2, SeqDef DEF Text
<1>2. n # NoNick
  BY PeersAssumption, EmptySeq DEF Displayable, NoNick
<1>3. n[1] \in Glyphs
  BY PeersAssumption, ElementOfSeq DEF Displayable
<1>4. RemotePlayer[1] = "RemotePlayer" /\ NoPuppet[1] = "NoPuppet"
  BY DEF RemotePlayer, NoPuppet
<1>5. "RemotePlayer" \notin Glyphs /\ "NoPuppet" \notin Glyphs
  BY DEF Glyphs, Shown, Blank, Dash
<1> QED BY <1>1, <1>2, <1>3, <1>4, <1>5

LEMMA PlaceholderNames ==
    /\ RemotePlayer \in Text /\ NoNick \in Text /\ <<"a">> \in Text
    /\ Name(RemotePlayer) /\ Name(NoNick)
<1>1. PICK c \in Characters \cup {"RemotePlayer"} : c = "RemotePlayer"
  OBVIOUS
<1>2. PICK a \in Characters \cup {"RemotePlayer"} : a = "a"
  BY DEF Characters, Shown
<1>3. <<c>> \in Text /\ <<a>> \in Text
  BY DEF Text
<1>4. NoNick \in Text
  BY EmptySeq DEF NoNick, Text
<1> QED BY <1>1, <1>2, <1>3, <1>4 DEF RemotePlayer, Name

LEMMA SanitizedIsName ==
    ASSUME NEW n \in Text
    PROVE  /\ SanitizeNickname(n) \in Text /\ Displayable(SanitizeNickname(n))
           /\ Name(SanitizeNickname(n))
           /\ SanitizeNickname(n) \notin {RemotePlayer, NoNick, NoPuppet}
<1>1. Displayable(SanitizeNickname(n))
  BY SanitizedName DEF Text
<1> QED BY <1>1, DisplayableIsName DEF Name

(* What is under way when one message has been sent, or taken off. *)
Sent(box, x, m) == [box EXCEPT ![x] = Append(@, m)]
Handled(box, x) == [box EXCEPT ![x] = Tail(@)]

(* Who is connected more has no less under way. *)
LEMMA DueMore ==
    ASSUME NEW x, NEW m, NEW here, NEW there, here \subseteq there, Due(x, m, here)
    PROVE  Due(x, m, there)
BY DEF Due

LEMMA SlotFacts ==
    /\ HostSlot \in Processes /\ ClientSlotIds = Processes \ {HostSlot}
    /\ PeerSlotIds = Processes /\ IsFiniteSet(PeerSlotIds)
    /\ Cardinality(PeerSlotIds) = PeerBandCount /\ Unknown \notin Processes
<1>1. PeerBandCount \in Nat /\ PeerBandCount > 1
  BY IdRangesAssumption
<1>2. IsFiniteSet(0 .. PeerBandCount - 1)
      /\ Cardinality(0 .. PeerBandCount - 1) = PeerBandCount
  BY <1>1, FS_Interval
<1> QED BY <1>1, <1>2 DEF HostSlot, Processes, ClientSlotIds, PeerSlotIds, Unknown
-----------------------------------------------------------------------------
(* Who is who: every action preserves the invariant.                       *)

(* An operation that leaves the own element, and whether the process knows *)
(* its slot. *)
LEMMA RegistryKept ==
    ASSUME NEW p \in Processes, NEW r, RegistryOf(r, p), p # HostSlot \/ r.me # Unknown,
           NEW q, Sound(q, p, Home(p, r.me)), q.me = r.me, q.el[p] = r.el[p]
    PROVE  RegistryOf(q, p)
BY DEF RegistryOf

LEMMA HomeOf ==
    ASSUME NEW p \in Processes, NEW r, RegistryOf(r, p), NEW home, home = Home(p, r.me)
    PROVE  /\ home \subseteq Ids \ {NoEid} /\ \A s \in PeerSlotIds \ {p} : OwnId(s) \notin home
           /\ Sound(r, p, home)
BY PlayerIds DEF RegistryOf, Processes

(* LocalPlayerElementId: the process's own id once it knows its slot. *)
LEMMA OwnEidOf ==
    ASSUME NEW p \in Processes, NEW r, RegistryOf(r, p)
    PROVE  OwnEid(r) = IF r.me = p THEN OwnId(p) ELSE NoEid
BY PlayerIds DEF RegistryOf, OwnEid, OwnElement

LEMMA HostStartsKeeps ==
    ASSUME PeersInv, HostStarts
    PROVE  PeersInv'
<1> USE SlotFacts
<1>1. PICK q : q = SetLocalPeerId(reg[HostSlot], HostSlot)
  OBVIOUS
<1>2. /\ RegistryOf(q, HostSlot) /\ q.me = HostSlot
      /\ \A s \in PeerSlotIds \ {HostSlot} : q.el[s] = reg[HostSlot].el[s]
  <2>1. RegistryOf(reg[HostSlot], HostSlot)
    BY DEF PeersInv, RegistryInv
  <2> QED BY <1>1, <2>1, Switched
<1>3. /\ reg' = [reg EXCEPT ![HostSlot] = q]
      /\ UNCHANGED <<up, greeted, seen, nick, label, localNick, joinSent, inbox, wire,
                     arrivals, drops>>
  BY <1>1 DEF HostStarts
<1>4. reg'[HostSlot] = q /\ (\A p \in Processes \ {HostSlot} : reg'[p] = reg[p])
      /\ reg' = [p \in Processes |-> reg'[p]]
  BY <1>3 DEF PeersInv, PeersTypes
<1>5. PeersTypes' /\ NamesInv' /\ MailInv'
  BY <1>3, <1>4 DEF PeersInv, PeersTypes, NamesInv, MailInv
<1>6. RegistryInv'
  BY <1>2, <1>4 DEF PeersInv, RegistryInv
<1>7. SessionInv'
  BY <1>2, <1>3, <1>4 DEF PeersInv, SessionInv
<1>8. IntroInv'
  <2>1. \A c \in up : reg'[c] = reg[c] /\ q.el[c] = reg[HostSlot].el[c]
    BY <1>2, <1>4 DEF PeersInv, PeersTypes
  <2>2. \A c \in up : Known(q, nick[HostSlot], label[HostSlot], c)
                     <=> Known(reg[HostSlot], nick[HostSlot], label[HostSlot], c)
    BY <2>1 DEF Known
  <2> QED BY <1>3, <1>4, <2>1, <2>2 DEF PeersInv, IntroInv
<1> QED BY <1>5, <1>6, <1>7, <1>8 DEF PeersInv

LEMMA ArriveKeeps ==
    ASSUME PeersInv, NEW c \in ClientSlotIds, Arrive(c)
    PROVE  PeersInv'
<1> USE SlotFacts
<1>1. PICK q : q = Fresh(c)
  OBVIOUS
<1>2. RegistryOf(q, c) /\ q.me = Unknown
  BY <1>1, Started
<1>3. /\ c \notin up \cup seen /\ up' = up \cup {c} /\ seen' = seen \cup {c}
      /\ reg' = [reg EXCEPT ![c] = q]
      /\ UNCHANGED <<nick, label, joinSent, inbox>>
  BY <1>1 DEF Arrive
<1>4. reg'[c] = q /\ (\A p \in Processes \ {c} : reg'[p] = reg[p])
      /\ reg' = [p \in Processes |-> reg'[p]]
  BY <1>3 DEF PeersInv, PeersTypes
<1>5. localNick' \in [Processes -> Text]
  <2>1. PICK raw \in RawNicks : localNick' = [localNick EXCEPT ![c] = SanitizeNickname(raw)]
    BY DEF Arrive
  <2>2. SanitizeNickname(raw) \in Text
    BY PeersAssumption, SanitizedName, DisplayableIsName
  <2> QED BY <2>1, <2>2 DEF PeersInv, PeersTypes
<1>6. PeersTypes' /\ NamesInv'
  BY <1>3, <1>4, <1>5 DEF PeersInv, PeersTypes, NamesInv
<1>7. RegistryInv'
  BY <1>2, <1>4 DEF PeersInv, RegistryInv
<1>8. MailInv'
  BY <1>3, DueMore DEF PeersInv, MailInv
<1>9. /\ inbox[c] = <<>> /\ joinSent[c] = {} /\ c \notin joinSent[HostSlot]
      /\ reg[HostSlot].el[c] = NoElement /\ ~ NoElement.mirror
  BY <1>3 DEF PeersInv, SessionInv, NoElement
<1>10. SessionInv'
  BY <1>2, <1>3, <1>4, <1>9 DEF PeersInv, SessionInv
<1>11. IntroInv'
  <2>1. ~ Known(reg[HostSlot], nick[HostSlot], label[HostSlot], c)
    BY <1>9 DEF Known
  <2>2. reg'[HostSlot] = reg[HostSlot]
    BY <1>4
  <2> QED BY <1>3, <1>4, <1>9, <2>1, <2>2 DEF PeersInv, IntroInv
<1> QED BY <1>6, <1>7, <1>8, <1>10, <1>11 DEF PeersInv

(* What the host or a client sends is due, and takes nothing back. *)
LEMMA SendKeeps ==
    ASSUME PeersInv, NEW x \in Processes, x = HostSlot \/ x \in up,
           NEW m \in Messages, Due(x, m, up),
           inbox' = Sent(inbox, x, m),
           UNCHANGED <<up, seen, reg, nick, label, localNick>>
    PROVE  /\ inbox' \in [Processes -> Seq(Messages)] /\ MailInv'
           /\ m \in ToSet(inbox'[x])
           /\ \A c \in ClientSlotIds \ up : inbox'[c] = <<>>
           /\ \A p \in Processes : \A s : Introduced(inbox[p], s) => Introduced(inbox'[p], s)
<1>1. /\ inbox' \in [Processes -> Seq(Messages)]
      /\ ToSet(inbox'[x]) = ToSet(inbox[x]) \cup {m}
      /\ \A y \in Processes \ {x} : inbox'[y] = inbox[y]
  <2>1. inbox \in [Processes -> Seq(Messages)]
    BY DEF PeersInv, PeersTypes
  <2>2. PICK q : q = Append(inbox[x], m)
    OBVIOUS
  <2>3. q \in Seq(Messages) /\ ToSet(q) = ToSet(inbox[x]) \cup {m}
    BY <2>1, <2>2, AppendElements
  <2>4. inbox' = [inbox EXCEPT ![x] = q]
    BY <2>2 DEF Sent
  <2> QED BY <2>1, <2>3, <2>4
<1>2. MailInv'
  BY <1>1 DEF PeersInv, MailInv
<1>3. ASSUME NEW p \in Processes, NEW s, Introduced(inbox[p], s)
      PROVE  Introduced(inbox'[p], s)
  BY <1>1, <1>3 DEF Introduced
<1>4. \A c \in ClientSlotIds \ up : inbox'[c] = <<>>
  BY <1>1, SlotFacts DEF PeersInv, SessionInv
<1> QED BY <1>1, <1>2, <1>3, <1>4

LEMMA GreetKeeps ==
    ASSUME PeersInv, NEW c \in ClientSlotIds, Greet(c)
    PROVE  PeersInv'
<1> USE SlotFacts
<1>1. PICK m : m = Assign(c, OwnEid(reg[HostSlot]))
  OBVIOUS
<1>2. /\ c \in up /\ inbox' = Sent(inbox, c, m)
      /\ UNCHANGED <<up, seen, reg, nick, label, localNick, joinSent>>
  BY <1>1 DEF Greet, Sent
<1>3. OwnEid(reg[HostSlot]) \in {NoEid, OwnId(HostSlot)} /\ OwnEid(reg[HostSlot]) \in Ids
  BY OwnEidOf, PlayerIds, IdRangesAssumption DEF PeersInv, RegistryInv, NoEid, Ids
<1>4. m \in Messages /\ Due(c, m, up)
  BY <1>1, <1>3, PlaceholderNames DEF Assign, Messages, Due
<1>5. /\ inbox' \in [Processes -> Seq(Messages)] /\ MailInv'
      /\ \A d \in ClientSlotIds \ up : inbox'[d] = <<>>
      /\ \A p \in Processes : \A s : Introduced(inbox[p], s) => Introduced(inbox'[p], s)
  BY <1>2, <1>4, SendKeeps
<1>6. PeersTypes' /\ RegistryInv' /\ NamesInv' /\ SessionInv'
  BY <1>2, <1>5 DEF PeersInv, PeersTypes, RegistryInv, NamesInv, SessionInv
<1>7. IntroInv'
  <2>1. up \subseteq Processes
    BY DEF PeersInv, PeersTypes
  <2> QED BY <1>2, <1>5, <2>1 DEF PeersInv, IntroInv
<1> QED BY <1>5, <1>6, <1>7 DEF PeersInv

LEMMA MaybeSendJoinToSlotKeeps ==
    ASSUME PeersInv, NEW p \in Processes, NEW s \in PeerSlotIds, MaybeSendJoinToSlot(p, s)
    PROVE  PeersInv'
<1> USE SlotFacts
<1>1. PICK m : m = Join(p)
  OBVIOUS
<1>2. /\ Running(p) /\ s \in (IF p = HostSlot THEN up ELSE {HostSlot})
      /\ OwnEid(reg[p]) # NoEid
      /\ joinSent' = [joinSent EXCEPT ![p] = @ \cup {s}]
      /\ inbox' = Sent(inbox, s, m)
      /\ UNCHANGED <<up, seen, reg, nick, label, localNick>>
  BY <1>1 DEF MaybeSendJoinToSlot, Sent
<1>3. reg[p].me = p /\ OwnEid(reg[p]) = OwnId(p) /\ OwnId(p) \in Ids
  BY <1>2, OwnEidOf, PlayerIds DEF PeersInv, RegistryInv
<1>4. p = HostSlot \/ p \in up
  BY <1>2 DEF Running
<1>5. m \in Messages /\ Due(s, m, up) /\ m.kind = "Join" /\ m.from = p
  <2>1. localNick[p] \in Text
    BY DEF PeersInv, PeersTypes
  <2>2. m = [kind |-> "Join", from |-> p, slot |-> p, eid |-> OwnId(p), nick |-> localNick[p]]
    BY <1>1, <1>3 DEF Join
  <2>3. m \in Messages
    BY <1>3, <2>1, <2>2 DEF Messages
  <2>4. m.kind = "Join" /\ m.from = p /\ m.slot = p /\ m.eid = OwnId(p)
    BY <2>2
  <2> QED BY <1>2, <1>4, <2>3, <2>4 DEF Due, PeersInv, PeersTypes
<1>6. s = HostSlot \/ s \in up
  BY <1>2
<1>7. /\ inbox' \in [Processes -> Seq(Messages)] /\ MailInv' /\ m \in ToSet(inbox'[s])
      /\ \A d \in ClientSlotIds \ up : inbox'[d] = <<>>
      /\ \A q \in Processes : \A t : Introduced(inbox[q], t) => Introduced(inbox'[q], t)
  BY <1>2, <1>5, <1>6, SendKeeps
<1>8. /\ joinSent' \in [Processes -> SUBSET PeerSlotIds]
      /\ joinSent'[p] = joinSent[p] \cup {s}
      /\ \A q \in Processes \ {p} : joinSent'[q] = joinSent[q]
  BY <1>2 DEF PeersInv, PeersTypes
<1>9. PeersTypes' /\ RegistryInv' /\ NamesInv'
  BY <1>2, <1>7, <1>8 DEF PeersInv, PeersTypes, RegistryInv, NamesInv
<1>10. SessionInv'
  <2>1. \A c \in ClientSlotIds \ up : joinSent'[c] = {}
    BY <1>4, <1>8 DEF PeersInv, SessionInv
  <2>2. \A c \in ClientSlotIds \ seen : c \notin joinSent'[HostSlot]
    BY <1>2, <1>8 DEF PeersInv, PeersTypes, SessionInv
  <2> QED BY <1>2, <1>3, <1>7, <1>8, <2>1, <2>2 DEF PeersInv, SessionInv
<1>11. IntroInv'
  <2>1. up \subseteq Processes
    BY DEF PeersInv, PeersTypes
  <2>2. Introduced(inbox'[s], p)
    BY <1>5, <1>7 DEF Introduced
  <2>3. \A c \in up : c \in joinSent'[HostSlot] =>
          c \in joinSent[HostSlot] \/ (c = s /\ p = HostSlot)
    BY <1>8
  <2>4. \A c \in up : HostSlot \in joinSent'[c] =>
          HostSlot \in joinSent[c] \/ (c = p /\ s = HostSlot)
    BY <1>8, <2>1
  <2> QED BY <1>2, <1>7, <2>1, <2>2, <2>3, <2>4 DEF PeersInv, IntroInv
<1> QED BY <1>7, <1>9, <1>10, <1>11 DEF PeersInv

(* The messages of a client that leaves are purged. *)
LEMMA LeaveKeeps ==
    ASSUME PeersInv, NEW c \in ClientSlotIds, Leave(c)
    PROVE  PeersInv'
<1> USE SlotFacts
<1>1. PICK q : q = Fresh(c)
  OBVIOUS
<1>2. RegistryOf(q, c) /\ q.me = Unknown
  BY <1>1, Started
<1>3. PICK n, l, b :
        /\ n = [s \in PeerSlotIds |-> RemotePlayer] /\ l = [s \in PeerSlotIds |-> NoPuppet]
        /\ b = Kept(inbox[HostSlot], {i \in DOMAIN inbox[HostSlot] : inbox[HostSlot][i].from # c})
  OBVIOUS
<1>4. /\ c \in up /\ up' = up \ {c} /\ seen' = seen /\ reg' = [reg EXCEPT ![c] = q]
      /\ nick' = [nick EXCEPT ![c] = n] /\ label' = [label EXCEPT ![c] = l]
      /\ joinSent' = [joinSent EXCEPT ![c] = {}]
      /\ inbox' = [inbox EXCEPT ![c] = <<>>, ![HostSlot] = b]
      /\ localNick' = localNick
  BY <1>1, <1>3 DEF Leave
<1>5. /\ b \in Seq(Messages) /\ \A m \in ToSet(b) : m \in ToSet(inbox[HostSlot]) /\ m.from # c
      /\ \A m \in ToSet(inbox[HostSlot]) : m.from # c => m \in ToSet(b)
  <2>1. PICK old \in Seq(Messages) : old = inbox[HostSlot]
    BY DEF PeersInv, PeersTypes
  <2>2. PICK S \in SUBSET DOMAIN old : S = {i \in DOMAIN old : old[i].from # c}
    OBVIOUS
  <2>3. b = Kept(old, S)
    BY <1>3, <2>1, <2>2
  <2>4. /\ b \in Seq(Messages)
        /\ \A k \in DOMAIN b : \E i \in S : b[k] = old[i]
        /\ \A i \in S : \E k \in DOMAIN b : b[k] = old[i]
    <3>1. old \in Seq(Messages) /\ S \in SUBSET DOMAIN old
      BY <2>1, <2>2
    <3>2. /\ Kept(old, S) \in Seq(Messages)
          /\ \A k \in DOMAIN Kept(old, S) : \E i \in S : Kept(old, S)[k] = old[i]
          /\ \A i \in S : \E k \in DOMAIN Kept(old, S) : Kept(old, S)[k] = old[i]
      BY <3>1, KeptElements
    <3> QED BY <2>3, <3>2, Zenon
  <2>5. ASSUME NEW m \in ToSet(b) PROVE m \in ToSet(old) /\ m.from # c
    BY <2>2, <2>4 DEF ToSet
  <2>6. ASSUME NEW m \in ToSet(old), m.from # c PROVE m \in ToSet(b)
    BY <2>2, <2>4, <2>6 DEF ToSet
  <2> QED BY <2>1, <2>4, <2>5, <2>6
<1>6. /\ reg'[c] = q /\ nick'[c] = n /\ label'[c] = l /\ joinSent'[c] = {} /\ inbox'[c] = <<>>
      /\ inbox'[HostSlot] = b /\ reg' = [p \in Processes |-> reg'[p]]
      /\ \A p \in Processes \ {c} :
            /\ reg'[p] = reg[p] /\ nick'[p] = nick[p] /\ label'[p] = label[p]
            /\ joinSent'[p] = joinSent[p]
            /\ p # HostSlot => inbox'[p] = inbox[p]
  BY <1>4 DEF PeersInv, PeersTypes
<1>7. PeersTypes'
  <2>1. n \in [PeerSlotIds -> Text] /\ l \in [PeerSlotIds -> Text \cup {NoPuppet}]
    BY <1>3, PlaceholderNames
  <2>2. <<>> \in Seq(Messages)
    BY EmptySeq
  <2>3. nick' \in [Processes -> [PeerSlotIds -> Text]]
        /\ label' \in [Processes -> [PeerSlotIds -> Text \cup {NoPuppet}]]
    BY <1>4, <2>1 DEF PeersInv, PeersTypes
  <2>4. inbox' \in [Processes -> Seq(Messages)]
    BY <1>4, <1>5, <2>2 DEF PeersInv, PeersTypes
  <2>5. joinSent' \in [Processes -> SUBSET PeerSlotIds]
    BY <1>4 DEF PeersInv, PeersTypes
  <2> QED BY <1>4, <1>6, <2>3, <2>4, <2>5 DEF PeersInv, PeersTypes
<1>8. RegistryInv'
  BY <1>2, <1>6 DEF PeersInv, RegistryInv
<1>9. NamesInv'
  BY <1>3, <1>6, PlaceholderNames DEF PeersInv, NamesInv
<1>10. MailInv'
  <2> SUFFICES ASSUME NEW x \in Processes, NEW m \in ToSet(inbox'[x])
               PROVE  Due(x, m, up \ {c})
    BY <1>4 DEF MailInv
  <2>1. CASE x = c
    BY <1>6, <2>1 DEF ToSet
  <2>2. CASE x = HostSlot
    <3>1. m \in ToSet(inbox[x]) /\ m.from # c /\ Due(x, m, up)
      BY <1>5, <1>6, <2>2 DEF PeersInv, MailInv
    <3> QED BY <2>2, <3>1 DEF Due
  <2>3. CASE x # c /\ x # HostSlot
    <3>1. Due(x, m, up)
      BY <1>6, <2>3 DEF PeersInv, MailInv
    <3> QED BY <2>3, <3>1 DEF Due
  <2> QED BY <2>1, <2>2, <2>3
<1>11. SessionInv'
  <2>1. \A d \in ClientSlotIds \ up' : inbox'[d] = <<>> /\ joinSent'[d] = {}
    BY <1>4, <1>6 DEF PeersInv, SessionInv
  <2>2. \A p \in Processes : joinSent'[p] # {} => reg'[p].me = p
    BY <1>6 DEF PeersInv, SessionInv
  <2>3. \A d \in ClientSlotIds \ seen' : d \notin joinSent'[HostSlot]
                                         /\ reg'[HostSlot].el[d] = NoElement
    BY <1>4, <1>6 DEF PeersInv, SessionInv
  <2> QED BY <2>1, <2>2, <2>3 DEF SessionInv
<1>12. IntroInv'
  <2>1. \A d \in up' : d \in up /\ d # c /\ d \in Processes \ {c} /\ d # HostSlot
    BY <1>4 DEF PeersInv, PeersTypes
  <2>2. ASSUME NEW d \in up', Introduced(inbox[HostSlot], d) PROVE Introduced(inbox'[HostSlot], d)
    <3>1. PICK m \in ToSet(inbox[HostSlot]) : \/ m.kind = "Join" /\ m.from = d
                                              \/ m.kind = "PlayerJoined" /\ m.slot = d
      BY <2>2 DEF Introduced
    <3>2. m.kind = "Join" /\ m.from = d
      BY <3>1 DEF PeersInv, MailInv, Due
    <3>3. m \in ToSet(inbox'[HostSlot])
      BY <1>5, <1>6, <2>1, <3>2
    <3> QED BY <3>2, <3>3 DEF Introduced
  <2>3. \A d \in up' :
          /\ reg'[d] = reg[d] /\ nick'[d] = nick[d] /\ label'[d] = label[d]
          /\ inbox'[d] = inbox[d] /\ joinSent'[d] = joinSent[d]
    BY <1>6, <2>1
  <2>4. /\ reg'[HostSlot] = reg[HostSlot] /\ nick'[HostSlot] = nick[HostSlot]
        /\ label'[HostSlot] = label[HostSlot] /\ joinSent'[HostSlot] = joinSent[HostSlot]
    BY <1>6
  <2>5. \A d \in up' : d \in joinSent'[HostSlot] =>
          Known(reg'[d], nick'[d], label'[d], HostSlot) \/ Introduced(inbox'[d], HostSlot)
    BY <2>1, <2>3, <2>4 DEF PeersInv, IntroInv
  <2>6. \A d \in up' : HostSlot \in joinSent'[d] =>
          Known(reg'[HostSlot], nick'[HostSlot], label'[HostSlot], d)
          \/ Introduced(inbox'[HostSlot], d)
    BY <2>1, <2>2, <2>3, <2>4 DEF PeersInv, IntroInv
  <2>7. \A d, e \in up' :
          /\ d # e
          /\ Known(reg'[HostSlot], nick'[HostSlot], label'[HostSlot], d)
          /\ Known(reg'[HostSlot], nick'[HostSlot], label'[HostSlot], e)
          => Known(reg'[d], nick'[d], label'[d], e) \/ Introduced(inbox'[d], e)
    BY <2>1, <2>3, <2>4 DEF PeersInv, IntroInv
  <2> QED BY <2>5, <2>6, <2>7 DEF IntroInv
<1> QED BY <1>7, <1>8, <1>9, <1>10, <1>11, <1>12 DEF PeersInv

(* The host drops an element: it may not have assigned itself a slot yet,  *)
(* but then it has no elements. *)
LEMMA DropNothing ==
    ASSUME NEW p \in Processes, NEW home, NEW r, Sound(r, p, home), NEW s \in PeerSlotIds,
           r.el[s] = NoElement, NEW q, q = DropPlayerElement(r, s)
    PROVE  q = r
<1>1. r.el[s].eid = NoEid /\ ~ r.el[s].mirror
  BY DEF NoElement
<1>2. PICK el : el = [r.el EXCEPT ![s] = NoElement]
  OBVIOUS
<1>3. el = r.el
  BY <1>2 DEF Sound
<1>4. PICK f : f = IF r.el[s].eid = NoEid \/ r.el[s].mirror THEN r.free
                   ELSE Append(r.free, r.el[s].eid)
  OBVIOUS
<1>5. f = r.free
  BY <1>1, <1>4
<1>6. q = [r EXCEPT !.el = el, !.free = f]
  BY <1>2, <1>4 DEF DropPlayerElement
<1>7. [r EXCEPT !.el = r.el, !.free = r.free] = r
  BY DEF Sound, IsRegistry
<1> QED BY <1>3, <1>5, <1>6, <1>7

LEMMA SeesLeftKeeps ==
    ASSUME PeersInv, NEW c \in ClientSlotIds, SeesLeft(c)
    PROVE  PeersInv'
<1> USE SlotFacts
<1>1. PICK r, q : r = reg[HostSlot] /\ q = DropPlayerElement(r, c)
  OBVIOUS
<1>2. RegistryOf(r, HostSlot)
  BY <1>1 DEF PeersInv, RegistryInv
<1>3. RegistryOf(q, HostSlot) /\ q.me = r.me /\ q.el = [r.el EXCEPT ![c] = NoElement]
  <2>1. PICK home : home = Home(HostSlot, r.me)
    OBVIOUS
  <2>2. Sound(r, HostSlot, home)
    BY <1>2, <2>1 DEF RegistryOf
  <2>3. Sound(q, HostSlot, home) /\ q.me = r.me /\ q.el = [r.el EXCEPT ![c] = NoElement]
    BY <1>1, <2>2, Dropped
  <2>4. r.el \in [PeerSlotIds -> PlayerElements]
    BY <2>2 DEF Sound
  <2>5. q.el[HostSlot] = r.el[HostSlot]
    BY <2>3, <2>4
  <2>6. CASE r.me # Unknown
    BY <1>2, <2>1, <2>3, <2>5, <2>6, RegistryKept
  <2>7. CASE r.me = Unknown
    <3>1. r = Fresh(HostSlot)
      BY <1>2, <2>7 DEF RegistryOf
    <3>2. r.el[c] = NoElement
      BY <3>1, Started
    <3>3. q = r
      BY <1>1, <2>2, <3>2, DropNothing
    <3> QED BY <1>2, <2>3, <3>3
  <2> QED BY <2>3, <2>6, <2>7
<1>4. /\ c \in seen \ up /\ up' = up /\ seen' = seen \ {c}
      /\ reg' = [reg EXCEPT ![HostSlot] = q]
      /\ label' = [label EXCEPT ![HostSlot][c] = NoPuppet]
      /\ nick' = [nick EXCEPT ![HostSlot][c] = NoNick]
      /\ joinSent' = [joinSent EXCEPT ![HostSlot] = @ \ {c}]
      /\ inbox' = inbox /\ localNick' = localNick
  BY <1>1 DEF SeesLeft
<1>5. r.el \in [PeerSlotIds -> PlayerElements]
  BY <1>2 DEF RegistryOf, Sound
<1>6. /\ reg' = [p \in Processes |-> reg'[p]] /\ reg'[HostSlot] = q
      /\ q.el[c] = NoElement /\ (\A s \in PeerSlotIds \ {c} : q.el[s] = r.el[s])
      /\ joinSent'[HostSlot] = joinSent[HostSlot] \ {c}
      /\ label'[HostSlot][c] = NoPuppet /\ nick'[HostSlot][c] = NoNick
      /\ \A s \in PeerSlotIds \ {c} :
            label'[HostSlot][s] = label[HostSlot][s] /\ nick'[HostSlot][s] = nick[HostSlot][s]
      /\ \A p \in Processes \ {HostSlot} :
            /\ reg'[p] = reg[p] /\ nick'[p] = nick[p] /\ label'[p] = label[p]
            /\ joinSent'[p] = joinSent[p]
  BY <1>3, <1>4, <1>5 DEF PeersInv, PeersTypes
<1>7. PeersTypes'
  <2>1. nick' \in [Processes -> [PeerSlotIds -> Text]]
        /\ label' \in [Processes -> [PeerSlotIds -> Text \cup {NoPuppet}]]
    BY <1>4, PlaceholderNames DEF PeersInv, PeersTypes
  <2>2. joinSent' \in [Processes -> SUBSET PeerSlotIds]
    BY <1>4 DEF PeersInv, PeersTypes
  <2> QED BY <1>4, <1>6, <2>1, <2>2 DEF PeersInv, PeersTypes
<1>8. RegistryInv'
  BY <1>3, <1>6 DEF PeersInv, RegistryInv
<1>9. NamesInv'
  <2> SUFFICES ASSUME NEW p \in Processes, NEW s \in PeerSlotIds
               PROVE  Name(nick'[p][s]) /\ (label'[p][s] = NoPuppet \/ Name(label'[p][s]))
    BY DEF NamesInv
  <2>1. CASE p = HostSlot /\ s = c
    BY <1>6, <2>1, PlaceholderNames
  <2>2. CASE ~ (p = HostSlot /\ s = c)
    BY <1>6, <2>2 DEF PeersInv, NamesInv
  <2> QED BY <2>1, <2>2
<1>10. MailInv'
  BY <1>4 DEF PeersInv, MailInv
<1>11. SessionInv'
  <2>1. \A p \in Processes : joinSent'[p] # {} => reg'[p].me = p
    BY <1>1, <1>3, <1>6 DEF PeersInv, SessionInv
  <2>2. \A d \in ClientSlotIds \ up' : inbox'[d] = <<>> /\ joinSent'[d] = {}
    BY <1>4, <1>6 DEF PeersInv, SessionInv
  <2>3. ASSUME NEW d \in ClientSlotIds \ seen'
        PROVE  d \notin joinSent'[HostSlot] /\ reg'[HostSlot].el[d] = NoElement
    <3>1. CASE d = c
      BY <1>6, <3>1
    <3>2. CASE d # c
      <4>1. d \in ClientSlotIds \ seen
        BY <1>4, <3>2
      <4> QED BY <1>1, <1>6, <3>2, <4>1 DEF PeersInv, SessionInv
    <3> QED BY <3>1, <3>2
  <2> QED BY <2>1, <2>2, <2>3 DEF SessionInv
<1>12. IntroInv'
  <2>1. \A d \in up : d # c /\ d # HostSlot /\ d \in Processes
    BY <1>4 DEF PeersInv, PeersTypes
  <2>2. \A d \in up : Known(reg'[HostSlot], nick'[HostSlot], label'[HostSlot], d)
                      <=> Known(reg[HostSlot], nick[HostSlot], label[HostSlot], d)
    BY <1>1, <1>6, <2>1 DEF Known
  <2> QED BY <1>4, <1>6, <2>1, <2>2 DEF PeersInv, IntroInv
<1> QED BY <1>7, <1>8, <1>9, <1>10, <1>11, <1>12 DEF PeersInv

(* SpawnPuppet: the label is the cached nickname, and a mirror stays one.  *)
LEMMA SpawnPuppetKeeps ==
    ASSUME PeersInv, NEW p \in Processes, NEW s \in PeerSlotIds, SpawnPuppet(p, s)
    PROVE  PeersInv'
<1> USE SlotFacts
<1>1. PICK r, q : r = reg[p] /\ q = EnsurePlayerElement(r, s, TRUE)
  OBVIOUS
<1>2. /\ Running(p) /\ s # p /\ label[p][s] = NoPuppet
      /\ reg' = [reg EXCEPT ![p] = q]
      /\ label' = [label EXCEPT ![p][s] = nick[p][s]]
      /\ UNCHANGED <<up, seen, nick, localNick, joinSent, inbox>>
  BY <1>1 DEF SpawnPuppet
<1>3. RegistryOf(r, p) /\ (p # HostSlot \/ r.me # Unknown)
  BY <1>1, <1>2 DEF PeersInv, PeersTypes, RegistryInv, Running
<1>4. /\ RegistryOf(q, p) /\ q.me = r.me /\ \A t \in PeerSlotIds \ {s} : q.el[t] = r.el[t]
      /\ q.el[s].mirror = r.el[s].mirror
  <2>1. PICK home : home = Home(p, r.me)
    OBVIOUS
  <2>2. /\ home \subseteq Ids \ {NoEid} /\ \A t \in PeerSlotIds \ {p} : OwnId(t) \notin home
        /\ Sound(r, p, home)
    BY <1>3, <2>1, HomeOf
  <2>3. PICK on \in BOOLEAN : on = TRUE
    OBVIOUS
  <2>4. on \in BOOLEAN /\ q = EnsurePlayerElement(r, s, on)
    BY <1>1, <2>3
  <2>8. Bound(q, r, s, on, p, home)
    BY <2>2, <2>4, Ensured
  <2>5. /\ Sound(q, p, home) /\ q.me = r.me /\ q.el[s].mirror = r.el[s].mirror
        /\ \A t \in PeerSlotIds \ {s} : q.el[t] = r.el[t]
    BY <2>8 DEF Bound
  <2>6. q.el[p] = r.el[p]
    BY <1>2, <2>5
  <2>7. RegistryOf(q, p)
    BY <1>3, <2>1, <2>5, <2>6, RegistryKept
  <2> QED BY <2>5, <2>7
<1>5. /\ reg' = [x \in Processes |-> reg'[x]] /\ reg'[p] = q
      /\ label'[p][s] = nick[p][s]
      /\ \A t \in PeerSlotIds \ {s} : label'[p][t] = label[p][t]
      /\ \A x \in Processes \ {p} : reg'[x] = reg[x] /\ label'[x] = label[x]
  BY <1>2 DEF PeersInv, PeersTypes
<1>6. PeersTypes'
  <2>1. label' \in [Processes -> [PeerSlotIds -> Text \cup {NoPuppet}]]
    BY <1>2 DEF PeersInv, PeersTypes
  <2> QED BY <1>2, <1>5, <2>1 DEF PeersInv, PeersTypes
<1>7. RegistryInv'
  BY <1>4, <1>5 DEF PeersInv, RegistryInv
<1>8. NamesInv' /\ MailInv'
  BY <1>2, <1>5 DEF PeersInv, NamesInv, MailInv
<1>9. \A x \in Processes : \A t \in PeerSlotIds :
          /\ reg'[x].me = reg[x].me
          /\ x # p \/ t # s => reg'[x].el[t] = reg[x].el[t]
          /\ Known(reg[x], nick[x], label[x], t) <=> Known(reg'[x], nick'[x], label'[x], t)
  <2> SUFFICES ASSUME NEW x \in Processes, NEW t \in PeerSlotIds
               PROVE  /\ reg'[x].me = reg[x].me
                      /\ x # p \/ t # s => reg'[x].el[t] = reg[x].el[t]
                      /\ Known(reg[x], nick[x], label[x], t)
                         <=> Known(reg'[x], nick'[x], label'[x], t)
    OBVIOUS
  <2>1. reg'[x].me = reg[x].me /\ (x # p \/ t # s => reg'[x].el[t] = reg[x].el[t])
        /\ reg'[x].el[t].mirror = reg[x].el[t].mirror
    <3>1. CASE x = p /\ t = s
      BY <1>1, <1>4, <1>5, <3>1
    <3>2. CASE x = p /\ t # s
      BY <1>1, <1>4, <1>5, <3>2
    <3>3. CASE x # p
      BY <1>5, <3>3
    <3> QED BY <3>1, <3>2, <3>3
  <2>2. nick'[x] = nick[x] /\ (x # p \/ t # s => label'[x][t] = label[x][t])
    BY <1>2, <1>5
  <2>3. CASE x = p /\ t = s
    BY <1>2, <1>5, <2>1, <2>2, <2>3 DEF Known
  <2>4. CASE x # p \/ t # s
    BY <2>1, <2>2, <2>4 DEF Known
  <2> QED BY <2>1, <2>3, <2>4
<1>10. SessionInv'
  <2>1. ASSUME NEW c \in ClientSlotIds \ seen PROVE reg'[HostSlot].el[c] = NoElement
    <3>1. p = HostSlot => c # s
      BY <1>2, <2>1 DEF SpawnPuppet, PeersInv, PeersTypes
    <3> QED BY <1>9, <2>1, <3>1 DEF PeersInv, SessionInv
  <2> QED BY <1>2, <1>9, <2>1 DEF PeersInv, SessionInv
<1>11. IntroInv'
  <2>1. \A c \in up : c \in Processes
    BY DEF PeersInv, PeersTypes
  <2> QED BY <1>2, <1>9, <2>1 DEF PeersInv, IntroInv
<1> QED BY <1>6, <1>7, <1>8, <1>10, <1>11 DEF PeersInv

(* A prop that a client drops or that dies leaves the player elements. *)
LEMMA PropKeeps ==
    ASSUME PeersInv, NEW c \in ClientSlotIds, NEW r, r = reg[c],
           NEW q, Sound(q, c, Home(c, r.me)), q.me = r.me, q.el = r.el,
           reg' = [reg EXCEPT ![c] = q],
           UNCHANGED <<up, seen, nick, label, localNick, joinSent, inbox>>
    PROVE  PeersInv'
<1> USE SlotFacts
<1>1. RegistryOf(q, c)
  <2>1. RegistryOf(r, c)
    BY DEF PeersInv, RegistryInv
  <2> QED BY <2>1, RegistryKept
<1>2. /\ reg' = [p \in Processes |-> reg'[p]] /\ reg'[c] = q
      /\ \A p \in Processes \ {c} : reg'[p] = reg[p]
  BY DEF PeersInv, PeersTypes
<1>3. PeersTypes' /\ NamesInv' /\ MailInv'
  BY <1>2 DEF PeersInv, PeersTypes, NamesInv, MailInv
<1>4. RegistryInv'
  BY <1>1, <1>2 DEF PeersInv, RegistryInv
<1>5. SessionInv'
  BY <1>2 DEF PeersInv, SessionInv
<1>6. IntroInv'
  <2>1. \A d \in up : d \in Processes
    BY DEF PeersInv, PeersTypes
  <2>2. \A p \in Processes : \A s \in PeerSlotIds :
          Known(reg'[p], nick[p], label[p], s) <=> Known(reg[p], nick[p], label[p], s)
    BY <1>2 DEF Known
  <2> QED BY <2>1, <2>2 DEF PeersInv, IntroInv
<1> QED BY <1>3, <1>4, <1>5, <1>6 DEF PeersInv

LEMMA DropPropKeeps ==
    ASSUME PeersInv, NEW c \in ClientSlotIds, DropProp(c)
    PROVE  PeersInv'
<1>1. PICK r, q : r = reg[c] /\ q = MintProp(r)
  OBVIOUS
<1>2. /\ reg' = [reg EXCEPT ![c] = q] /\ CanAlloc(r)
      /\ UNCHANGED <<up, seen, nick, label, localNick, joinSent, inbox>>
  BY <1>1 DEF DropProp
<1>3. Sound(r, c, Home(c, r.me))
  BY <1>1, SlotFacts DEF PeersInv, RegistryInv, RegistryOf
<1>4. Taken(q, r, c, Home(c, r.me))
  BY <1>1, <1>2, <1>3, SlotFacts, PropMinted
<1>5. Sound(q, c, Home(c, r.me)) /\ q.me = r.me /\ q.el = r.el
  BY <1>4 DEF Taken
<1> QED BY <1>1, <1>2, <1>5, PropKeeps

LEMMA PropDiesKeeps ==
    ASSUME PeersInv, NEW c \in ClientSlotIds, NEW id \in reg[c].props, PropDies(c, id)
    PROVE  PeersInv'
<1>1. PICK r, q : r = reg[c] /\ q = FreeProp(r, id)
  OBVIOUS
<1>2. /\ reg' = [reg EXCEPT ![c] = q] /\ id \in r.props
      /\ UNCHANGED <<up, seen, nick, label, localNick, joinSent, inbox>>
  BY <1>1 DEF PropDies
<1>3. Sound(r, c, Home(c, r.me))
  BY <1>1, SlotFacts DEF PeersInv, RegistryInv, RegistryOf
<1>4. Sound(q, c, Home(c, r.me)) /\ q.me = r.me /\ q.el = r.el
  BY <1>1, <1>2, <1>3, SlotFacts, PropGone
<1> QED BY <1>1, <1>2, <1>4, PropKeeps

(* What Identify makes of the state: p has the element of s, under the id  *)
(* of that player, and its name. *)
Met(p, s) ==
    /\ reg' = [x \in Processes |-> reg'[x]]
    /\ nick' \in [Processes -> [PeerSlotIds -> Text]]
    /\ label' \in [Processes -> [PeerSlotIds -> Text \cup {NoPuppet}]]
    /\ RegistryInv' /\ NamesInv'
    /\ \A x \in Processes : reg'[x].me = reg[x].me
    /\ \A x \in Processes : \A t \in PeerSlotIds : x # p \/ t # s =>
          /\ reg'[x].el[t] = reg[x].el[t]
          /\ Known(reg[x], nick[x], label[x], t) <=> Known(reg'[x], nick'[x], label'[x], t)
    /\ Known(reg'[p], nick'[p], label'[p], s)

LEMMA IdentifyMeets ==
    ASSUME PeersInv, NEW p \in Processes, p # HostSlot \/ reg[p].me # Unknown,
           NEW s \in PeerSlotIds \ {p}, NEW n \in Text, Identify(p, s, OwnId(s), n)
    PROVE  Met(p, s)
<1> USE SlotFacts
<1>1. PICK r, q, name : r = reg[p] /\ q = EstablishMirrorForSlot(r, s, OwnId(s))
                        /\ name = SanitizeNickname(n)
  OBVIOUS
<1>2. name \in Text /\ Name(name) /\ name \notin {RemotePlayer, NoNick, NoPuppet}
  BY <1>1, SanitizedIsName
<1>3. IsAllowedSenderEid(s = HostSlot, OwnId(s))
  BY PlayerIds
<1>4. reg' = [reg EXCEPT ![p] = q]
  BY <1>1, <1>3 DEF Identify
<1>5. PICK shown : shown = IF label[p][s] = NoPuppet THEN NoPuppet ELSE name
  OBVIOUS
<1>6. nick' = [nick EXCEPT ![p][s] = name] /\ label' = [label EXCEPT ![p][s] = shown]
  BY <1>1, <1>5 DEF Identify
<1>7. RegistryOf(r, p)
  BY <1>1 DEF PeersInv, RegistryInv
<1>8. PICK el : el = [eid |-> OwnId(s), mirror |-> TRUE, puppet |-> r.el[s].puppet]
  OBVIOUS
<1>9. /\ RegistryOf(q, p) /\ q.me = r.me /\ q.el[s] = el
      /\ \A t \in PeerSlotIds \ {s} : q.el[t] = r.el[t]
  <2>1. PICK home : home = Home(p, r.me)
    OBVIOUS
  <2>2. /\ home \subseteq Ids \ {NoEid} /\ \A t \in PeerSlotIds \ {p} : OwnId(t) \notin home
        /\ Sound(r, p, home)
    BY <1>7, <2>1, HomeOf
  <2>8. Identified(q, r, s, p, home)
    BY <1>1, <2>2, Mirrored
  <2>3. Sound(q, p, home) /\ q.me = r.me
    BY <2>8 DEF Identified
  <2>4. q.el = [r.el EXCEPT ![s] =
                  [eid |-> OwnId(s), mirror |-> TRUE, puppet |-> r.el[s].puppet]]
    BY <2>8 DEF Identified
  <2>5. r.el \in [PeerSlotIds -> PlayerElements]
    BY <2>2 DEF Sound
  <2>6. q.el[s] = el /\ \A t \in PeerSlotIds \ {s} : q.el[t] = r.el[t]
    BY <1>8, <2>4, <2>5
  <2>7. RegistryOf(q, p)
    BY <1>1, <1>7, <2>1, <2>3, <2>6, RegistryKept
  <2> QED BY <2>3, <2>6, <2>7
<1>10. /\ reg' = [x \in Processes |-> reg'[x]] /\ reg'[p] = q
       /\ nick'[p][s] = name /\ label'[p][s] = shown
       /\ \A t \in PeerSlotIds \ {s} : label'[p][t] = label[p][t] /\ nick'[p][t] = nick[p][t]
       /\ \A x \in Processes \ {p} :
             reg'[x] = reg[x] /\ label'[x] = label[x] /\ nick'[x] = nick[x]
  BY <1>4, <1>6 DEF PeersInv, PeersTypes
<1>11. /\ nick' \in [Processes -> [PeerSlotIds -> Text]]
       /\ label' \in [Processes -> [PeerSlotIds -> Text \cup {NoPuppet}]]
  BY <1>2, <1>5, <1>6 DEF PeersInv, PeersTypes
<1>12. RegistryInv'
  BY <1>9, <1>10 DEF PeersInv, RegistryInv
<1>13. NamesInv'
  <2> SUFFICES ASSUME NEW x \in Processes, NEW t \in PeerSlotIds
               PROVE  Name(nick'[x][t]) /\ (label'[x][t] = NoPuppet \/ Name(label'[x][t]))
    BY DEF NamesInv
  <2>1. CASE x = p /\ t = s
    BY <1>2, <1>5, <1>10, <2>1
  <2>2. CASE ~ (x = p /\ t = s)
    BY <1>10, <2>2 DEF PeersInv, NamesInv
  <2> QED BY <2>1, <2>2
<1>14. \A x \in Processes : reg'[x].me = reg[x].me
  BY <1>1, <1>9, <1>10
<1>15. ASSUME NEW x \in Processes, NEW t \in PeerSlotIds, x # p \/ t # s
       PROVE  /\ reg'[x].el[t] = reg[x].el[t]
              /\ Known(reg[x], nick[x], label[x], t) <=> Known(reg'[x], nick'[x], label'[x], t)
  <2>1. reg'[x].el[t] = reg[x].el[t]
    BY <1>1, <1>9, <1>10, <1>15
  <2>2. nick'[x][t] = nick[x][t] /\ label'[x][t] = label[x][t]
    BY <1>10, <1>15
  <2> QED BY <2>1, <2>2 DEF Known
<1>16. Known(reg'[p], nick'[p], label'[p], s)
  <2>1. el.mirror
    BY <1>8
  <2> QED BY <1>2, <1>5, <1>9, <1>10, <2>1 DEF Known
<1> QED BY <1>10, <1>11, <1>12, <1>13, <1>14, <1>15, <1>16 DEF Met

(* A message has been handled that introduced at most s to p, and the host *)
(* passes introductions on. *)
LEMMA MeetKeeps ==
    ASSUME PeersInv, NEW p \in Processes, NEW s \in Processes, Met(p, s),
           p = HostSlot => s \in up,
           UNCHANGED <<up, seen, localNick, joinSent>>,
           inbox' \in [Processes -> Seq(Messages)], MailInv',
           \A c \in ClientSlotIds \ up : inbox'[c] = <<>>,
           \A x \in Processes : \A t : x # p \/ t # s =>
              (Introduced(inbox[x], t) => Introduced(inbox'[x], t)),
           p = HostSlot => \A d \in up \ {s} :
              /\ Introduced(inbox'[d], s)
              /\ reg[HostSlot].el[d].mirror => Introduced(inbox'[s], d)
    PROVE  PeersInv'
<1> USE SlotFacts
<1>1. PeersTypes' /\ RegistryInv' /\ NamesInv'
  BY DEF PeersInv, PeersTypes, Met
<1>2. SessionInv'
  <2>1. ASSUME NEW c \in ClientSlotIds \ seen PROVE reg'[HostSlot].el[c] = NoElement
    <3>1. HostSlot # p \/ c # s
      BY DEF PeersInv, PeersTypes
    <3>2. reg'[HostSlot].el[c] = reg[HostSlot].el[c]
      BY <3>1 DEF Met
    <3> QED BY <3>2 DEF PeersInv, SessionInv
  <2>2. \A x \in Processes : joinSent'[x] # {} => reg'[x].me = x
    BY DEF PeersInv, SessionInv, Met
  <2> QED BY <2>1, <2>2 DEF PeersInv, SessionInv
<1>3. \A x \in Processes : \A t \in PeerSlotIds :
        Known(reg[x], nick[x], label[x], t) \/ Introduced(inbox[x], t)
        => Known(reg'[x], nick'[x], label'[x], t) \/ Introduced(inbox'[x], t)
  <2> TAKE x \in Processes
  <2> TAKE t \in PeerSlotIds
  <2>1. CASE x = p /\ t = s
    BY <2>1 DEF Met
  <2>2. CASE x # p \/ t # s
    BY <2>2 DEF Met
  <2> QED BY <2>1, <2>2
<1>4. \A c \in up : c \in Processes /\ c # HostSlot
  BY DEF PeersInv, PeersTypes
<1>5. IntroInv'
  <2>1. ASSUME NEW c \in up', c \in joinSent'[HostSlot]
        PROVE  Known(reg'[c], nick'[c], label'[c], HostSlot) \/ Introduced(inbox'[c], HostSlot)
    <3>1. Known(reg[c], nick[c], label[c], HostSlot) \/ Introduced(inbox[c], HostSlot)
      BY <2>1 DEF PeersInv, IntroInv
    <3> QED BY <1>3, <1>4, <3>1
  <2>2. ASSUME NEW c \in up', HostSlot \in joinSent'[c]
        PROVE  Known(reg'[HostSlot], nick'[HostSlot], label'[HostSlot], c)
               \/ Introduced(inbox'[HostSlot], c)
    <3>1. Known(reg[HostSlot], nick[HostSlot], label[HostSlot], c)
          \/ Introduced(inbox[HostSlot], c)
      BY <2>2 DEF PeersInv, IntroInv
    <3> QED BY <1>3, <1>4, <3>1
  <2>3. ASSUME NEW c \in up', NEW d \in up', c # d,
               Known(reg'[HostSlot], nick'[HostSlot], label'[HostSlot], c),
               Known(reg'[HostSlot], nick'[HostSlot], label'[HostSlot], d)
        PROVE  Known(reg'[c], nick'[c], label'[c], d) \/ Introduced(inbox'[c], d)
    <3>1. CASE p = HostSlot /\ c = s
      <4>1. Known(reg[HostSlot], nick[HostSlot], label[HostSlot], d)
        BY <1>4, <2>3, <3>1 DEF Met
      <4> QED BY <2>3, <3>1, <4>1 DEF Known
    <3>2. CASE p = HostSlot /\ d = s
      BY <2>3, <3>2
    <3>3. CASE p # HostSlot \/ (c # s /\ d # s)
      <4>1. /\ Known(reg[HostSlot], nick[HostSlot], label[HostSlot], c)
            /\ Known(reg[HostSlot], nick[HostSlot], label[HostSlot], d)
        BY <1>4, <2>3, <3>3 DEF Met
      <4>2. Known(reg[c], nick[c], label[c], d) \/ Introduced(inbox[c], d)
        BY <2>3, <4>1 DEF PeersInv, IntroInv
      <4> QED BY <1>3, <1>4, <4>2
    <3> QED BY <3>1, <3>2, <3>3
  <2> QED BY <2>1, <2>2, <2>3 DEF IntroInv
<1> QED BY <1>1, <1>2, <1>5 DEF PeersInv

(* The first message under way to p, and what is under way without it. *)
First(p, m, rest) ==
    /\ m \in Messages /\ Due(p, m, up)
    /\ rest \in [Processes -> Seq(Messages)]
    /\ \A x \in Processes : \A e \in ToSet(rest[x]) : Due(x, e, up)
    /\ \A c \in ClientSlotIds \ up : rest[c] = <<>>
    /\ \A x \in Processes : \A t :
          ~ (x = p /\ \/ m.kind = "Join" /\ m.from = t
                      \/ m.kind = "PlayerJoined" /\ m.slot = t)
          => (Introduced(inbox[x], t) => Introduced(rest[x], t))

LEMMA FirstMessage ==
    ASSUME PeersInv, NEW p \in Processes, inbox[p] # <<>>, NEW m, m = Head(inbox[p]),
           NEW rest, rest = Handled(inbox, p)
    PROVE  First(p, m, rest)
<1>1. inbox \in [Processes -> Seq(Messages)]
  BY DEF PeersInv, PeersTypes
<1>2. /\ m \in Messages
      /\ Head(inbox[p]) = m /\ Tail(inbox[p]) \in Seq(Messages)
      /\ ToSet(inbox[p]) = {m} \cup ToSet(Tail(inbox[p]))
  BY <1>1, TailElements
<1>3. rest = [inbox EXCEPT ![p] = Tail(inbox[p])]
  BY DEF Handled
<1>4. /\ rest \in [Processes -> Seq(Messages)]
      /\ ToSet(inbox[p]) = {m} \cup ToSet(rest[p])
      /\ \A y \in Processes \ {p} : rest[y] = inbox[y]
  BY <1>1, <1>2, <1>3
<1>5. Due(p, m, up) /\ \A x \in Processes : \A e \in ToSet(rest[x]) : Due(x, e, up)
  BY <1>4 DEF PeersInv, MailInv
<1>6. \A c \in ClientSlotIds \ up : rest[c] = <<>>
  BY <1>4, SlotFacts DEF PeersInv, SessionInv
<1>7. ASSUME NEW x \in Processes, NEW t, Introduced(inbox[x], t),
             ~ (x = p /\ \/ m.kind = "Join" /\ m.from = t
                         \/ m.kind = "PlayerJoined" /\ m.slot = t)
      PROVE  Introduced(rest[x], t)
  BY <1>4, <1>7 DEF Introduced
<1> QED BY <1>2, <1>4, <1>5, <1>6, <1>7 DEF First

(* BroadcastPlayerJoinedFromHost: the clients are told of the joiner, and  *)
(* the joiner of every client whose element the host has. *)
LEMMA IntroductionsMade ==
    ASSUME PeersInv, NEW s \in up, NEW n \in Text, NEW x \in Processes,
           NEW i, i = Introductions(s, OwnId(s), n)[x]
    PROVE  /\ i \in Seq(Messages) /\ \A m \in ToSet(i) : Due(x, m, up)
           /\ x \notin up => i = <<>>
           /\ x \in up \ {s} => Introduced(i, s)
           /\ x = s => \A d \in up \ {s} : reg[HostSlot].el[d].mirror => Introduced(i, d)
<1> USE SlotFacts
<1>1. up \subseteq Processes \ {HostSlot}
  BY DEF PeersInv, PeersTypes
<1>2. CASE x \in up \ {s}
  <2>1. PICK m : m = PlayerJoined(s, OwnId(s), n)
    OBVIOUS
  <2>2. i = <<m>>
    BY <1>2, <2>1 DEF Introductions
  <2>3. OwnId(s) \in Ids
    BY <1>1, PlayerIds
  <2>4. m \in Messages /\ m.kind = "PlayerJoined" /\ m.slot = s /\ m.eid = OwnId(s)
    BY <1>1, <2>1, <2>3 DEF PlayerJoined, Messages
  <2>5. Due(x, m, up)
    BY <1>1, <1>2, <2>4 DEF Due
  <2>6. i \in Seq(Messages) /\ ToSet(i) = {m}
    BY <2>2, <2>4 DEF ToSet
  <2> QED BY <1>2, <2>4, <2>5, <2>6 DEF Introduced
<1>3. CASE x = s
  <2>1. PICK told : told = {z \in up \ {s} : reg[HostSlot].el[z].mirror}
    OBVIOUS
  <2>2. PICK news : news = [y \in told |->
                              PlayerJoined(y, reg[HostSlot].el[y].eid, nick[HostSlot][y])]
    OBVIOUS
  <2>3. PICK M : M = {news[y] : y \in told}
    OBVIOUS
  <2>4. i = SetToSeq(M)
    <3>1. M = {PlayerJoined(y, reg[HostSlot].el[y].eid, nick[HostSlot][y]) :
                 y \in {z \in up \ {s} : reg[HostSlot].el[z].mirror}}
      BY <2>1, <2>2, <2>3
    <3> QED BY <1>3, <3>1 DEF Introductions
  <2>5. IsFiniteSet(M)
    <3>1. told \subseteq PeerSlotIds /\ IsFiniteSet(told)
      <4>1. told \in SUBSET PeerSlotIds
        BY <1>1, <2>1
      <4> QED BY <4>1, FS_Subset
    <3>2. news \in Surjection(told, M)
      BY <2>2, <2>3 DEF Surjection
    <3> QED BY <3>1, <3>2, FS_Surjection
  <2>6. i \in Seq(M) /\ ToSet(i) = M
    BY <2>4, <2>5, SetToSeqElements
  <2>7. ASSUME NEW y \in told
        PROVE  /\ news[y] \in Messages /\ news[y].kind = "PlayerJoined" /\ news[y].slot = y
               /\ Due(x, news[y], up)
    <3>1. y \in Processes /\ y # HostSlot /\ y # s /\ reg[HostSlot].el[y].mirror
      BY <1>1, <2>1
    <3>2. reg[HostSlot].el[y].eid = OwnId(y)
      BY <3>1 DEF PeersInv, RegistryInv, RegistryOf, Sound
    <3>3. OwnId(y) \in Ids /\ nick[HostSlot][y] \in Text
      BY <3>1, PlayerIds DEF PeersInv, PeersTypes
    <3>4. news[y] = [kind |-> "PlayerJoined", from |-> HostSlot, slot |-> y,
                     eid |-> OwnId(y), nick |-> nick[HostSlot][y]]
      BY <2>2, <3>2 DEF PlayerJoined
    <3>5. news[y] \in Messages
      BY <3>1, <3>3, <3>4 DEF Messages
    <3>6. news[y].kind = "PlayerJoined" /\ news[y].slot = y /\ news[y].eid = OwnId(y)
      BY <3>4
    <3> QED BY <1>1, <1>3, <3>1, <3>5, <3>6 DEF Due
  <2>8. M \subseteq Messages /\ \A m \in M : Due(x, m, up)
    BY <2>3, <2>7
  <2>9. i \in Seq(Messages)
    BY <2>6, <2>8, LenProperties, ElementOfSeq, SeqDef
  <2>10. ASSUME NEW d \in up \ {s}, reg[HostSlot].el[d].mirror PROVE Introduced(i, d)
    <3>1. d \in told
      BY <2>1, <2>10
    <3>2. news[d] \in ToSet(i) /\ news[d].kind = "PlayerJoined" /\ news[d].slot = d
      BY <2>3, <2>6, <2>7, <3>1
    <3> QED BY <3>2 DEF Introduced
  <2> QED BY <1>3, <2>6, <2>8, <2>9, <2>10
<1>4. CASE x \notin up
  <2>1. x # s
    BY <1>4
  <2>2. i = <<>>
    BY <1>4, <2>1 DEF Introductions
  <2> QED BY <1>4, <2>1, <2>2, EmptySeq DEF ToSet
<1> QED BY <1>2, <1>3, <1>4

LEMMA HandleJoinKeeps ==
    ASSUME PeersInv, NEW p \in Processes, inbox[p] # <<>>, Running(p),
           NEW m, m = Head(inbox[p]), m.kind = "Join", HandleJoin(p, m),
           UNCHANGED <<up, seen, localNick, joinSent>>
    PROVE  PeersInv'
<1> USE SlotFacts
<1>1. PICK rest : rest = Handled(inbox, p)
  OBVIOUS
<1>2. PICK s : s = m.from
  OBVIOUS
<1>3. /\ m \in Messages /\ Due(p, m, up)
      /\ rest \in [Processes -> Seq(Messages)]
      /\ \A x \in Processes : \A e \in ToSet(rest[x]) : Due(x, e, up)
      /\ \A c \in ClientSlotIds \ up : rest[c] = <<>>
      /\ \A x \in Processes : \A t : x # p \/ t # s =>
            (Introduced(inbox[x], t) => Introduced(rest[x], t))
  <2>1. First(p, m, rest)
    BY <1>1, FirstMessage
  <2> QED BY <1>2, <2>1 DEF First
<1>4. /\ s \in Processes \ {p} /\ m.eid = OwnId(s) /\ m.nick \in Text
      /\ p = HostSlot => s \in up
      /\ p # HostSlot => s = HostSlot
  BY <1>2, <1>3 DEF Due, Messages, PeersInv, PeersTypes
<1>5. Identify(p, s, OwnId(s), m.nick)
  BY <1>2, <1>4 DEF HandleJoin
<1>6. p # HostSlot \/ reg[p].me # Unknown
  BY DEF Running, PeersInv, PeersTypes
<1>7. Met(p, s)
  BY <1>4, <1>5, <1>6, IdentifyMeets
<1>8. PICK name \in Text : name = SanitizeNickname(m.nick)
  BY <1>4, SanitizedIsName
<1>9. PICK intro : intro = IF p = HostSlot THEN Introductions(s, OwnId(s), name)
                           ELSE [x \in Processes |-> <<>>]
  OBVIOUS
<1>10. inbox' = [x \in Processes |-> rest[x] \o intro[x]]
  <2>1. inbox' = [x \in Processes |->
                    (IF x = p THEN Tail(inbox[x]) ELSE inbox[x]) \o intro[x]]
    BY <1>2, <1>4, <1>8, <1>9 DEF HandleJoin
  <2>2. \A x \in Processes : rest[x] = IF x = p THEN Tail(inbox[x]) ELSE inbox[x]
    BY <1>1 DEF Handled, PeersInv, PeersTypes
  <2> QED BY <2>1, <2>2
<1>11. ASSUME NEW x \in Processes
       PROVE  /\ intro[x] \in Seq(Messages) /\ \A e \in ToSet(intro[x]) : Due(x, e, up)
              /\ x \in ClientSlotIds \ up => intro[x] = <<>>
  <2>1. CASE p = HostSlot
    <3>1. s \in up /\ intro[x] = Introductions(s, OwnId(s), name)[x]
      BY <1>4, <1>9, <2>1
    <3> QED BY <3>1, IntroductionsMade
  <2>2. CASE p # HostSlot
    BY <1>9, <2>2, EmptySeq DEF ToSet
  <2> QED BY <2>1, <2>2
<1>12. ASSUME NEW x \in Processes
       PROVE  /\ inbox'[x] \in Seq(Messages)
              /\ ToSet(inbox'[x]) = ToSet(rest[x]) \cup ToSet(intro[x])
  BY <1>3, <1>10, <1>11, ConcatElements
<1>13. inbox' \in [Processes -> Seq(Messages)]
  BY <1>10, <1>12
<1>14. MailInv'
  BY <1>3, <1>11, <1>12 DEF MailInv
<1>15. ASSUME NEW c \in ClientSlotIds \ up PROVE inbox'[c] = <<>>
  <2>1. rest[c] = <<>> /\ intro[c] = <<>>
    BY <1>3, <1>11
  <2> QED BY <1>10, <2>1, ConcatEmptySeq, EmptySeq
<1>16. \A x \in Processes : \A t :
          /\ Introduced(rest[x], t) => Introduced(inbox'[x], t)
          /\ Introduced(intro[x], t) => Introduced(inbox'[x], t)
  BY <1>12 DEF Introduced
<1>17. ASSUME p = HostSlot, NEW d \in up \ {s}
       PROVE  /\ Introduced(inbox'[d], s)
              /\ reg[HostSlot].el[d].mirror => Introduced(inbox'[s], d)
  <2>1. s \in up /\ intro = Introductions(s, OwnId(s), name) /\ d \in Processes
    BY <1>4, <1>9, <1>17 DEF PeersInv, PeersTypes
  <2>2. Introduced(intro[d], s)
    BY <2>1, IntroductionsMade
  <2>3. reg[HostSlot].el[d].mirror => Introduced(intro[s], d)
    BY <1>4, <2>1, IntroductionsMade
  <2> QED BY <1>4, <1>16, <2>1, <2>2, <2>3
<1>18. \A x \in Processes : \A t : x # p \/ t # s =>
         (Introduced(inbox[x], t) => Introduced(inbox'[x], t))
  BY <1>3, <1>16
<1> QED BY <1>4, <1>7, <1>13, <1>14, <1>15, <1>17, <1>18, MeetKeeps

LEMMA HandlePlayerJoinedKeeps ==
    ASSUME PeersInv, NEW p \in Processes, inbox[p] # <<>>, Running(p),
           NEW m, m = Head(inbox[p]), m.kind = "PlayerJoined", HandlePlayerJoined(p, m),
           UNCHANGED <<up, seen, localNick, joinSent>>
    PROVE  PeersInv'
<1> USE SlotFacts
<1>1. PICK rest : rest = Handled(inbox, p)
  OBVIOUS
<1>2. PICK s : s = m.slot
  OBVIOUS
<1>3. /\ m \in Messages /\ Due(p, m, up)
      /\ rest \in [Processes -> Seq(Messages)]
      /\ \A x \in Processes : \A e \in ToSet(rest[x]) : Due(x, e, up)
      /\ \A c \in ClientSlotIds \ up : rest[c] = <<>>
      /\ \A x \in Processes : \A t : x # p \/ t # s =>
            (Introduced(inbox[x], t) => Introduced(rest[x], t))
  <2>1. First(p, m, rest)
    BY <1>1, FirstMessage
  <2> QED BY <1>2, <2>1 DEF First
<1>4. /\ s \in Processes \ {p} /\ m.eid = OwnId(s) /\ m.nick \in Text
      /\ p # HostSlot /\ s # HostSlot
  BY <1>2, <1>3 DEF Due, Messages
<1>5. m.slot # reg[p].me /\ IsAllowedPeerAllocatedEid(m.eid)
  <2>1. reg[p].me \in {Unknown, p}
    BY DEF PeersInv, RegistryInv, RegistryOf
  <2>2. IsAllowedSenderEid(s = HostSlot, OwnId(s))
    BY <1>4, PlayerIds
  <2> QED BY <1>2, <1>4, <2>1, <2>2 DEF IsAllowedSenderEid
<1>6. Identify(p, s, OwnId(s), m.nick) /\ inbox' = rest
  BY <1>1, <1>2, <1>4, <1>5 DEF HandlePlayerJoined, Handled
<1>7. Met(p, s)
  BY <1>4, <1>6, IdentifyMeets
<1>8. MailInv' /\ inbox' \in [Processes -> Seq(Messages)]
      /\ (\A c \in ClientSlotIds \ up : inbox'[c] = <<>>)
      /\ \A x \in Processes : \A t : x # p \/ t # s =>
            (Introduced(inbox[x], t) => Introduced(inbox'[x], t))
  BY <1>3, <1>6 DEF MailInv
<1> QED BY <1>4, <1>7, <1>8, MeetKeeps

LEMMA HandleAssignPeerSlotKeeps ==
    ASSUME PeersInv, NEW p \in Processes, inbox[p] # <<>>, Running(p),
           NEW m, m = Head(inbox[p]), m.kind = "AssignPeerSlot", HandleAssignPeerSlot(p, m),
           UNCHANGED <<up, seen, localNick, joinSent>>
    PROVE  PeersInv'
<1> USE SlotFacts
<1>1. PICK rest : rest = Handled(inbox, p)
  OBVIOUS
<1>2. /\ m \in Messages /\ Due(p, m, up)
      /\ rest \in [Processes -> Seq(Messages)]
      /\ \A x \in Processes : \A e \in ToSet(rest[x]) : Due(x, e, up)
      /\ \A c \in ClientSlotIds \ up : rest[c] = <<>>
      /\ \A x \in Processes : \A t :
            (Introduced(inbox[x], t) => Introduced(rest[x], t))
  <2>1. First(p, m, rest)
    BY <1>1, FirstMessage
  <2> QED BY <2>1 DEF First
<1>3. m.slot = p /\ m.eid \in {NoEid, OwnId(HostSlot)} /\ p # HostSlot
  BY <1>2 DEF Due
<1>4. inbox' = rest /\ UNCHANGED <<nick, label>>
  BY <1>1 DEF HandleAssignPeerSlot, Handled
<1>5. PICK r, known : r = reg[p] /\ known = SetLocalPeerId(r, p)
  OBVIOUS
<1>6. /\ RegistryOf(known, p) /\ known.me = p
      /\ \A s \in PeerSlotIds \ {p} : known.el[s] = r.el[s]
  <2>1. RegistryOf(r, p)
    BY <1>5 DEF PeersInv, RegistryInv
  <2> QED BY <1>5, <2>1, Switched
<1>7. PICK q : q = IF IsAllowedHostAllocatedEid(m.eid)
                   THEN EstablishMirrorForSlot(known, HostSlot, m.eid) ELSE known
  OBVIOUS
<1>8. reg' = [reg EXCEPT ![p] = q]
  BY <1>3, <1>5, <1>7 DEF HandleAssignPeerSlot
<1>9. /\ RegistryOf(q, p) /\ q.me = p
      /\ \A s \in PeerSlotIds \ {p} : known.el[s].mirror => q.el[s].mirror
  <2>1. CASE IsAllowedHostAllocatedEid(m.eid)
    <3>1. m.eid = OwnId(HostSlot)
      BY <1>3, <2>1 DEF IsAllowedHostAllocatedEid, NoEid
    <3>2. PICK home : home = Home(p, known.me)
      OBVIOUS
    <3>3. /\ home \subseteq Ids \ {NoEid} /\ \A t \in PeerSlotIds \ {p} : OwnId(t) \notin home
          /\ Sound(known, p, home)
      BY <1>6, <3>2, HomeOf
    <3>4. HostSlot \in PeerSlotIds \ {p} /\ q = EstablishMirrorForSlot(known, HostSlot, OwnId(HostSlot))
      BY <1>3, <1>7, <2>1, <3>1
    <3>5. Identified(q, known, HostSlot, p, home)
      BY <3>3, <3>4, Mirrored
    <3>6. PICK el : el = [eid |-> OwnId(HostSlot), mirror |-> TRUE,
                          puppet |-> known.el[HostSlot].puppet]
      OBVIOUS
    <3>7. /\ Sound(q, p, home) /\ q.me = known.me
          /\ q.el = [known.el EXCEPT ![HostSlot] = el] /\ el.mirror
      BY <3>5, <3>6 DEF Identified
    <3>8. known.el \in [PeerSlotIds -> PlayerElements]
      BY <3>3 DEF Sound
    <3>9. q.el[HostSlot] = el /\ \A t \in PeerSlotIds \ {HostSlot} : q.el[t] = known.el[t]
      BY <3>7, <3>8
    <3>10. RegistryOf(q, p)
      BY <1>3, <1>6, <3>2, <3>7, <3>9, RegistryKept
    <3> QED BY <1>6, <3>7, <3>9, <3>10
  <2>2. CASE ~ IsAllowedHostAllocatedEid(m.eid)
    BY <1>6, <1>7, <2>2
  <2> QED BY <2>1, <2>2
<1>10. /\ reg' = [x \in Processes |-> reg'[x]] /\ reg'[p] = q
       /\ \A x \in Processes \ {p} : reg'[x] = reg[x]
  BY <1>8 DEF PeersInv, PeersTypes
<1>11. PeersTypes' /\ NamesInv'
  BY <1>2, <1>4, <1>10 DEF PeersInv, PeersTypes, NamesInv
<1>12. RegistryInv'
  BY <1>9, <1>10 DEF PeersInv, RegistryInv
<1>13. MailInv'
  BY <1>2, <1>4 DEF MailInv
<1>14. SessionInv'
  <2>1. \A x \in Processes : joinSent'[x] # {} => reg'[x].me = x
    BY <1>9, <1>10 DEF PeersInv, SessionInv
  <2>2. \A c \in ClientSlotIds \ up' : inbox'[c] = <<>> /\ joinSent'[c] = {}
    BY <1>2, <1>4 DEF PeersInv, SessionInv
  <2>3. reg'[HostSlot] = reg[HostSlot]
    BY <1>3, <1>10
  <2> QED BY <2>1, <2>2, <2>3 DEF PeersInv, SessionInv
<1>15. \A x \in Processes : \A t \in PeerSlotIds \ {x} :
         Known(reg[x], nick[x], label[x], t) => Known(reg'[x], nick'[x], label'[x], t)
  BY <1>4, <1>5, <1>6, <1>9, <1>10 DEF Known
<1>16. IntroInv'
  <2>1. \A c \in up : c \in Processes /\ c # HostSlot
    BY DEF PeersInv, PeersTypes
  <2>2. reg'[HostSlot] = reg[HostSlot]
    BY <1>3, <1>10
  <2> QED BY <1>2, <1>4, <1>15, <2>1, <2>2 DEF PeersInv, IntroInv
<1> QED BY <1>11, <1>12, <1>13, <1>14, <1>16 DEF PeersInv

-----------------------------------------------------------------------------
(* Who is who: the theorems.                                               *)

LEMMA PeersStart ==
    ASSUME PeersInit
    PROVE  PeersInv
<1> USE SlotFacts
<1>1. \A p \in Processes : RegistryOf(reg[p], p)
  BY Started DEF PeersInit
<1>2. NamesInv
  BY PlaceholderNames DEF PeersInit, NamesInv
<1>3. <<>> \in Seq(Messages) /\ ToSet(<<>>) = {}
  BY EmptySeq DEF ToSet
<1>4. PeersTypes
  <2>1. nick \in [Processes -> [PeerSlotIds -> Text]] /\ localNick \in [Processes -> Text]
    BY PlaceholderNames DEF PeersInit
  <2>2. label \in [Processes -> [PeerSlotIds -> Text \cup {NoPuppet}]]
    BY DEF PeersInit
  <2>3. reg = [p \in Processes |-> reg[p]] /\ up = {} /\ seen = {}
    BY DEF PeersInit
  <2>4. joinSent \in [Processes -> SUBSET PeerSlotIds] /\ inbox \in [Processes -> Seq(Messages)]
    BY <1>3 DEF PeersInit
  <2> QED BY <2>1, <2>2, <2>3, <2>4 DEF PeersTypes
<1>5. MailInv
  BY <1>3 DEF PeersInit, MailInv
<1>6. SessionInv
  <2>1. \A c \in PeerSlotIds : reg[HostSlot].el[c] = NoElement
    BY Started DEF PeersInit
  <2> QED BY <2>1 DEF PeersInit, SessionInv
<1>7. IntroInv
  BY DEF PeersInit, IntroInv
<1> QED BY <1>1, <1>2, <1>4, <1>5, <1>6, <1>7 DEF PeersInv, RegistryInv

LEMMA HandleReliableKeeps ==
    ASSUME PeersInv, NEW p \in Processes, HandleReliable(p)
    PROVE  PeersInv'
<1>1. PICK m : m = Head(inbox[p])
  OBVIOUS
<1>2. inbox[p] # <<>> /\ Running(p) /\ UNCHANGED <<up, seen, localNick, joinSent>>
  BY DEF HandleReliable
<1>3. CASE m.kind = "Join" /\ HandleJoin(p, m)
  BY <1>1, <1>2, <1>3, HandleJoinKeeps
<1>4. CASE m.kind = "PlayerJoined" /\ HandlePlayerJoined(p, m)
  BY <1>1, <1>2, <1>4, HandlePlayerJoinedKeeps
<1>5. CASE m.kind = "AssignPeerSlot" /\ HandleAssignPeerSlot(p, m)
  BY <1>1, <1>2, <1>5, HandleAssignPeerSlotKeeps
<1> QED BY <1>1, <1>3, <1>4, <1>5 DEF HandleReliable

(* The invariant holds for every number of slots and ids, whatever a       *)
(* player calls itself, and in whatever order slots are assigned, Joins    *)
(* and introductions handled, puppets spawned and props dropped. *)
THEOREM PeersInvariance == PeersSpec => []PeersInv
<1>1. PeersInit => PeersInv
  BY PeersStart
<1>2. PeersInv /\ [PeersNext]_peersVars => PeersInv'
  <2> SUFFICES ASSUME PeersInv, [PeersNext]_peersVars PROVE PeersInv'
    OBVIOUS
  <2>1. CASE HostStarts
    BY <2>1, HostStartsKeeps
  <2>2. CASE \E c \in ClientSlotIds :
               Arrive(c) \/ Greet(c) \/ Leave(c) \/ SeesLeft(c) \/ DropProp(c)
    BY <2>2, ArriveKeeps, GreetKeeps, LeaveKeeps, SeesLeftKeeps, DropPropKeeps
  <2>3. CASE \E c \in ClientSlotIds : \E id \in reg[c].props : PropDies(c, id)
    BY <2>3, PropDiesKeeps
  <2>4. CASE \E p \in Processes : HandleReliable(p)
    BY <2>4, HandleReliableKeeps
  <2>5. CASE \E p \in Processes : \E s \in PeerSlotIds :
               SpawnPuppet(p, s) \/ MaybeSendJoinToSlot(p, s)
    BY <2>5, SpawnPuppetKeeps, MaybeSendJoinToSlotKeeps
  <2>6. CASE UNCHANGED peersVars
    <3>1. UNCHANGED <<up, seen, reg, nick, label, localNick, joinSent, inbox>>
      BY <2>6 DEF peersVars
    <3>2. PeersTypes'
      BY <3>1 DEF PeersInv, PeersTypes
    <3>3. RegistryInv' /\ NamesInv' /\ MailInv' /\ SessionInv'
      BY <3>1 DEF PeersInv, RegistryInv, NamesInv, MailInv, SessionInv
    <3>4. IntroInv'
      BY <3>1 DEF PeersInv, IntroInv, Known, Introduced
    <3> QED BY <3>2, <3>3, <3>4 DEF PeersInv
  <2> QED BY <2>1, <2>2, <2>3, <2>4, <2>5, <2>6 DEF PeersNext
<1> QED BY <1>1, <1>2, PTL DEF PeersSpec

(* The ids of players do not clash: what a process uses for its own player *)
(* or for a mirror is that player's own id, and those differ. *)
THEOREM OneIdAlwaysOnePlayer == PeersSpec => []OneIdOnePlayer
<1>1. PeersInv => OneIdOnePlayer
  <2> SUFFICES ASSUME PeersInv, NEW p \in Present, NEW q \in Present,
                      NEW s \in PeerSlotIds, NEW t \in PeerSlotIds,
                      s # t, reg[p].el[s].mirror \/ s = p, reg[q].el[t].mirror \/ t = q
               PROVE  reg[p].el[s].eid # reg[q].el[t].eid \/ reg[p].el[s].eid = NoEid
    BY DEF OneIdOnePlayer
  <2>1. p \in Processes /\ q \in Processes
    BY SlotFacts DEF Present, PeersInv, PeersTypes
  <2>2. ASSUME NEW x \in Processes, NEW u \in PeerSlotIds, reg[x].el[u].mirror \/ u = x
        PROVE  reg[x].el[u].eid \in {NoEid, OwnId(u)}
    <3>1. PICK r : r = reg[x]
      OBVIOUS
    <3>2. RegistryOf(r, x)
      BY <3>1 DEF PeersInv, RegistryInv
    <3>3. CASE u = x
      BY <3>1, <3>2, <3>3 DEF RegistryOf, OwnElement, NoElement
    <3>4. CASE r.el[u].mirror
      BY <3>2, <3>1, <3>4 DEF RegistryOf, Sound
    <3> QED BY <2>2, <3>1, <3>3, <3>4
  <2>3. OwnId(s) # OwnId(t) /\ OwnId(s) # NoEid
    BY PlayerIds DEF Processes
  <2> QED BY <2>1, <2>2, <2>3
<1> QED BY <1>1, PeersInvariance, PTL

(* A nameplate shows nothing but names that the limit fits and that neither *)
(* begin nor end with what SanitizeNickname trims. *)
THEOREM LabelsAlwaysDisplayable == PeersSpec => []LabelsDisplayable
<1>1. PeersInv => LabelsDisplayable
  BY DEF PeersInv, NamesInv, Name, Displayable, LabelsDisplayable
<1> QED BY <1>1, PeersInvariance, PTL

-----------------------------------------------------------------------------
(* Who is who: an element for every puppet, as long as nobody runs out of  *)
(* ids.                                                                    *)

(* A process that has dropped n props misses none of its ids. *)
Stocked(r, p, n) ==
    /\ Covers(r, Stock(p, r.me))
    /\ IsFiniteSet(r.props) /\ Cardinality(r.props) =< (IF p = HostSlot THEN 0 ELSE Seeds + n)

(* The elements are bound to the puppets that the labels are above. *)
Puppeted(r, l) == \A s \in PeerSlotIds : r.el[s].puppet <=> l[s] # NoPuppet

PuppetsOf(r, p, l, n) == Stocked(r, p, n) /\ Puppeted(r, l)

PuppetsInv ==
    /\ drops \in [Processes -> 0 .. MaxDrops]
    /\ \A p \in Processes : PuppetsOf(reg[p], p, label[p], drops[p])
    /\ \A c \in ClientSlotIds \ up : reg[c] = Fresh(c)

(* Each slot but one may hold an id, and the props do: one id is free. *)
LEMMA OneIdFree ==
    ASSUME EnoughIds, NEW p \in Processes, NEW r, RegistryOf(r, p),
           NEW n \in 0 .. MaxDrops, Stocked(r, p, n),
           NEW s \in PeerSlotIds, r.el[s] = NoElement
    PROVE  r.free # <<>>
<1> SUFFICES ASSUME r.free = <<>> PROVE FALSE
  OBVIOUS
<1> DEFINE Others == PeerSlotIds \ {s}
           ids == [t \in Others |-> r.el[t].eid]
           Held == {ids[t] : t \in Others}
<1>1. /\ PeerBandCount \in Nat /\ HostRangeSize \in Nat /\ SlotBandSize \in Nat
      /\ Seeds \in Nat /\ MaxDrops \in Nat
  BY IdRangesAssumption, PeersAssumption, SlotBandSizeBounds
<1>2. IsFiniteSet(Others) /\ Cardinality(Others) = PeerBandCount - 1
  BY SlotFacts, FS_RemoveElement
<1>3. IsFiniteSet(Held) /\ Cardinality(Held) =< PeerBandCount - 1
  <2>1. ids \in Surjection(Others, Held)
    BY DEF Surjection
  <2> HIDE DEF Others, ids, Held
  <2> QED BY <1>2, <2>1, FS_Surjection
<1>4. PICK stock : stock = Stock(p, r.me)
  OBVIOUS
<1>5. stock \subseteq r.props \cup Held
  <2> SUFFICES ASSUME NEW id \in stock, id \notin r.props PROVE id \in Held
    OBVIOUS
  <2>1. id \notin ToSet(r.free)
    BY EmptySeq DEF ToSet
  <2>2. PICK t \in PeerSlotIds : Mints(r, t) /\ r.el[t].eid = id
    BY <1>4, <2>1 DEF Stocked, Covers
  <2>3. t # s
    BY <2>2 DEF Mints, NoElement
  <2> QED BY <2>2, <2>3
<1>6. PICK most \in Nat : most = IF p = HostSlot THEN 0 ELSE Seeds + n
  BY <1>1
<1>7. IsFiniteSet(r.props) /\ Cardinality(r.props) =< most
  BY <1>6 DEF Stocked
<1> HIDE DEF Held
<1>8. IsFiniteSet(r.props \cup Held) /\ Cardinality(r.props \cup Held) =< most + PeerBandCount - 1
  <2>1. /\ IsFiniteSet(r.props \cup Held)
        /\ Cardinality(r.props \cup Held) =
             Cardinality(r.props) + Cardinality(Held) - Cardinality(r.props \cap Held)
    BY <1>3, <1>7, FS_Union
  <2>2. IsFiniteSet(r.props \cap Held)
    BY <1>7, FS_Intersection
  <2>3. Cardinality(r.props) \in Nat /\ Cardinality(Held) \in Nat
        /\ Cardinality(r.props \cap Held) \in Nat
    BY <1>3, <1>7, <2>2, FS_CardinalityType
  <2> QED BY <1>1, <1>3, <1>6, <1>7, <2>1, <2>3
<1>9. Cardinality(stock) \in Nat /\ Cardinality(stock) =< most + PeerBandCount - 1
  <2>1. IsFiniteSet(stock) /\ Cardinality(stock) =< Cardinality(r.props \cup Held)
    BY <1>5, <1>8, FS_Subset
  <2>2. Cardinality(stock) \in Nat /\ Cardinality(r.props \cup Held) \in Nat
    BY <1>8, <2>1, FS_CardinalityType
  <2> QED BY <1>1, <1>6, <1>8, <2>1, <2>2
<1>10. CASE p = HostSlot
  <2>1. stock = 1 .. HostRangeSize - 1
    BY <1>4, <1>10 DEF Stock, HostMintIds
  <2>2. Cardinality(stock) = HostRangeSize - 1
    BY <1>1, <2>1, FS_Interval, IdRangesAssumption
  <2> QED BY <1>1, <1>6, <1>9, <1>10, <2>2 DEF EnoughIds
<1>11. CASE p # HostSlot
  <2>1. PICK b \in PeerSlotIds : stock = Band(b)
    BY <1>4, <1>11, IdRangesAssumption DEF Stock, Processes, PeerSlotIds
  <2>2. PICK lo \in Nat, hi \in Nat :
          lo = BandBase(b) /\ hi = BandEnd(b) /\ lo + SlotBandSize =< hi
    BY <2>1, BandBounds
  <2>3. stock = lo .. hi - 1
    BY <2>1, <2>2 DEF Band
  <2>4. Cardinality(stock) >= SlotBandSize
    <3>1. PICK size \in Nat \ {0} : size = SlotBandSize
      BY SlotBandSizeBounds
    <3>2. hi - 1 \in Int /\ lo \in Int /\ lo =< hi - 1 /\ hi - lo >= size
      BY <2>2, <3>1
    <3>3. Cardinality(lo .. hi - 1) = hi - 1 - lo + 1
      BY <3>2, FS_Interval
    <3> QED BY <2>2, <2>3, <3>1, <3>2, <3>3
  <2>5. most = Seeds + n /\ n =< MaxDrops /\ n \in Nat
    BY <1>1, <1>6, <1>11
  <2> QED BY <1>1, <1>9, <2>4, <2>5 DEF EnoughIds
<1> QED BY <1>10, <1>11

(* A step that changes one process at most. *)
LEMMA PuppetsKept ==
    ASSUME PuppetsInv, NEW p \in Processes,
           drops' \in [Processes -> 0 .. MaxDrops],
           \A x \in Processes \ {p} :
              reg'[x] = reg[x] /\ label'[x] = label[x] /\ drops'[x] = drops[x],
           PuppetsOf(reg'[p], p, label'[p], drops'[p]),
           \A c \in ClientSlotIds \ up' : c \in ClientSlotIds \ up \/ c = p,
           p \in ClientSlotIds \ up' => reg'[p] = Fresh(p)
    PROVE  PuppetsInv'
<1>1. ASSUME NEW x \in Processes PROVE PuppetsOf(reg'[x], x, label'[x], drops'[x])
  <2>1. CASE x = p
    BY <2>1
  <2>2. CASE x # p
    BY <2>2 DEF PuppetsInv
  <2> QED BY <2>1, <2>2
<1>2. ASSUME NEW c \in ClientSlotIds \ up' PROVE reg'[c] = Fresh(c)
  <2>1. CASE c = p
    BY <2>1
  <2>2. CASE c # p
    BY <2>2, SlotFacts DEF PuppetsInv
  <2> QED BY <2>1, <2>2
<1> QED BY <1>1, <1>2 DEF PuppetsInv

(* Who starts, or starts anew, has no puppets. *)
LEMMA PuppetsStarted ==
    ASSUME NEW p \in Processes, NEW n \in Nat, NEW l, \A s \in PeerSlotIds : l[s] = NoPuppet
    PROVE  PuppetsOf(Fresh(p), p, l, n)
<1>1. PICK r : r = Fresh(p)
  OBVIOUS
<1>2. /\ r.me = Unknown /\ r.el = [s \in PeerSlotIds |-> NoElement]
      /\ Covers(r, Stock(p, Unknown)) /\ IsFiniteSet(r.props)
      /\ Cardinality(r.props) =< (IF p = HostSlot THEN 0 ELSE Seeds)
  BY <1>1, Started
<1>3. Cardinality(r.props) \in Nat /\ Seeds \in Nat
  BY <1>2, FS_CardinalityType, PeersAssumption
<1>4. Stocked(r, p, n)
  BY <1>2, <1>3 DEF Stocked
<1>5. Puppeted(r, l)
  BY <1>2 DEF Puppeted, NoElement
<1> QED BY <1>1, <1>4, <1>5 DEF PuppetsOf

LEMMA PuppetsUntouched ==
    ASSUME PuppetsInv, UNCHANGED <<up, reg, label, drops>>
    PROVE  PuppetsInv'
BY DEF PuppetsInv, PuppetsOf, Stocked, Puppeted

(* What PuppetsInv and PeersInv say of one process. *)
LEMMA PuppetsAt ==
    ASSUME PeersInv, PuppetsInv, NEW p \in Processes
    PROVE  /\ RegistryOf(reg[p], p) /\ Stocked(reg[p], p, drops[p])
           /\ Puppeted(reg[p], label[p])
           /\ drops[p] \in 0 .. MaxDrops /\ drops[p] \in Nat
           /\ Running(p) => p \notin ClientSlotIds \ up /\ (p # HostSlot \/ reg[p].me # Unknown)
<1>1. RegistryOf(reg[p], p)
  BY DEF PeersInv, RegistryInv
<1>2. PuppetsOf(reg[p], p, label[p], drops[p]) /\ drops[p] \in 0 .. MaxDrops
  BY DEF PuppetsInv
<1>3. drops[p] \in Nat
  BY <1>2, PeersAssumption
<1>4. Running(p) => p \notin ClientSlotIds \ up /\ (p # HostSlot \/ reg[p].me # Unknown)
  BY SlotFacts DEF Running, PeersInv, PeersTypes
<1> QED BY <1>1, <1>2, <1>3, <1>4 DEF PuppetsOf

LEMMA HostStartsKeepsPuppets ==
    ASSUME PeersInv, PuppetsInv, HostStarts
    PROVE  PuppetsInv'
<1> USE SlotFacts
<1>1. PICK r, q : r = reg[HostSlot] /\ q = SetLocalPeerId(r, HostSlot)
  OBVIOUS
<1>2. /\ RegistryOf(r, HostSlot) /\ Stocked(r, HostSlot, drops[HostSlot])
      /\ Puppeted(r, label[HostSlot]) /\ r.me = Unknown
  BY <1>1, PuppetsAt DEF HostStarts
<1>3. /\ RegistryOf(q, HostSlot) /\ q.me = HostSlot /\ q.props = r.props
      /\ \A s \in PeerSlotIds \ {HostSlot} : q.el[s] = r.el[s]
      /\ Covers(r, Stock(HostSlot, r.me)) => Covers(q, Stock(HostSlot, HostSlot))
  BY <1>1, <1>2, Switched
<1>4. Stocked(q, HostSlot, drops[HostSlot])
  BY <1>2, <1>3 DEF Stocked
<1>5. Puppeted(q, label[HostSlot])
  <2>1. ~ q.el[HostSlot].puppet /\ ~ r.el[HostSlot].puppet
    BY <1>2, <1>3 DEF RegistryOf, OwnElement, NoElement
  <2> QED BY <1>2, <1>3, <2>1 DEF Puppeted
<1>6. reg' = [reg EXCEPT ![HostSlot] = q] /\ UNCHANGED <<up, label, drops>>
  BY <1>1 DEF HostStarts
<1>7. reg'[HostSlot] = q /\ \A p \in Processes \ {HostSlot} : reg'[p] = reg[p]
  BY <1>6 DEF PeersInv, PeersTypes
<1>8. PuppetsOf(reg'[HostSlot], HostSlot, label'[HostSlot], drops'[HostSlot])
  BY <1>4, <1>5, <1>6, <1>7 DEF PuppetsOf
<1>9. drops' \in [Processes -> 0 .. MaxDrops]
  BY <1>6 DEF PuppetsInv
<1> QED BY <1>6, <1>7, <1>8, <1>9, PuppetsKept

LEMMA ArriveKeepsPuppets ==
    ASSUME PeersInv, PuppetsInv, NEW c \in ClientSlotIds, Arrive(c)
    PROVE  PuppetsInv'
<1> USE SlotFacts
<1>1. /\ reg'[c] = Fresh(c) /\ \A x \in Processes \ {c} : reg'[x] = reg[x]
      /\ UNCHANGED <<label, drops>> /\ up' = up \cup {c} /\ c \notin up
  BY DEF Arrive, PeersInv, PeersTypes
<1>2. Puppeted(reg[c], label[c]) /\ reg[c] = Fresh(c)
  BY <1>1, PuppetsAt DEF PuppetsInv
<1>3. \A s \in PeerSlotIds : label[c][s] = NoPuppet
  <2>1. PICK r : r = Fresh(c)
    OBVIOUS
  <2>2. r.el = [s \in PeerSlotIds |-> NoElement]
    BY <2>1, Started
  <2> QED BY <1>2, <2>1, <2>2 DEF Puppeted, NoElement
<1>4. drops[c] \in Nat
  BY PuppetsAt
<1>5. PuppetsOf(reg'[c], c, label'[c], drops'[c])
  BY <1>1, <1>3, <1>4, PuppetsStarted
<1>6. drops' \in [Processes -> 0 .. MaxDrops]
  BY <1>1 DEF PuppetsInv
<1> QED BY <1>1, <1>5, <1>6, PuppetsKept

LEMMA LeaveKeepsPuppets ==
    ASSUME PeersInv, PuppetsInv, NEW c \in ClientSlotIds, Leave(c)
    PROVE  PuppetsInv'
<1> USE SlotFacts
<1>1. /\ reg'[c] = Fresh(c) /\ label'[c] = [s \in PeerSlotIds |-> NoPuppet]
      /\ drops' = [drops EXCEPT ![c] = 0] /\ up' = up \ {c}
      /\ \A x \in Processes \ {c} : reg'[x] = reg[x] /\ label'[x] = label[x]
  BY DEF Leave, PeersInv, PeersTypes
<1>2. /\ drops' \in [Processes -> 0 .. MaxDrops] /\ drops'[c] = 0
      /\ \A x \in Processes \ {c} : drops'[x] = drops[x]
  BY <1>1, PeersAssumption DEF PuppetsInv
<1>3. PuppetsOf(reg'[c], c, label'[c], drops'[c])
  BY <1>1, <1>2, PuppetsStarted
<1> QED BY <1>1, <1>2, <1>3, PuppetsKept

LEMMA SeesLeftKeepsPuppets ==
    ASSUME PeersInv, PuppetsInv, NEW c \in ClientSlotIds, SeesLeft(c)
    PROVE  PuppetsInv'
<1> USE SlotFacts
<1>1. PICK r, q : r = reg[HostSlot] /\ q = DropPlayerElement(r, c)
  OBVIOUS
<1>2. /\ RegistryOf(r, HostSlot) /\ Stocked(r, HostSlot, drops[HostSlot])
      /\ Puppeted(r, label[HostSlot]) /\ r.el \in [PeerSlotIds -> PlayerElements]
  BY <1>1, PuppetsAt DEF RegistryOf, Sound
<1>3. /\ q.me = r.me /\ q.props = r.props /\ q.el = [r.el EXCEPT ![c] = NoElement]
      /\ \A stock : Covers(r, stock) => Covers(q, stock)
  <2>1. PICK home : home = Home(HostSlot, r.me)
    OBVIOUS
  <2>2. Sound(r, HostSlot, home)
    BY <1>2, <2>1 DEF RegistryOf
  <2> QED BY <1>1, <2>2, Dropped
<1>4. Stocked(q, HostSlot, drops[HostSlot])
  BY <1>2, <1>3 DEF Stocked
<1>5. /\ reg'[HostSlot] = q /\ label'[HostSlot][c] = NoPuppet
      /\ \A t \in PeerSlotIds \ {c} : label'[HostSlot][t] = label[HostSlot][t]
      /\ \A p \in Processes \ {HostSlot} : reg'[p] = reg[p] /\ label'[p] = label[p]
      /\ UNCHANGED <<up, drops>>
  BY <1>1 DEF SeesLeft, PeersInv, PeersTypes
<1>6. Puppeted(q, label'[HostSlot])
  BY <1>2, <1>3, <1>5 DEF Puppeted, NoElement
<1>7. PuppetsOf(reg'[HostSlot], HostSlot, label'[HostSlot], drops'[HostSlot])
  BY <1>4, <1>5, <1>6 DEF PuppetsOf
<1>8. drops' \in [Processes -> 0 .. MaxDrops]
  BY <1>5 DEF PuppetsInv
<1> QED BY <1>5, <1>7, <1>8, PuppetsKept

LEMMA NoPuppetIsPlaceholder == RemotePlayer # NoPuppet /\ NoNick # NoPuppet
<1>1. RemotePlayer # NoPuppet
  <2>1. RemotePlayer[1] = "RemotePlayer"
    BY DEF RemotePlayer
  <2>2. NoPuppet[1] = "NoPuppet"
    BY DEF NoPuppet
  <2>3. "RemotePlayer" # "NoPuppet"
    OBVIOUS
  <2> QED BY <2>1, <2>2, <2>3
<1>2. NoNick # NoPuppet
  BY DEF NoNick, NoPuppet
<1> QED BY <1>1, <1>2

LEMMA SpawnPuppetKeepsPuppets ==
    ASSUME EnoughIds, PeersInv, PuppetsInv,
           NEW p \in Processes, NEW s \in PeerSlotIds, SpawnPuppet(p, s)
    PROVE  PuppetsInv'
<1> USE SlotFacts
<1>1. PICK r, q : r = reg[p] /\ q = EnsurePlayerElement(r, s, TRUE)
  OBVIOUS
<1>2. /\ Running(p) /\ s # p /\ UNCHANGED <<up, drops>>
      /\ reg'[p] = q /\ label'[p][s] = nick[p][s]
      /\ \A t \in PeerSlotIds \ {s} : label'[p][t] = label[p][t]
      /\ \A x \in Processes \ {p} : reg'[x] = reg[x] /\ label'[x] = label[x]
  BY <1>1 DEF SpawnPuppet, PeersInv, PeersTypes
<1>3. /\ RegistryOf(r, p) /\ Stocked(r, p, drops[p]) /\ Puppeted(r, label[p])
      /\ drops[p] \in 0 .. MaxDrops /\ p \notin ClientSlotIds \ up
  BY <1>1, <1>2, PuppetsAt
<1>4. /\ q.me = r.me /\ q.props = r.props /\ q.el[s].puppet
      /\ \A t \in PeerSlotIds \ {s} : q.el[t] = r.el[t]
      /\ \A stock : Covers(r, stock) => Covers(q, stock)
  <2>1. PICK home : home = Home(p, r.me)
    OBVIOUS
  <2>2. /\ home \subseteq Ids \ {NoEid} /\ \A t \in PeerSlotIds \ {p} : OwnId(t) \notin home
        /\ Sound(r, p, home)
    BY <1>3, <2>1, HomeOf
  <2>3. PICK on \in BOOLEAN : on = TRUE
    OBVIOUS
  <2>4. on \in BOOLEAN /\ q = EnsurePlayerElement(r, s, on)
    BY <1>1, <2>3
  <2>5. Bound(q, r, s, on, p, home)
    BY <2>2, <2>4, Ensured
  <2>6. r.free # <<>> \/ r.el[s] # NoElement
    BY <1>3, OneIdFree
  <2> QED BY <2>3, <2>5, <2>6 DEF Bound
<1>5. Stocked(q, p, drops[p])
  BY <1>3, <1>4 DEF Stocked
<1>6. nick[p][s] # NoPuppet
  <2>1. Name(nick[p][s])
    BY DEF PeersInv, NamesInv
  <2>2. RemotePlayer # NoPuppet /\ NoNick # NoPuppet
    BY NoPuppetIsPlaceholder
  <2> QED BY <2>1, <2>2, DisplayableIsName DEF Name
<1>7. Puppeted(q, label'[p])
  BY <1>2, <1>3, <1>4, <1>6 DEF Puppeted
<1>8. PuppetsOf(reg'[p], p, label'[p], drops'[p])
  BY <1>2, <1>5, <1>7 DEF PuppetsOf
<1>9. drops' \in [Processes -> 0 .. MaxDrops]
  BY <1>2 DEF PuppetsInv
<1> QED BY <1>2, <1>3, <1>8, <1>9, PuppetsKept

(* A mirror is bound to the puppet that the slot has. *)
LEMMA MirrorKeepsPuppets ==
    ASSUME NEW p \in Processes, NEW r, NEW n, Stocked(r, p, n), NEW l, Puppeted(r, l),
           NEW home, Sound(r, p, home), NEW s \in PeerSlotIds,
           NEW q, Identified(q, r, s, p, home),
           NEW k, \A t \in PeerSlotIds : k[t] = NoPuppet <=> l[t] = NoPuppet
    PROVE  PuppetsOf(q, p, k, n)
<1>1. PICK el : el = [eid |-> OwnId(s), mirror |-> TRUE, puppet |-> r.el[s].puppet]
  OBVIOUS
<1>2. /\ q.me = r.me /\ q.props = r.props /\ q.el = [r.el EXCEPT ![s] = el]
      /\ \A stock : Covers(r, stock) => Covers(q, stock)
  BY <1>1 DEF Identified
<1>3. Stocked(q, p, n)
  BY <1>2 DEF Stocked
<1>4. \A t \in PeerSlotIds : q.el[t].puppet = r.el[t].puppet
  <2>1. r.el \in [PeerSlotIds -> PlayerElements]
    BY DEF Sound
  <2> QED BY <1>1, <1>2, <2>1
<1>5. Puppeted(q, k)
  BY <1>4 DEF Puppeted
<1> QED BY <1>3, <1>5 DEF PuppetsOf

LEMMA IdentifyKeepsPuppets ==
    ASSUME PeersInv, PuppetsInv, NEW p \in Processes, Running(p),
           NEW s \in PeerSlotIds \ {p}, NEW n \in Text, Identify(p, s, OwnId(s), n),
           UNCHANGED <<up, drops>>
    PROVE  PuppetsInv'
<1> USE SlotFacts
<1>1. PICK r, q, name : r = reg[p] /\ q = EstablishMirrorForSlot(r, s, OwnId(s))
                        /\ name = SanitizeNickname(n)
  OBVIOUS
<1>2. name # NoPuppet
  BY <1>1, SanitizedIsName
<1>3. IsAllowedSenderEid(s = HostSlot, OwnId(s))
  BY PlayerIds
<1>4. /\ RegistryOf(r, p) /\ Stocked(r, p, drops[p]) /\ Puppeted(r, label[p])
      /\ p \notin ClientSlotIds \ up
  BY <1>1, PuppetsAt
<1>5. PICK shown : shown = IF label[p][s] = NoPuppet THEN NoPuppet ELSE name
  OBVIOUS
<1>6. reg' = [reg EXCEPT ![p] = q] /\ label' = [label EXCEPT ![p][s] = shown]
  BY <1>1, <1>3, <1>5 DEF Identify
<1>7. /\ reg'[p] = q /\ \A x \in Processes \ {p} : reg'[x] = reg[x] /\ label'[x] = label[x]
      /\ \A t \in PeerSlotIds : label'[p][t] = NoPuppet <=> label[p][t] = NoPuppet
  BY <1>2, <1>5, <1>6 DEF PeersInv, PeersTypes
<1>8. PuppetsOf(reg'[p], p, label'[p], drops'[p])
  <2>1. PICK home : home = Home(p, r.me)
    OBVIOUS
  <2>2. /\ home \subseteq Ids \ {NoEid} /\ \A t \in PeerSlotIds \ {p} : OwnId(t) \notin home
        /\ Sound(r, p, home)
    BY <1>4, <2>1, HomeOf
  <2>3. Identified(q, r, s, p, home)
    BY <1>1, <2>2, Mirrored
  <2> QED BY <1>4, <1>7, <2>2, <2>3, MirrorKeepsPuppets
<1>9. drops' \in [Processes -> 0 .. MaxDrops]
  BY DEF PuppetsInv
<1> QED BY <1>4, <1>7, <1>8, <1>9, PuppetsKept

LEMMA HandleAssignPeerSlotKeepsPuppets ==
    ASSUME PeersInv, PuppetsInv, NEW p \in Processes, Running(p),
           NEW m, Due(p, m, up), m.kind = "AssignPeerSlot", HandleAssignPeerSlot(p, m),
           UNCHANGED <<up, drops>>
    PROVE  PuppetsInv'
<1> USE SlotFacts
<1>1. m.slot = p /\ m.eid \in {NoEid, OwnId(HostSlot)} /\ p # HostSlot
  BY DEF Due
<1>2. PICK r, known : r = reg[p] /\ known = SetLocalPeerId(r, p)
  OBVIOUS
<1>3. /\ RegistryOf(r, p) /\ Stocked(r, p, drops[p]) /\ Puppeted(r, label[p])
      /\ p \notin ClientSlotIds \ up
  BY <1>2, PuppetsAt
<1>4. /\ RegistryOf(known, p) /\ known.me = p /\ known.props = r.props
      /\ \A s \in PeerSlotIds \ {p} : known.el[s] = r.el[s]
      /\ Covers(r, Stock(p, r.me)) => Covers(known, Stock(p, p))
  BY <1>2, <1>3, Switched
<1>5. Stocked(known, p, drops[p])
  BY <1>3, <1>4 DEF Stocked
<1>6. Puppeted(known, label[p])
  <2>1. ~ known.el[p].puppet /\ ~ r.el[p].puppet
    <3>1. r.el[p] \in {OwnElement(p), NoElement} /\ known.el[p] = OwnElement(p)
      BY <1>3, <1>4 DEF RegistryOf
    <3> QED BY <3>1 DEF OwnElement, NoElement
  <2> QED BY <1>3, <1>4, <2>1 DEF Puppeted
<1>7. PICK q : q = IF IsAllowedHostAllocatedEid(m.eid)
                   THEN EstablishMirrorForSlot(known, HostSlot, m.eid) ELSE known
  OBVIOUS
<1>8. PuppetsOf(q, p, label[p], drops[p])
  <2>1. CASE IsAllowedHostAllocatedEid(m.eid)
    <3>1. m.eid = OwnId(HostSlot)
      BY <1>1, <2>1 DEF IsAllowedHostAllocatedEid, NoEid
    <3>2. PICK home : home = Home(p, known.me)
      OBVIOUS
    <3>3. /\ home \subseteq Ids \ {NoEid} /\ \A t \in PeerSlotIds \ {p} : OwnId(t) \notin home
          /\ Sound(known, p, home)
      BY <1>4, <3>2, HomeOf
    <3>4. HostSlot \in PeerSlotIds \ {p}
          /\ q = EstablishMirrorForSlot(known, HostSlot, OwnId(HostSlot))
      BY <1>1, <1>7, <2>1, <3>1
    <3>5. Identified(q, known, HostSlot, p, home)
      BY <3>3, <3>4, Mirrored
    <3> QED BY <1>5, <1>6, <3>3, <3>5, MirrorKeepsPuppets
  <2>2. CASE ~ IsAllowedHostAllocatedEid(m.eid)
    BY <1>5, <1>6, <1>7, <2>2 DEF PuppetsOf
  <2> QED BY <2>1, <2>2
<1>9. /\ reg'[p] = q /\ UNCHANGED label /\ \A x \in Processes \ {p} : reg'[x] = reg[x]
  BY <1>1, <1>2, <1>7 DEF HandleAssignPeerSlot, PeersInv, PeersTypes
<1>10. PuppetsOf(reg'[p], p, label'[p], drops'[p])
  BY <1>8, <1>9
<1>11. drops' \in [Processes -> 0 .. MaxDrops]
  BY DEF PuppetsInv
<1> QED BY <1>3, <1>9, <1>10, <1>11, PuppetsKept

LEMMA HandleReliableKeepsPuppets ==
    ASSUME PeersInv, PuppetsInv, NEW p \in Processes, HandleReliable(p)
    PROVE  PuppetsInv'
<1> USE SlotFacts
<1>1. PICK m : m = Head(inbox[p])
  OBVIOUS
<1>2. inbox[p] # <<>> /\ Running(p) /\ UNCHANGED <<up, drops>>
  BY DEF HandleReliable
<1>3. m \in Messages /\ Due(p, m, up)
  <2>1. PICK rest : rest = Handled(inbox, p)
    OBVIOUS
  <2>2. First(p, m, rest)
    BY <1>1, <1>2, <2>1, FirstMessage
  <2> QED BY <2>2 DEF First
<1>4. CASE m.kind = "Join" /\ HandleJoin(p, m)
  <2>1. PICK s \in Processes \ {p} : s = m.from /\ m.eid = OwnId(s) /\ m.nick \in Text
    BY <1>3, <1>4 DEF Due, Messages, PeersInv, PeersTypes
  <2>2. Identify(p, s, OwnId(s), m.nick)
    BY <1>4, <2>1 DEF HandleJoin
  <2> QED BY <1>2, <2>1, <2>2, IdentifyKeepsPuppets
<1>5. CASE m.kind = "PlayerJoined" /\ HandlePlayerJoined(p, m)
  <2>1. PICK s \in Processes \ {p} : s = m.slot /\ m.eid = OwnId(s) /\ m.nick \in Text
    BY <1>3, <1>5 DEF Due, Messages
  <2>2. CASE Identify(p, m.slot, m.eid, m.nick)
    BY <1>2, <2>1, <2>2, IdentifyKeepsPuppets
  <2>3. CASE UNCHANGED <<reg, nick, label>>
    BY <1>2, <2>3, PuppetsUntouched
  <2> QED BY <1>5, <2>2, <2>3 DEF HandlePlayerJoined
<1>6. CASE m.kind = "AssignPeerSlot" /\ HandleAssignPeerSlot(p, m)
  BY <1>2, <1>3, <1>6, HandleAssignPeerSlotKeepsPuppets
<1> QED BY <1>1, <1>4, <1>5, <1>6 DEF HandleReliable

LEMMA DropPropKeepsPuppets ==
    ASSUME PeersInv, PuppetsInv, NEW c \in ClientSlotIds, DropProp(c)
    PROVE  PuppetsInv'
<1> USE SlotFacts
<1>1. PICK r, q : r = reg[c] /\ q = MintProp(r)
  OBVIOUS
<1>2. /\ CanAlloc(r) /\ drops[c] < MaxDrops /\ c \in up /\ UNCHANGED <<up, label>>
      /\ reg'[c] = q /\ \A x \in Processes \ {c} : reg'[x] = reg[x]
      /\ drops' = [drops EXCEPT ![c] = @ + 1]
  BY <1>1 DEF DropProp, PeersInv, PeersTypes
<1>3. /\ RegistryOf(r, c) /\ Stocked(r, c, drops[c]) /\ Puppeted(r, label[c])
      /\ drops[c] \in 0 .. MaxDrops
  BY <1>1, PuppetsAt
<1>4. PICK id : id = Last(r.free)
  OBVIOUS
<1>5. /\ q.me = r.me /\ q.el = r.el /\ q.props = r.props \cup {id}
      /\ \A stock : Covers(r, stock) => Covers(q, stock)
  <2>1. PICK home : home = Home(c, r.me)
    OBVIOUS
  <2>2. Sound(r, c, home)
    BY <1>3, <2>1 DEF RegistryOf
  <2>3. CanAlloc(r) /\ q = MintProp(r)
    BY <1>1, <1>2
  <2>4. Taken(q, r, c, home)
    BY <2>2, <2>3, PropMinted
  <2> QED BY <1>4, <2>4 DEF Taken
<1>6. /\ drops' \in [Processes -> 0 .. MaxDrops] /\ drops'[c] = drops[c] + 1
      /\ \A x \in Processes \ {c} : drops'[x] = drops[x]
  BY <1>2, <1>3, PeersAssumption DEF PuppetsInv
<1>7. Stocked(q, c, drops[c] + 1)
  <2>1. /\ IsFiniteSet(q.props) /\ Cardinality(q.props) =< Cardinality(r.props) + 1
        /\ Cardinality(r.props) \in Nat /\ Cardinality(q.props) \in Nat
    <3>1. IsFiniteSet(r.props)
      BY <1>3 DEF Stocked
    <3>2. IsFiniteSet(r.props \cup {id})
          /\ Cardinality(r.props \cup {id}) =
               IF id \in r.props THEN Cardinality(r.props) ELSE Cardinality(r.props) + 1
      BY <3>1, FS_AddElement
    <3>3. Cardinality(r.props) \in Nat
      BY <3>1, FS_CardinalityType
    <3> QED BY <1>5, <3>2, <3>3
  <2>2. Cardinality(r.props) =< Seeds + drops[c] /\ Seeds \in Nat /\ MaxDrops \in Nat
    BY <1>3, PeersAssumption DEF Stocked
  <2>3. Cardinality(q.props) =< Seeds + (drops[c] + 1)
    BY <1>3, <2>1, <2>2
  <2>4. Covers(q, Stock(c, q.me))
    BY <1>3, <1>5 DEF Stocked
  <2> QED BY <2>1, <2>3, <2>4 DEF Stocked
<1>8. PuppetsOf(reg'[c], c, label'[c], drops'[c])
  BY <1>2, <1>3, <1>5, <1>6, <1>7 DEF PuppetsOf, Puppeted
<1> QED BY <1>2, <1>6, <1>8, PuppetsKept

LEMMA PropDiesKeepsPuppets ==
    ASSUME PeersInv, PuppetsInv, NEW c \in ClientSlotIds, NEW id \in reg[c].props,
           PropDies(c, id)
    PROVE  PuppetsInv'
<1> USE SlotFacts
<1>1. PICK r, q : r = reg[c] /\ q = FreeProp(r, id)
  OBVIOUS
<1>2. /\ c \in up /\ UNCHANGED <<up, label, drops>>
      /\ reg'[c] = q /\ \A x \in Processes \ {c} : reg'[x] = reg[x]
  BY <1>1 DEF PropDies, PeersInv, PeersTypes
<1>3. /\ RegistryOf(r, c) /\ Stocked(r, c, drops[c]) /\ Puppeted(r, label[c])
      /\ drops[c] \in 0 .. MaxDrops
  BY <1>1, PuppetsAt
<1>4. /\ q.me = r.me /\ q.el = r.el /\ q.props = r.props \ {id}
      /\ \A stock : Covers(r, stock) => Covers(q, stock)
  <2>1. PICK home : home = Home(c, r.me)
    OBVIOUS
  <2>2. Sound(r, c, home)
    BY <1>3, <2>1 DEF RegistryOf
  <2> QED BY <1>1, <2>2, PropGone
<1>5. Stocked(q, c, drops[c])
  <2>1. IsFiniteSet(r.props) /\ Cardinality(r.props) =< Seeds + drops[c]
    BY <1>3 DEF Stocked
  <2>2. IsFiniteSet(q.props) /\ Cardinality(q.props) =< Cardinality(r.props)
    BY <1>4, <2>1, FS_Subset
  <2>3. Cardinality(r.props) \in Nat /\ Cardinality(q.props) \in Nat /\ Seeds \in Nat
        /\ drops[c] \in Nat
    BY <2>1, <2>2, FS_CardinalityType, PuppetsAt, PeersAssumption
  <2>4. Cardinality(q.props) =< Seeds + drops[c]
    BY <2>1, <2>2, <2>3
  <2>5. Covers(q, Stock(c, q.me))
    BY <1>3, <1>4 DEF Stocked
  <2> QED BY <2>2, <2>4, <2>5 DEF Stocked
<1>6. PuppetsOf(reg'[c], c, label'[c], drops'[c])
  BY <1>2, <1>3, <1>4, <1>5 DEF PuppetsOf, Puppeted
<1>7. drops' \in [Processes -> 0 .. MaxDrops]
  BY <1>2 DEF PuppetsInv
<1> QED BY <1>2, <1>6, <1>7, PuppetsKept

LEMMA PuppetsStart ==
    ASSUME PeersInit
    PROVE  PuppetsInv
<1>1. drops \in [Processes -> 0 .. MaxDrops] /\ \A p \in Processes : drops[p] \in Nat
  BY PeersAssumption DEF PeersInit
<1>2. \A p \in Processes : reg[p] = Fresh(p) /\ \A s \in PeerSlotIds : label[p][s] = NoPuppet
  BY DEF PeersInit
<1>3. \A p \in Processes : PuppetsOf(reg[p], p, label[p], drops[p])
  BY <1>1, <1>2, PuppetsStarted
<1> QED BY <1>1, <1>2, <1>3, SlotFacts DEF PuppetsInv

(* No process runs out of ids, and so every puppet has an element. *)
THEOREM PuppetsInvariance ==
    ASSUME EnoughIds
    PROVE  PeersSpec => []PuppetsInv
<1>1. PeersInit => PuppetsInv
  BY PuppetsStart
<1>2. PeersInv /\ PuppetsInv /\ [PeersNext]_peersVars => PuppetsInv'
  <2> SUFFICES ASSUME PeersInv, PuppetsInv, [PeersNext]_peersVars PROVE PuppetsInv'
    OBVIOUS
  <2>1. CASE HostStarts
    BY <2>1, HostStartsKeepsPuppets
  <2>2. CASE \E c \in ClientSlotIds : Arrive(c) \/ Leave(c) \/ SeesLeft(c) \/ DropProp(c)
    BY <2>2, ArriveKeepsPuppets, LeaveKeepsPuppets, SeesLeftKeepsPuppets, DropPropKeepsPuppets
  <2>3. CASE \E c \in ClientSlotIds : \E id \in reg[c].props : PropDies(c, id)
    BY <2>3, PropDiesKeepsPuppets
  <2>4. CASE \E p \in Processes : HandleReliable(p)
    BY <2>4, HandleReliableKeepsPuppets
  <2>5. CASE \E p \in Processes : \E s \in PeerSlotIds : SpawnPuppet(p, s)
    BY <2>5, SpawnPuppetKeepsPuppets
  <2>6. CASE UNCHANGED <<up, reg, label, drops>>
    BY <2>6, PuppetsUntouched
  <2>7. CASE \E c \in ClientSlotIds : Greet(c)
    BY <2>6, <2>7 DEF Greet
  <2>8. CASE \E p \in Processes : \E s \in PeerSlotIds : MaybeSendJoinToSlot(p, s)
    BY <2>6, <2>8 DEF MaybeSendJoinToSlot
  <2>9. CASE UNCHANGED peersVars
    BY <2>6, <2>9 DEF peersVars
  <2> QED BY <2>1, <2>2, <2>3, <2>4, <2>5, <2>7, <2>8, <2>9 DEF PeersNext
<1> QED BY <1>1, <1>2, PeersInvariance, PTL DEF PeersSpec

(* Once the session is quiet everybody has everybody's element, under the  *)
(* id that the player's own process uses, bound to its puppet, and a name  *)
(* above it. *)
THEOREM AlwaysAcquainted ==
    ASSUME EnoughIds
    PROVE  PeersSpec => []Acquainted
<1>1. PeersInv /\ PuppetsInv => Acquainted
  <2> SUFFICES ASSUME PeersInv, PuppetsInv, Quiet,
                      NEW p \in Present, NEW s \in Present \ {p}
               PROVE  /\ reg[p].el[s] = [eid |-> OwnEid(reg[s]), mirror |-> TRUE,
                                         puppet |-> label[p][s] # NoPuppet]
                      /\ nick[p][s] \notin {RemotePlayer, NoNick}
                      /\ label[p][s] \in {NoPuppet, nick[p][s]}
    BY DEF Acquainted
  <2> USE SlotFacts
  <2>1. up \subseteq Processes \ {HostSlot} /\ p \in Processes /\ s \in PeerSlotIds
    BY DEF Present, PeersInv, PeersTypes
  <2>2. \A x \in Present : \A t : ~ Introduced(inbox[x], t)
    BY DEF Quiet, Introduced, ToSet
  <2>3. \A c \in up : /\ Known(reg[c], nick[c], label[c], HostSlot)
                      /\ Known(reg[HostSlot], nick[HostSlot], label[HostSlot], c)
    BY <2>2 DEF Quiet, Present, PeersInv, IntroInv
  <2>4. Known(reg[p], nick[p], label[p], s)
    <3>1. CASE p = HostSlot \/ s = HostSlot
      BY <2>3, <3>1 DEF Present
    <3>2. CASE p \in up /\ s \in up
      BY <2>2, <2>3, <3>2 DEF Present, PeersInv, IntroInv
    <3> QED BY <3>1, <3>2 DEF Present
  <2>5. joinSent[s] # {}
    BY <2>1 DEF Quiet, Present
  <2>6. OwnEid(reg[s]) = OwnId(s)
    <3>1. RegistryOf(reg[s], s) /\ reg[s].me = s
      BY <2>1, <2>5 DEF PeersInv, RegistryInv, SessionInv
    <3> QED BY <2>1, <3>1, OwnEidOf
  <2>7. PICK r : r = reg[p]
    OBVIOUS
  <2>8. RegistryOf(r, p) /\ Puppeted(r, label[p]) /\ r.el[s].mirror
    BY <2>1, <2>4, <2>7, PuppetsAt DEF Known
  <2>9. /\ r.el[s] \in PlayerElements /\ r.el[s].eid = OwnId(s)
        /\ r.el[s].puppet <=> label[p][s] # NoPuppet
    BY <2>1, <2>8 DEF RegistryOf, Sound, Puppeted
  <2>10. r.el[s] = [eid |-> OwnId(s), mirror |-> TRUE, puppet |-> label[p][s] # NoPuppet]
    BY <2>8, <2>9 DEF PlayerElements
  <2> QED BY <2>4, <2>6, <2>7, <2>10 DEF Known
<1> QED BY <1>1, PeersInvariance, PuppetsInvariance, PTL
=============================================================================
