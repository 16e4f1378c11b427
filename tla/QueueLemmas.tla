----------------------------- MODULE QueueLemmas -----------------------------
(***************************************************************************)
(* Facts about the operators on queues that the models are built from, for *)
(* every set of elements: what is in a queue after something was appended, *)
(* taken off, erased or enumerated.                                        *)
(***************************************************************************)
EXTENDS Filter, SequencesExt, FiniteSetTheorems, SequenceTheorems, WellFoundedInduction, TLAPS

(* A set of naturals with a member has a least one.                        *)
LEMMA LeastOfNaturals ==
    ASSUME NEW S \in SUBSET Nat, S # {}
    PROVE  \E least \in S : \A n \in S : least =< n
<1> DEFINE Below == {ss \in Nat \X Nat : ss[1] < ss[2]}
<1>1. IsWellFoundedOn(Below, Nat)
  BY NatLessThanWellFounded DEF OpToRel
<1>2. PICK least \in S : \A n \in S : ~ (<<n, least>> \in Below)
  <2> HIDE DEF Below
  <2> QED BY <1>1, WFMin
<1>3. \A n \in S : ~ (n < least)
  <2>1. ASSUME NEW n \in Nat, NEW m \in Nat, n < m PROVE <<n, m>> \in Below
    BY <2>1
  <2> HIDE DEF Below
  <2>2. QED BY <1>2, <2>1
<1>4. QED BY <1>3

(* ... and a non-empty set of numbers with a bound a greatest one.         *)
LEMMA GreatestPlace ==
    ASSUME NEW k \in Nat, NEW S \in SUBSET (0 .. k), S # {}
    PROVE  \E top \in S : \A x \in S : x =< top
<1>1. PICK T : T = {k - x : x \in S}
  OBVIOUS
<1>2. T \in SUBSET Nat /\ T # {}
  <2>1. \A x \in S : k - x \in Nat
    OBVIOUS
  <2> QED BY <1>1, <2>1
<1>3. PICK least \in T : \A n \in T : least =< n
  BY <1>2, LeastOfNaturals
<1>4. PICK top \in S : least = k - top
  BY <1>1
<1>5. \A x \in S : x =< top
  <2> TAKE x \in S
  <2>1. k - x \in T
    BY <1>1
  <2> QED BY <1>3, <1>4, <2>1
<1> QED BY <1>5

-----------------------------------------------------------------------------
(* RankIn counts the members of S up to a bound: it grows by one exactly   *)
(* at the members of S.                                                    *)
LEMMA RankInSteps ==
    ASSUME NEW len \in Nat, NEW S \in SUBSET (1 .. len)
    PROVE  /\ IsFiniteSet(S)
           /\ \A m \in Nat : RankIn(S, m) \in 0 .. Cardinality(S)
           /\ RankIn(S, 0) = 0
           /\ RankIn(S, len) = Cardinality(S)
           /\ \A m \in Nat : RankIn(S, m + 1) =
                  IF m + 1 \in S THEN RankIn(S, m) + 1 ELSE RankIn(S, m)
<1> DEFINE UpTo(m) == {j \in S : j =< m}
<1>0. \A i \in S : i \in Nat /\ 1 =< i /\ i =< len
  OBVIOUS
<1>1. IsFiniteSet(S) /\ Cardinality(S) \in Nat
  <2>1. IsFiniteSet(1 .. len)
    BY FS_Interval
  <2>2. QED BY <2>1, FS_Subset, FS_CardinalityType
<1>2. ASSUME NEW m \in Nat
      PROVE  /\ IsFiniteSet(UpTo(m)) /\ Cardinality(UpTo(m)) \in 0 .. Cardinality(S)
  <2>1. UpTo(m) \in SUBSET S
    OBVIOUS
  <2>2. IsFiniteSet(UpTo(m)) /\ Cardinality(UpTo(m)) =< Cardinality(S)
    BY <1>1, <2>1, FS_Subset
  <2>3. Cardinality(UpTo(m)) \in Nat
    BY <2>2, FS_CardinalityType
  <2>4. QED BY <1>1, <2>2, <2>3
<1>a. \A m, j : j \in UpTo(m) <=> j \in S /\ j =< m
  OBVIOUS
<1>3. UpTo(0) = {}
  <2> HIDE DEF UpTo
  <2>1. \A j : j \notin UpTo(0)
    <3>1. \A j \in S : ~ (j =< 0)
      BY <1>0
    <3>2. QED BY <1>a, <3>1
  <2>2. QED BY <2>1
<1>4. UpTo(len) = S
  <2> HIDE DEF UpTo
  <2>1. QED BY <1>0, <1>a
<1>5. ASSUME NEW m \in Nat
      PROVE  Cardinality(UpTo(m + 1)) =
               IF m + 1 \in S THEN Cardinality(UpTo(m)) + 1 ELSE Cardinality(UpTo(m))
  <2>1. CASE m + 1 \in S
    <3>1. UpTo(m + 1) = UpTo(m) \cup {m + 1} /\ m + 1 \notin UpTo(m)
      <4>1. \A j \in S : j =< m + 1 <=> j =< m \/ j = m + 1
        BY <1>0
      <4>2. m + 1 \notin UpTo(m)
        BY <1>a
      <4> HIDE DEF UpTo
      <4>3. QED BY <1>a, <2>1, <4>1, <4>2
    <3>2. QED BY <1>2, <2>1, <3>1, FS_AddElement
  <2>2. CASE m + 1 \notin S
    <3>1. UpTo(m + 1) = UpTo(m)
      <4>1. \A j \in S : j =< m + 1 <=> j =< m
        BY <1>0, <2>2
      <4> HIDE DEF UpTo
      <4>2. \A j : j \in UpTo(m + 1) <=> j \in UpTo(m)
        BY <1>a, <4>1
      <4>3. QED BY <4>2
    <3>2. QED BY <2>2, <3>1
  <2>3. QED BY <2>1, <2>2
<1>6. \A m : RankIn(S, m) = Cardinality(UpTo(m))
  BY DEF RankIn
<1>7. Cardinality(UpTo(0)) = 0
  BY <1>3, FS_EmptySet
<1> HIDE DEF UpTo
<1>8. \A m \in Nat : RankIn(S, m + 1) = IF m + 1 \in S THEN RankIn(S, m) + 1 ELSE RankIn(S, m)
  BY <1>5, <1>6
<1>9. RankIn(S, 0) = 0 /\ RankIn(S, len) = Cardinality(S)
  BY <1>4, <1>6, <1>7
<1>10. \A m \in Nat : RankIn(S, m) \in 0 .. Cardinality(S)
  BY <1>2, <1>6
<1>11. QED
  BY <1>1, <1>8, <1>9, <1>10

(* Every place of the shortened queue comes from one place that was kept,  *)
(* and every place that was kept has one.                                  *)
LEMMA RankInIsOnto ==
    ASSUME NEW len \in Nat, NEW S \in SUBSET (1 .. len)
    PROVE  /\ \A n \in 1 .. Cardinality(S) : \E i \in S : RankIn(S, i) = n
           /\ \A i \in S : RankIn(S, i) \in 1 .. Cardinality(S)
           /\ \A i, j \in S : i < j => RankIn(S, i) < RankIn(S, j)
<1>0. Cardinality(S) \in Nat
  BY RankInSteps, FS_CardinalityType
<1>1. ASSUME NEW n \in 1 .. Cardinality(S) PROVE \E i \in S : RankIn(S, i) = n
  <2> DEFINE Enough == {m \in Nat : RankIn(S, m) >= n}
  <2>1. len \in Enough
    BY <1>0, RankInSteps
  <2>2. PICK least \in Enough : \A m \in Enough : least =< m
    <3>1. Enough \in SUBSET Nat
      OBVIOUS
    <3> HIDE DEF Enough
    <3>2. QED BY <2>1, <3>1, LeastOfNaturals
  <2>3. least # 0
    <3>1. least >= 0 /\ RankIn(S, least) >= n
      OBVIOUS
    <3>2. RankIn(S, 0) = 0
      BY RankInSteps
    <3>3. QED BY <1>0, <3>1, <3>2
  <2>4. least - 1 \in Nat /\ least - 1 \notin Enough
    BY <2>2, <2>3
  <2>5. RankIn(S, least - 1) \in Nat /\ RankIn(S, least) \in Nat
    <3>1. \A m \in Nat : RankIn(S, m) \in 0 .. Cardinality(S)
      BY RankInSteps
    <3>2. QED BY <1>0, <2>4, <3>1
  <2>6. RankIn(S, least) = IF least \in S THEN RankIn(S, least - 1) + 1
                                           ELSE RankIn(S, least - 1)
    <3>1. (least - 1) + 1 = least
      BY <2>4
    <3>2. QED BY <2>4, <3>1, RankInSteps
  <2>7. QED BY <1>0, <2>4, <2>5, <2>6
<1>2. ASSUME NEW i \in S, NEW m \in Nat, i =< m PROVE RankIn(S, m) >= 1
  <2>1. IsFiniteSet({j \in S : j =< m})
    <3>1. {j \in S : j =< m} \in SUBSET S
      OBVIOUS
    <3>2. QED BY <3>1, RankInSteps, FS_Subset
  <2>2. {j \in S : j =< m} # {}
    BY <1>2
  <2>3. Cardinality({j \in S : j =< m}) # 0 /\ Cardinality({j \in S : j =< m}) \in Nat
    BY <2>1, <2>2, FS_EmptySet, FS_CardinalityType
  <2>4. QED BY <2>3 DEF RankIn
<1>3. ASSUME NEW i \in S PROVE RankIn(S, i) \in 1 .. Cardinality(S)
  <2>1. RankIn(S, i) \in 0 .. Cardinality(S) /\ RankIn(S, i) >= 1
    BY <1>2, RankInSteps
  <2>2. QED BY <1>0, <2>1
<1>4. ASSUME NEW i \in S, NEW j \in S, i < j PROVE RankIn(S, i) < RankIn(S, j)
  <2> DEFINE A == {k \in S : k =< i}
             B == {k \in S : k =< j}
  <2>1. A \in SUBSET B /\ j \in B /\ j \notin A
    <3>1. \A k \in S : k \in Nat
      OBVIOUS
    <3>2. \A k \in S : k =< i => k =< j
      BY <1>4, <3>1
    <3>3. /\ \A k : k \in A <=> k \in S /\ k =< i
          /\ \A k : k \in B <=> k \in S /\ k =< j
      OBVIOUS
    <3>4. i \in Nat /\ j \in Nat /\ ~ (j =< i) /\ j =< j
      BY <1>4, <3>1
    <3> HIDE DEF A, B
    <3>5. \A k \in A : k \in B
      BY <3>2, <3>3
    <3>6. QED BY <3>3, <3>4, <3>5
  <2>2. IsFiniteSet(B)
    <3>1. B \in SUBSET S
      OBVIOUS
    <3>2. QED BY <3>1, RankInSteps, FS_Subset
  <2>3. /\ Cardinality(A) =< Cardinality(B)
        /\ Cardinality(A) # Cardinality(B)
        /\ Cardinality(A) \in Nat /\ Cardinality(B) \in Nat
    <3> HIDE DEF A, B
    <3>1. IsFiniteSet(A) /\ Cardinality(A) =< Cardinality(B) /\ (Cardinality(B) = Cardinality(A) => B = A)
      BY <2>1, <2>2, FS_Subset
    <3>2. QED BY <2>1, <2>2, <3>1, FS_CardinalityType
  <2>4. QED BY <2>3 DEF RankIn
<1>5. QED
  BY <1>1, <1>3, <1>4

(* What stays of a queue is a queue of the elements at the places that     *)
(* stay.                                                                   *)
LEMMA KeptElements ==
    ASSUME NEW T, NEW q \in Seq(T), NEW S \in SUBSET DOMAIN q
    PROVE  /\ Kept(q, S) \in Seq(T)
           /\ \A n \in DOMAIN Kept(q, S) : \E i \in S : Kept(q, S)[n] = q[i]
           /\ \A i \in S : \E n \in DOMAIN Kept(q, S) : Kept(q, S)[n] = q[i]
<1> DEFINE len == Len(q)
           at(n) == CHOOSE i \in S : RankIn(S, i) = n
<1>1. len \in Nat /\ DOMAIN q = 1 .. len
  BY LenProperties
<1>2. S \in SUBSET (1 .. len)
  BY <1>1
<1>3. Cardinality(S) \in Nat
  BY <1>1, <1>2, RankInSteps, FS_CardinalityType
<1>4. \A n \in 1 .. Cardinality(S) : at(n) \in S /\ RankIn(S, at(n)) = n
  <2> HIDE DEF len
  <2> QED BY <1>1, <1>2, RankInIsOnto
<1>5. \A n \in 1 .. Cardinality(S) : q[at(n)] \in T
  BY <1>2, <1>4, ElementOfSeq
<1>6. Kept(q, S) = [n \in 1 .. Cardinality(S) |-> q[at(n)]]
  BY DEF Kept
<1>7. Kept(q, S) \in Seq(T)
  <2>1. [n \in 1 .. Cardinality(S) |-> q[at(n)]] \in [1 .. Cardinality(S) -> T]
    BY <1>5
  <2> DEFINE k == Kept(q, S)
             N == Cardinality(S)
  <2>2. N \in Nat /\ k \in [1 .. N -> T]
    BY <1>3, <1>6, <2>1
  <2> HIDE DEF k, N
  <2>3. k \in Seq(T)
    BY <2>2, SeqDef
  <2>4. QED BY <2>3 DEF k
<1>8. DOMAIN Kept(q, S) = 1 .. Cardinality(S)
  BY <1>6
<1>9. \A n \in DOMAIN Kept(q, S) : \E i \in S : Kept(q, S)[n] = q[i]
  BY <1>4, <1>6, <1>8
<1>10. ASSUME NEW i \in S PROVE \E n \in DOMAIN Kept(q, S) : Kept(q, S)[n] = q[i]
  <2> DEFINE n == RankIn(S, i)
  <2>1. n \in 1 .. Cardinality(S)
    <3> HIDE DEF len
    <3> QED BY <1>1, <1>2, RankInIsOnto
  <2>2. at(n) \in S /\ RankIn(S, at(n)) = n
    BY <1>4, <2>1
  <2>3. at(n) = i
    <3> DEFINE a == at(n)
    <3>1. a \in S /\ RankIn(S, a) = RankIn(S, i)
      BY <2>2
    <3>2. a \in Nat /\ i \in Nat /\ ~ (a < i) /\ ~ (i < a)
      <4> HIDE DEF a, len
      <4>1. a < i => RankIn(S, a) < RankIn(S, i)
        BY <1>1, <1>2, <3>1, RankInIsOnto
      <4>2. i < a => RankIn(S, i) < RankIn(S, a)
        BY <1>1, <1>2, <3>1, RankInIsOnto
      <4>3. RankIn(S, i) \in Nat
        BY <1>3, <2>1
      <4>4. QED BY <1>2, <3>1, <4>1, <4>2, <4>3
    <3>3. QED BY <3>2
  <2>4. QED BY <1>6, <1>8, <2>1, <2>3
<1>11. QED
  BY <1>7, <1>9, <1>10

(* They stay in their order. *)
ArePlaces(at, k, q, S) ==
    /\ at \in [DOMAIN k -> S]
    /\ \A n \in DOMAIN k : k[n] = q[at[n]]
    /\ \A i \in S : \E n \in DOMAIN k : at[n] = i
    /\ \A m, n \in DOMAIN k : m < n => at[m] < at[n]

LEMMA KeptPlaces ==
    ASSUME NEW T, NEW q \in Seq(T), NEW S \in SUBSET DOMAIN q
    PROVE  \E at : ArePlaces(at, Kept(q, S), q, S)
<1>0. PICK k : k = Kept(q, S)
  OBVIOUS
<1>1. PICK len \in Nat : DOMAIN q = 1 .. len
  BY LenProperties
<1>2. S \in SUBSET (1 .. len) /\ Cardinality(S) \in Nat
  BY <1>1, RankInSteps, FS_CardinalityType
<1>3. /\ \A n \in 1 .. Cardinality(S) : \E i \in S : RankIn(S, i) = n
      /\ \A i \in S : RankIn(S, i) \in 1 .. Cardinality(S)
      /\ \A i, j \in S : i < j => RankIn(S, i) < RankIn(S, j)
  BY <1>2, RankInIsOnto
<1>4. PICK at : at = [n \in 1 .. Cardinality(S) |-> CHOOSE i \in S : RankIn(S, i) = n]
  OBVIOUS
<1>5. \A n \in 1 .. Cardinality(S) : at[n] \in S /\ RankIn(S, at[n]) = n
  BY <1>3, <1>4
<1>6. DOMAIN k = 1 .. Cardinality(S) /\ \A n \in DOMAIN k : k[n] = q[at[n]]
  BY <1>0, <1>4 DEF Kept
<1>7. ASSUME NEW m \in DOMAIN k, NEW n \in DOMAIN k, m < n PROVE at[m] < at[n]
  <2>1. PICK a \in 1 .. len, b \in 1 .. len : a = at[m] /\ b = at[n] /\ a \in S /\ b \in S
    BY <1>2, <1>5, <1>6
  <2>2. RankIn(S, a) = m /\ RankIn(S, b) = n /\ m \in Nat /\ n \in Nat
    BY <1>2, <1>5, <1>6, <2>1
  <2>3. a # b /\ ~ (b < a)
    BY <1>3, <1>7, <2>1, <2>2
  <2> QED BY <2>1, <2>3
<1>8. ASSUME NEW i \in S PROVE \E n \in DOMAIN k : at[n] = i
  <2>1. PICK n \in DOMAIN k : n = RankIn(S, i)
    BY <1>3, <1>6
  <2>2. PICK a \in 1 .. len, b \in 1 .. len : a = at[n] /\ b = i /\ a \in S
    BY <1>2, <1>5, <1>6
  <2>3. RankIn(S, a) = n /\ RankIn(S, b) = n /\ n \in Nat
    BY <1>2, <1>5, <1>6, <2>1, <2>2
  <2>4. ~ (a < b) /\ ~ (b < a)
    BY <1>3, <2>2, <2>3
  <2> QED BY <2>2, <2>4
<1>9. at \in [DOMAIN k -> S]
  BY <1>4, <1>5, <1>6
<1>10. ArePlaces(at, k, q, S)
  BY <1>6, <1>7, <1>8, <1>9 DEF ArePlaces
<1> QED BY <1>0, <1>10

-----------------------------------------------------------------------------
(* An enumeration of a finite set has each of its members.                 *)
LEMMA SetToSeqElements ==
    ASSUME NEW S, IsFiniteSet(S)
    PROVE  SetToSeq(S) \in Seq(S) /\ ToSet(SetToSeq(S)) = S /\ IsInjective(SetToSeq(S))
<1> DEFINE n == Cardinality(S)
<1>1. n \in Nat /\ ExistsBijection(1 .. n, S)
  BY FS_CardinalityType
<1>2. \E f \in [1 .. n -> S] : IsInjective(f)
  BY <1>1 DEF ExistsBijection, Bijection, Injection
<1> DEFINE f == SetToSeq(S)
<1>3. f \in [1 .. n -> S] /\ IsInjective(f)
  BY <1>2 DEF SetToSeq
<1>4. f \in Injection(1 .. n, S)
  BY <1>3 DEF Injection
<1>5. Cardinality(1 .. n) = n
  BY <1>1, FS_Interval
<1>6. f \in Surjection(1 .. n, S)
  <2> HIDE DEF f
  <2> QED BY <1>4, <1>5, FS_Injection
<1>7. \A e \in S : \E i \in 1 .. n : f[i] = e
  <2> HIDE DEF f
  <2> QED BY <1>6 DEF Surjection
<1>8. ToSet(f) = S
  <2> HIDE DEF f
  <2> QED BY <1>3, <1>7 DEF ToSet
<1>9. f \in Seq(S)
  <2> HIDE DEF f
  <2> QED BY <1>1, <1>3, SeqDef
<1>10. QED BY <1>3, <1>8, <1>9

(* The head of a queue and its tail are all there is to it.                *)
LEMMA TailElements ==
    ASSUME NEW T, NEW q \in Seq(T), q # <<>>
    PROVE  /\ Head(q) \in T /\ Tail(q) \in Seq(T)
           /\ Head(q) = q[1] /\ 1 \in DOMAIN q
           /\ \A i \in DOMAIN Tail(q) : i + 1 \in DOMAIN q /\ Tail(q)[i] = q[i + 1]
           /\ ToSet(q) = {Head(q)} \cup ToSet(Tail(q))
<1>1. Len(q) \in Nat \ {0} /\ DOMAIN q = 1 .. Len(q)
  BY EmptySeq, LenProperties
<1>2. /\ Head(q) \in T /\ Tail(q) \in Seq(T) /\ Head(q) = q[1]
      /\ Len(Tail(q)) = Len(q) - 1
  BY <1>1
<1>3. DOMAIN Tail(q) = 1 .. Len(q) - 1
  BY <1>2, LenProperties
<1>4. \A i \in 1 .. Len(q) - 1 : Tail(q)[i] = q[i + 1]
  BY <1>1
<1>5. \A i \in DOMAIN Tail(q) : i + 1 \in DOMAIN q /\ Tail(q)[i] = q[i + 1]
  BY <1>1, <1>3, <1>4
<1>6. ASSUME NEW i \in DOMAIN q, i # 1 PROVE i - 1 \in DOMAIN Tail(q) /\ Tail(q)[i - 1] = q[i]
  BY <1>1, <1>3, <1>4, <1>6
<1>7. ToSet(q) = {Head(q)} \cup ToSet(Tail(q))
  <2>1. ASSUME NEW e \in ToSet(q) PROVE e \in {Head(q)} \cup ToSet(Tail(q))
    <3>1. PICK i \in DOMAIN q : q[i] = e
      BY DEF ToSet
    <3>2. CASE i = 1
      BY <1>2, <3>1, <3>2
    <3>3. CASE i # 1
      BY <1>6, <3>1, <3>3 DEF ToSet
    <3>4. QED
      BY <3>2, <3>3
  <2>2. \A e \in ToSet(Tail(q)) : e \in ToSet(q)
    BY <1>5 DEF ToSet
  <2>3. Head(q) \in ToSet(q)
    BY <1>1, <1>2 DEF ToSet
  <2>4. QED BY <2>1, <2>2, <2>3
<1>8. QED BY <1>1, <1>2, <1>5, <1>7

(* Appending an element adds that element and no other.                    *)
LEMMA AppendElements ==
    ASSUME NEW T, NEW q \in Seq(T), NEW e \in T
    PROVE  /\ Append(q, e) \in Seq(T)
           /\ \A i \in DOMAIN Append(q, e) :
                 (i \in DOMAIN q /\ Append(q, e)[i] = q[i]) \/ Append(q, e)[i] = e
           /\ ToSet(Append(q, e)) = ToSet(q) \cup {e}
<1>1. /\ Append(q, e) \in Seq(T)
      /\ Len(Append(q, e)) = Len(q) + 1
      /\ \A i \in 1 .. Len(q) : Append(q, e)[i] = q[i]
      /\ Append(q, e)[Len(q) + 1] = e
  BY AppendProperties
<1>2. Len(q) \in Nat /\ DOMAIN q = 1 .. Len(q) /\ DOMAIN Append(q, e) = 1 .. Len(q) + 1
  BY <1>1, LenProperties
<1>3. \A i \in DOMAIN Append(q, e) :
          (i \in DOMAIN q /\ Append(q, e)[i] = q[i]) \/ (i = Len(q) + 1 /\ Append(q, e)[i] = e)
  BY <1>1, <1>2
<1>4. \A i \in DOMAIN q : i \in DOMAIN Append(q, e) /\ Append(q, e)[i] = q[i]
  BY <1>1, <1>2
<1>5. Len(q) + 1 \in DOMAIN Append(q, e)
  BY <1>2
<1>6. ToSet(Append(q, e)) = ToSet(q) \cup {e}
  BY <1>1, <1>3, <1>4, <1>5 DEF ToSet
<1>7. QED BY <1>1, <1>3, <1>6

(* A queue is what comes up to a place and what comes after it.            *)
LEMMA SplitElements ==
    ASSUME NEW T, NEW q \in Seq(T), NEW n \in 0 .. Len(q)
    PROVE  /\ SubSeq(q, 1, n) \in Seq(T) /\ SubSeq(q, n + 1, Len(q)) \in Seq(T)
           /\ ToSet(q) = ToSet(SubSeq(q, 1, n)) \cup ToSet(SubSeq(q, n + 1, Len(q)))
<1> DEFINE front == SubSeq(q, 1, n)
           back == SubSeq(q, n + 1, Len(q))
<1>1. Len(q) \in Nat /\ DOMAIN q = 1 .. Len(q) /\ n \in Nat /\ n =< Len(q)
  BY LenProperties
<1>2. \A i \in 1 .. Len(q) : q[i] \in T
  BY ElementOfSeq
<1>3. /\ front \in Seq(T) /\ Len(front) = n
      /\ \A i \in 1 .. n : front[i] = q[i]
  BY <1>1, <1>2, SubSeqProperties
<1>4. /\ back \in Seq(T) /\ Len(back) = Len(q) - n
      /\ \A i \in 1 .. Len(q) - n : back[i] = q[n + i]
  <2>1. /\ back \in Seq(T)
        /\ Len(back) = IF n + 1 =< Len(q) THEN Len(q) - (n + 1) + 1 ELSE 0
        /\ \A i \in 1 .. Len(q) - (n + 1) + 1 : back[i] = q[n + 1 + i - 1]
    BY <1>1, <1>2, SubSeqProperties
  <2> HIDE DEF back
  <2>2. Len(back) = Len(q) - n
    BY <1>1, <2>1
  <2>3. ASSUME NEW i \in 1 .. Len(q) - n PROVE back[i] = q[n + i]
    <3>1. i \in 1 .. Len(q) - (n + 1) + 1 /\ n + 1 + i - 1 = n + i
      BY <1>1
    <3>2. QED BY <2>1, <3>1
  <2>4. QED BY <2>1, <2>2, <2>3
<1>5. DOMAIN front = 1 .. n /\ DOMAIN back = 1 .. Len(q) - n
  BY <1>3, <1>4, LenProperties
<1> HIDE DEF front, back
<1>6. \A e \in ToSet(front) : e \in ToSet(q)
  BY <1>1, <1>3, <1>5 DEF ToSet
<1>7. ASSUME NEW e \in ToSet(back) PROVE e \in ToSet(q)
  <2>1. PICK i \in 1 .. Len(q) - n : back[i] = e
    BY <1>5 DEF ToSet
  <2>2. n + i \in 1 .. Len(q)
    BY <1>1
  <2>3. QED
    BY <1>1, <1>4, <2>1, <2>2 DEF ToSet
<1>8. ASSUME NEW e \in ToSet(q) PROVE e \in ToSet(front) \cup ToSet(back)
  <2>1. PICK i \in 1 .. Len(q) : q[i] = e
    BY <1>1 DEF ToSet
  <2>2. CASE i =< n
    BY <1>1, <1>3, <1>5, <2>1, <2>2 DEF ToSet
  <2>3. CASE i > n
    <3>1. i - n \in 1 .. Len(q) - n /\ n + (i - n) = i
      BY <1>1, <2>3
    <3>2. QED BY <1>4, <1>5, <2>1, <3>1 DEF ToSet
  <2>4. QED BY <1>1, <2>2, <2>3
<1>9. QED BY <1>3, <1>4, <1>6, <1>7, <1>8 DEF front, back

(* Appending is concatenating one message.                                 *)
LEMMA AppendAsConcat ==
    ASSUME NEW T, NEW q \in Seq(T), NEW e \in T
    PROVE  q \o <<e>> = Append(q, e)
<1>1. <<e>> \in Seq(T) /\ Len(<<e>>) = 1 /\ <<e>>[1] = e
  OBVIOUS
<1>2. Len(q) \in Nat
  BY LenProperties
<1>3. /\ q \o <<e>> \in Seq(T)
      /\ Len(q \o <<e>>) = Len(q) + 1
      /\ \A i \in 1 .. Len(q) + 1 :
            (q \o <<e>>)[i] = IF i <= Len(q) THEN q[i] ELSE <<e>>[i - Len(q)]
  BY <1>1, ConcatProperties
<1>4. /\ Append(q, e) \in Seq(T)
      /\ Len(Append(q, e)) = Len(q) + 1
      /\ \A i \in 1 .. Len(q) : Append(q, e)[i] = q[i]
      /\ Append(q, e)[Len(q) + 1] = e
  BY AppendProperties
<1>5. \A i \in 1 .. Len(q) + 1 : (q \o <<e>>)[i] = Append(q, e)[i]
  <2> TAKE i \in 1 .. Len(q) + 1
  <2>1. CASE i <= Len(q)
    BY <1>2, <1>3, <1>4, <2>1
  <2>2. CASE i = Len(q) + 1
    BY <1>1, <1>2, <1>3, <1>4, <2>2
  <2>3. QED
    BY <1>2, <2>1, <2>2
<1>6. QED
  BY <1>3, <1>4, <1>5, SeqEqual

(* A queue behind another has the elements of both. *)
LEMMA ConcatElements ==
    ASSUME NEW T, NEW a \in Seq(T), NEW b \in Seq(T)
    PROVE  a \o b \in Seq(T) /\ ToSet(a \o b) = ToSet(a) \cup ToSet(b)
<1>1. PICK c : c = a \o b
  OBVIOUS
<1>2. PICK k \in Nat, n \in Nat : k = Len(a) /\ n = Len(b)
  BY LenProperties
<1>3. /\ c \in Seq(T) /\ Len(c) = k + n
      /\ \A i \in 1 .. k + n : c[i] = IF i <= k THEN a[i] ELSE b[i - k]
  BY <1>1, <1>2, ConcatProperties
<1>4. DOMAIN a = 1 .. k /\ DOMAIN b = 1 .. n /\ DOMAIN c = 1 .. k + n
  BY <1>2, <1>3, LenProperties
<1>5. \A e \in ToSet(c) : e \in ToSet(a) \cup ToSet(b)
  <2> TAKE e \in ToSet(c)
  <2>3. PICK i \in 1 .. k + n : c[i] = e
    BY <1>4 DEF ToSet
  <2>1. CASE i <= k
    <3>1. i \in 1 .. k /\ e = a[i]
      BY <1>3, <2>1, <2>3
    <3> QED BY <1>4, <3>1 DEF ToSet
  <2>2. CASE ~ (i <= k)
    <3>1. i - k \in 1 .. n /\ e = b[i - k]
      BY <1>3, <2>2, <2>3
    <3> QED BY <1>4, <3>1 DEF ToSet
  <2> QED BY <2>1, <2>2
<1>6. \A e \in ToSet(a) : e \in ToSet(c)
  <2> SUFFICES ASSUME NEW i \in 1 .. k PROVE a[i] \in ToSet(c)
    BY <1>4 DEF ToSet
  <2>1. i \in 1 .. k + n /\ c[i] = a[i]
    BY <1>3
  <2> QED BY <1>4, <2>1 DEF ToSet
<1>7. \A e \in ToSet(b) : e \in ToSet(c)
  <2> SUFFICES ASSUME NEW i \in 1 .. n PROVE b[i] \in ToSet(c)
    BY <1>4 DEF ToSet
  <2>1. i + k \in 1 .. k + n /\ ~ (i + k <= k) /\ i + k - k = i
    OBVIOUS
  <2>2. c[i + k] = b[i]
    BY <1>3, <2>1
  <2> QED BY <1>4, <2>1, <2>2 DEF ToSet
<1> QED BY <1>1, <1>3, <1>5, <1>6, <1>7
(* A queue is its first element and the rest. *)
LEMMA HeadAndTail ==
    ASSUME NEW T, NEW q \in Seq(T), q # <<>>
    PROVE  Head(q) \in T /\ Tail(q) \in Seq(T) /\ q = <<Head(q)>> \o Tail(q)
<1>1. PICK m, t : m = Head(q) /\ t = Tail(q)
  OBVIOUS
<1>2. PICK len \in Nat \ {0} : Len(q) = len /\ DOMAIN q = 1 .. len
  BY LenProperties, EmptySeq
<1>3. /\ m \in T /\ t \in Seq(T) /\ Len(t) = len - 1 /\ m = q[1]
      /\ \A i \in 1 .. Len(t) : t[i] = q[i + 1]
  BY <1>1, <1>2, HeadTailProperties
<1>4. <<m>> \in Seq(T) /\ Len(<<m>>) = 1 /\ <<m>>[1] = m
  BY <1>3
<1>5. PICK c : c = <<m>> \o t
  OBVIOUS
<1>6. /\ c \in Seq(T) /\ Len(c) = len
      /\ \A i \in 1 .. len : c[i] = IF i <= 1 THEN <<m>>[i] ELSE t[i - 1]
  BY <1>2, <1>3, <1>4, <1>5, ConcatProperties
<1>7. \A i \in 1 .. len : c[i] = q[i]
  <2> TAKE i \in 1 .. len
  <2>1. CASE i = 1
    BY <1>3, <1>4, <1>6, <2>1
  <2>2. CASE i # 1
    <3>1. i - 1 \in 1 .. Len(t) /\ ~ (i <= 1) /\ i - 1 + 1 = i
      BY <1>3, <2>2
    <3> QED BY <1>3, <1>6, <3>1
  <2> QED BY <2>1, <2>2
<1> QED BY <1>1, <1>2, <1>3, <1>5, <1>6, <1>7, SeqEqual
=============================================================================
