---------------------------- MODULE EngineProofs ----------------------------
(***************************************************************************)
(* Proofs about how a process lives with the engine: its observer table,   *)
(* its dispatcher and its prop tracker.                                    *)
(*                                                                         *)
(* ObserverTable, for any number of slots, threads, functions and          *)
(* observers.  TableInv says what the game thread has made of the table at *)
(* each point of an operation; WalkInv what a walk still has to see, given *)
(* what it was overlapped by.                                              *)
(*                                                                         *)
(* Dispatcher, for any number of workers, of tasks and of calls nested in  *)
(* each other, where the engine's game thread makes the first call.        *)
(*                                                                         *)
(* PropTracker, for any number of props, addresses and ids, where no       *)
(* thread is held up in the observer of a destruction for whole ticks.     *)
(* TrackerInv adds to MapOwned where an id can be on its way: struck off   *)
(* by an observer, or allocated and not yet entered.                       *)
(***************************************************************************)
EXTENDS ObserverTable, Dispatcher, PropTracker, QueueLemmas

-----------------------------------------------------------------------------
(* The observer table. *)

Registering == {"setCb", "setTarget", "count"}
Clearing == {"clearTarget", "clearCb", "uncount"}
Wiping == {"wipeTarget", "wipeCb", "wipeCount"}

(* Where an operation is. *)
OpAt ==
    /\ op.at \in Registering \cup Clearing => op.pair \in Observers
    /\ op.at \in Registering => op.pair \notin registered
    /\ op.at \in {"setCb", "setTarget"} =>
          targetFn[op.slot] = None /\ \A i \in Slots : ~ Holds(i, op.pair)
    /\ op.at = "setTarget" => cb[op.slot] = op.pair[2]
    /\ op.at \in {"count", "clearTarget"} => Holds(op.slot, op.pair)
    /\ op.at = "clearTarget" => op.pair \notin registered
    /\ op.at = "clearCb" => targetFn[op.slot] = None
    /\ op.at = "wipeTarget" => \A i \in Slots : i < op.slot => targetFn[i] = None
    /\ op.at = "wipeCb" => \A i \in Slots : i =< op.slot => targetFn[i] = None
    /\ op.at = "wipeCount" => \A i \in Slots : targetFn[i] = None

(* What the table holds: what is registered, and the pair that comes or    *)
(* goes; each once. *)
Contents ==
    /\ \A p \in registered : \E i \in Slots : Holds(i, p)
    /\ \A i \in Live :
          \/ <<targetFn[i], cb[i]>> \in registered
          \/ op.at \in {"count", "clearTarget"} /\ op.pair = <<targetFn[i], cb[i]>>
    /\ \A i, j \in Live : i # j => <<targetFn[i], cb[i]>> # <<targetFn[j], cb[j]>>

(* The count, and how far it trails the table inside an operation. *)
Counted ==
    /\ op.at \in {"none", "setCb", "setTarget", "clearTarget"} =>
          active = Cardinality(Live)
    /\ op.at = "count" => active + 1 = Cardinality(Live)
    /\ op.at \in {"clearCb", "uncount"} => active = Cardinality(Live) + 1
    /\ op.at \in Wiping => active >= Cardinality(Live)

TableInv == OpAt /\ Contents /\ Counted

(* The live slots a walk at slot i has not come to. *)
Ahead(i) == {j \in Live : j >= i}

Walks(t) == walk[t].at # "none"

(* A walk knows what it is overlapped by. *)
KnowsOverlap(t) ==
    /\ op.at \in Registering => "register" \in walk[t].overlapped
    /\ op.at \in Clearing \cup Wiping => "unregister" \in walk[t].overlapped

(* What the walk may still come to call. *)
Reachable(t) ==
    /\ \A i \in Live : targetFn[i] = walk[t].fn => <<walk[t].fn, cb[i]>> \in walk[t].possible
    /\ op.at \in Registering /\ op.pair[1] = walk[t].fn => op.pair \in walk[t].possible

(* The slot it has found its function in. *)
AtCb(t) ==
    walk[t].at = "cb" =>
        /\ walk[t].i - 1 \in Slots
        /\ targetFn[walk[t].i - 1] = walk[t].fn \/ "unregister" \in walk[t].overlapped
        /\ walk[t].overlapped # {"register", "unregister"} =>
              \/ cb[walk[t].i - 1] = None
              \/ <<walk[t].fn, cb[walk[t].i - 1]>> \in walk[t].possible

(* Without a registration the bound is enough for what is ahead, and what  *)
(* is due is called, about to be called, or ahead. *)
Enough(t) ==
    "register" \notin walk[t].overlapped =>
        walk[t].found + Cardinality(Ahead(walk[t].i)) =< walk[t].bound
DueAhead(t) ==
    "register" \notin walk[t].overlapped =>
        \A p \in walk[t].due :
            \/ p \in walk[t].fired
            \/ walk[t].at = "cb" /\ Holds(walk[t].i - 1, p)
            \/ \E j \in Slots : j >= walk[t].i /\ Holds(j, p)

WalkInv ==
    \A t \in Threads : Walks(t) =>
        /\ walk[t].fn \in Functions
        /\ walk[t].due \subseteq registered
        /\ \A p \in walk[t].due : p[1] = walk[t].fn
        /\ KnowsOverlap(t) /\ Reachable(t) /\ AtCb(t)
        /\ Enough(t) /\ DueAhead(t)

IInv == TypeOK /\ TableInv /\ WalkInv /\ FiresOnlyRegistered

-----------------------------------------------------------------------------
(* Sets of slots are finite, and no larger than the table.                 *)
LEMMA SlotSets ==
    ASSUME NEW S \in SUBSET Slots
    PROVE  IsFiniteSet(S) /\ Cardinality(S) \in 0 .. MaxObservers
<1>1. IsFiniteSet(Slots) /\ Cardinality(Slots) = MaxObservers
  BY ObserverTableAssumption, FS_Interval DEF Slots
<1>2. IsFiniteSet(S) /\ Cardinality(S) =< Cardinality(Slots)
  BY <1>1, FS_Subset
<1>3. QED
  BY <1>1, <1>2, FS_CardinalityType, ObserverTableAssumption

(* What an operation that starts does to the walks.                        *)
Overlapped(t, kind, coming, going) ==
    /\ walk'[t].at = walk[t].at /\ walk'[t].fn = walk[t].fn
    /\ walk'[t].bound = walk[t].bound /\ walk'[t].i = walk[t].i
    /\ walk'[t].found = walk[t].found /\ walk'[t].fired = walk[t].fired
    /\ ~ Walks(t) => walk'[t] = walk[t]
    /\ Walks(t) =>
          /\ walk'[t].overlapped = walk[t].overlapped \cup {kind}
          /\ \A p : p \in walk'[t].possible <=>
                p \in walk[t].possible \/ (p \in coming /\ p[1] = walk[t].fn)
          /\ walk'[t].due = walk[t].due \ going

LEMMA OverlapFields ==
    ASSUME TypeOK, NEW kind \in {"register", "unregister"},
           NEW coming \in SUBSET Observers, NEW going,
           Overlap(kind, coming, going)
    PROVE  /\ walk' \in [Threads -> WalkRecords]
           /\ \A t \in Threads : Overlapped(t, kind, coming, going)
<1> DEFINE W(t) == IF walk[t].at = "none" THEN walk[t]
                   ELSE [walk[t] EXCEPT
                           !.overlapped = @ \cup {kind},
                           !.possible = @ \cup {p \in coming : p[1] = walk[t].fn},
                           !.due = @ \ going]
<1>1. walk' = [t \in Threads |-> W(t)]
  BY DEF Overlap
<1>2. ASSUME NEW t \in Threads
      PROVE  W(t) \in WalkRecords /\ Overlapped(t, kind, coming, going)
  <2>1. walk[t] \in WalkRecords
    BY DEF TypeOK
  <2>2. walk'[t] = W(t)
    BY <1>1
  <2>3. W(t) \in WalkRecords
    BY <2>1 DEF WalkRecords
  <2>4. CASE walk[t].at = "none"
    BY <2>2, <2>3, <2>4 DEF Walks, Overlapped
  <2>5. CASE walk[t].at # "none"
    <3> DEFINE more == {p \in coming : p[1] = walk[t].fn}
    <3>1. W(t) = [walk[t] EXCEPT !.overlapped = @ \cup {kind}, !.possible = @ \cup more,
                                 !.due = @ \ going]
      BY <2>5
    <3>2. \A p : p \in more <=> p \in coming /\ p[1] = walk[t].fn
      OBVIOUS
    <3> HIDE DEF more, W
    <3>3. Overlapped(t, kind, coming, going)
      BY <2>1, <2>2, <2>5, <3>1, <3>2 DEF WalkRecords, Walks, Overlapped
    <3>4. QED
      BY <2>3, <3>3
  <2>6. QED
    BY <2>4, <2>5
<1>3. QED
  <2> HIDE DEF W
  <2>1. QED
    BY <1>1, <1>2

(* What a step of one thread's walk does to the walks.                     *)
LEMMA StepFields ==
    ASSUME TypeOK, NEW t \in Threads, NEW w \in WalkRecords, Step(t, w)
    PROVE  /\ walk' \in [Threads -> WalkRecords]
           /\ walk'[t] = w
           /\ \A u \in Threads \ {t} : walk'[u] = walk[u]
BY DEF Step, TypeOK

-----------------------------------------------------------------------------
(* Types.                                                                  *)

(* The operations keep the types. *)
LEMMA TypeOfOperations ==
    ASSUME TypeOK, TableInv,
           \/ \E p \in Observers : Register(p) \/ Unregister(p)
           \/ SetCb \/ SetTarget \/ Count
           \/ ClearTarget \/ ClearCb \/ Uncount
           \/ ClearAll \/ WipeTarget \/ WipeCb \/ WipeCount
    PROVE  TypeOK'
<1> USE ObserverTableAssumption
<1>1. ASSUME NEW p \in Observers, Register(p) PROVE TypeOK'
  <2>1. walk' \in [Threads -> WalkRecords]
    BY <1>1, OverlapFields DEF Register
  <2>2. QED
    BY <1>1, <2>1 DEF Register, MayOperate, Start, FreeSlot, TypeOK, tableVars
<1>2. ASSUME NEW p \in Observers, Unregister(p) PROVE TypeOK'
  <2>1. walk' \in [Threads -> WalkRecords]
    BY <1>2, OverlapFields DEF Unregister
  <2>2. QED
    BY <1>2, <2>1 DEF Unregister, MayOperate, Start, TypeOK, tableVars
<1>3. CASE SetCb
  BY <1>3 DEF SetCb, TypeOK, TableInv, OpAt, Registering
<1>4. CASE SetTarget
  BY <1>4 DEF SetTarget, TypeOK, TableInv, OpAt, Registering
<1>5. CASE Count
  <2>1. active + 1 \in 0 .. MaxObservers
    BY <1>5, SlotSets DEF Count, TableInv, Counted, TypeOK, Live
  <2>2. QED
    BY <1>5, <2>1 DEF Count, NoOp, TypeOK, TableInv, OpAt, Registering, Slots
<1>6. CASE ClearTarget
  BY <1>6 DEF ClearTarget, TypeOK
<1>7. CASE ClearCb
  BY <1>7 DEF ClearCb, TypeOK
<1>8. CASE Uncount
  <2>1. active - 1 \in 0 .. MaxObservers
    BY <1>8, SlotSets DEF Uncount, TableInv, Counted, TypeOK, Live
  <2>2. QED
    BY <1>8, <2>1 DEF Uncount, NoOp, TypeOK, Slots
<1>9. CASE ClearAll
  <2>1. walk' \in [Threads -> WalkRecords]
    BY <1>9, OverlapFields DEF ClearAll
  <2>2. QED
    <3>1. ops' \in 0 .. MaxOps
      BY <1>9 DEF ClearAll, MayOperate, TypeOK
    <3>2. 0 \in Slots
      BY DEF Slots
    <3>3. QED
      BY <1>9, <2>1, <3>1, <3>2 DEF ClearAll, NoOp, TypeOK, tableVars
<1>10. CASE WipeTarget
  <2>1. walk' \in [Threads -> WalkRecords]
    BY <1>10, OverlapFields DEF WipeTarget
  <2>2. QED
    BY <1>10, <2>1 DEF WipeTarget, TypeOK
<1>11. CASE WipeCb
  <2>1. op.slot + 1 < MaxObservers => op.slot + 1 \in Slots
    BY DEF TypeOK, Slots
  <2>2. QED
    BY <1>11, <2>1 DEF WipeCb, TypeOK
<1>12. CASE WipeCount
  BY <1>12 DEF WipeCount, NoOp, TypeOK, Slots
<1>13. QED
  BY <1>1, <1>2, <1>3, <1>4, <1>5, <1>6, <1>7, <1>8, <1>9, <1>10, <1>11, <1>12

(* One slot further. *)
LEMMA LoadTargetFields ==
    ASSUME TypeOK, NEW t \in Threads, LoadTarget(t)
    PROVE  LET w == walk[t] IN
           /\ w.at = "target" /\ w.i \in Slots /\ w.found < w.bound
           /\ \/ targetFn[w.i] = None /\ Passed(w) \in WalkRecords /\ Step(t, Passed(w))
              \/ /\ targetFn[w.i] \notin {None, w.fn}
                 /\ Seen(w) \in WalkRecords /\ Step(t, Seen(w))
              \/ /\ targetFn[w.i] = w.fn
                 /\ Matched(w) \in WalkRecords /\ Step(t, Matched(w))
<1> DEFINE w == walk[t]
<1>1. w \in WalkRecords
  BY DEF TypeOK
<1>2. w.at = "target" /\ w.i < MaxObservers /\ w.found < w.bound
  BY DEF LoadTarget, Walking, MoreToSee
<1>3. w.i \in Slots /\ w.i + 1 \in 0 .. MaxObservers /\ w.found + 1 \in 0 .. MaxObservers
  BY <1>1, <1>2, ObserverTableAssumption DEF WalkRecords, Slots
<1>4. Passed(w) \in WalkRecords /\ Passed(w).found = w.found
  <2> HIDE DEF w
  <2>1. QED
    BY <1>1, <1>3 DEF WalkRecords, Passed
<1>5. Seen(w) \in WalkRecords
  <2>1. \A v \in WalkRecords : v.found + 1 \in 0 .. MaxObservers =>
                                   [v EXCEPT !.found = @ + 1] \in WalkRecords
    BY DEF WalkRecords
  <2> HIDE DEF w
  <2>2. QED
    BY <1>3, <1>4, <2>1 DEF Seen
<1>6. Matched(w) \in WalkRecords
  <2>1. \A v \in WalkRecords : [v EXCEPT !.at = "cb"] \in WalkRecords
    BY DEF WalkRecords
  <2> HIDE DEF w
  <2>2. QED
    BY <1>5, <2>1 DEF Matched
<1>7. QED
  BY <1>2, <1>3, <1>4, <1>5, <1>6 DEF LoadTarget

(* The fields of a walk that begins. *)
LEMMA BeginFields ==
    ASSUME TypeOK, NEW t \in Threads, NEW fn \in Functions, Begin(t, fn)
    PROVE  Begun(fn) \in WalkRecords /\ Step(t, Begun(fn))
<1>1. {p \in registered \cup {op.pair} : p[1] = fn} \subseteq Observers
  BY ObserverTableAssumption DEF TypeOK
<1>2. {p \in registered : p[1] = fn} \subseteq Observers
  BY DEF TypeOK
<1>3. UnderWay \subseteq {"register", "unregister"}
  BY DEF UnderWay
<1>4. active \in 0 .. MaxObservers /\ 0 \in 0 .. MaxObservers
  BY ObserverTableAssumption DEF TypeOK
<1>5. Begun(fn) \in WalkRecords
  BY <1>1, <1>2, <1>3, <1>4 DEF Begun, WalkRecords
<1>6. QED
  BY <1>5 DEF Begin

(* A callback is called, or skipped. *)
LEMMA LoadCbFields ==
    ASSUME TypeOK, WalkInv, NEW t \in Threads, LoadCb(t)
    PROVE  LET w == walk[t]
               c == cb[w.i - 1] IN
           /\ w.at = "cb" /\ w.i - 1 \in Slots
           /\ \/ c = None /\ Skipped(w) \in WalkRecords /\ Step(t, Skipped(w))
              \/ c # None /\ Called(w, c) \in WalkRecords /\ Step(t, Called(w, c))
<1> DEFINE w == walk[t]
           c == cb[w.i - 1]
<1>1. w \in WalkRecords /\ w.at = "cb"
  BY DEF TypeOK, LoadCb, Walking
<1>2. w.i - 1 \in Slots /\ w.fn \in Functions
  BY <1>1 DEF WalkInv, Walks, AtCb
<1>3. c \in Callbacks \cup {None}
  BY <1>2 DEF TypeOK
<1>4. Skipped(w) \in WalkRecords
  <2> HIDE DEF w
  <2>1. QED
    BY <1>1 DEF WalkRecords, Skipped
<1>5. c # None => Called(w, c) \in WalkRecords
  <2> HIDE DEF w, c
  <2>1. c # None => w.fired \cup {<<w.fn, c>>} \in SUBSET (Functions \X Callbacks)
    BY <1>1, <1>2, <1>3 DEF WalkRecords
  <2>2. QED
    BY <1>1, <2>1 DEF WalkRecords, Called
<1>6. QED
  BY <1>1, <1>2, <1>4, <1>5 DEF LoadCb

(* The walks keep the types. *)
LEMMA TypeOfWalks ==
    ASSUME TypeOK, WalkInv, NEW t \in Threads,
           \/ \E fn \in Functions : Begin(t, fn)
           \/ LoadTarget(t) \/ LoadCb(t) \/ Return(t) \/ End(t)
    PROVE  TypeOK'
<1> SUFFICES walk' \in [Threads -> WalkRecords]
             /\ UNCHANGED <<targetFn, cb, active, registered, op, ops>>
  BY DEF TypeOK
<1>1. ASSUME NEW w \in WalkRecords, Step(t, w)
      PROVE  walk' \in [Threads -> WalkRecords]
             /\ UNCHANGED <<targetFn, cb, active, registered, op, ops>>
  BY <1>1, StepFields DEF Step
<1>2. ASSUME NEW fn \in Functions, Begin(t, fn)
      PROVE  \E w \in WalkRecords : Step(t, w)
  BY <1>2, BeginFields
<1>3. CASE LoadTarget(t)
  BY <1>1, <1>3, LoadTargetFields
<1>4. CASE LoadCb(t)
  BY <1>1, <1>4, LoadCbFields
<1>5. CASE Return(t)
  <2>1. Skipped(walk[t]) \in WalkRecords
    BY DEF TypeOK, WalkRecords, Skipped
  <2>2. QED
    BY <1>1, <1>5, <2>1 DEF Return, Skipped
<1>6. CASE End(t)
  <2>1. NoWalk \in WalkRecords
    BY ObserverTableAssumption DEF NoWalk, WalkRecords
  <2>2. QED
    BY <1>1, <1>6, <2>1 DEF End
<1>7. QED
  BY <1>1, <1>2, <1>3, <1>4, <1>5, <1>6

-----------------------------------------------------------------------------
(* The table.                                                              *)

(* Filling or clearing a slot changes the number of live slots by one.     *)
LEMMA LiveCount ==
    ASSUME TypeOK, NEW s \in Slots, NEW fn \in Functions \cup {None},
           targetFn' = [targetFn EXCEPT ![s] = fn]
    PROVE  /\ Live' = IF fn = None THEN Live \ {s} ELSE Live \cup {s}
           /\ targetFn[s] = None /\ fn # None =>
                 Cardinality(Live') = Cardinality(Live) + 1
           /\ targetFn[s] # None /\ fn = None =>
                 Cardinality(Live') = Cardinality(Live) - 1
           /\ fn = None => Cardinality(Live') =< Cardinality(Live)
<1>1. Live' = IF fn = None THEN Live \ {s} ELSE Live \cup {s}
  BY DEF Live, TypeOK
<1>2. IsFiniteSet(Live) /\ Cardinality(Live) \in Nat
  BY SlotSets, ObserverTableAssumption DEF Live
<1>3. s \in Live <=> targetFn[s] # None
  BY DEF Live
<1>4. CASE fn = None
  <2>1. Cardinality(Live \ {s}) =
            IF s \in Live THEN Cardinality(Live) - 1 ELSE Cardinality(Live)
    BY <1>2, FS_RemoveElement
  <2>2. QED
    BY <1>1, <1>2, <1>3, <1>4, <2>1
<1>5. CASE fn # None
  <2>1. Cardinality(Live \cup {s}) =
            IF s \in Live THEN Cardinality(Live) ELSE Cardinality(Live) + 1
    BY <1>2, FS_AddElement
  <2>2. QED
    BY <1>1, <1>3, <1>5, <2>1
<1>6. QED
  BY <1>4, <1>5

(* Nothing but targetFn decides which slots are live. *)
LEMMA LiveKept == targetFn' = targetFn => Live' = Live
BY DEF Live

(* Every operation keeps the table's part of the invariant.                *)
LEMMA TableInvStep ==
    ASSUME TypeOK, TypeOK', TableInv,
           \/ \E p \in Observers : Register(p) \/ Unregister(p)
           \/ SetCb \/ SetTarget \/ Count
           \/ ClearTarget \/ ClearCb \/ Uncount
           \/ ClearAll \/ WipeTarget \/ WipeCb \/ WipeCount
    PROVE  TableInv'
<1> USE ObserverTableAssumption
<1> USE DEF TableInv, Registering, Clearing, Wiping
<1>1. ASSUME NEW p \in Observers, Register(p) PROVE TableInv'
  <2>1. UNCHANGED <<targetFn, cb, active, registered>> /\ op.at = "none"
    BY <1>1 DEF Register, MayOperate, tableVars
  <2>2. PICK i \in Slots : FreeSlot(i) /\ op' = [at |-> "setCb", pair |-> p, slot |-> i]
    BY <1>1 DEF Register, Start
  <2>3. p \notin registered
    BY <1>1 DEF Register, Contents
  <2>4. OpAt'
    BY <1>1, <2>1, <2>2, <2>3 DEF OpAt, Register, FreeSlot, Live, Holds
  <2>5. Contents' /\ Counted'
    BY <2>1, <2>2, LiveKept DEF Contents, Counted, Holds
  <2>6. QED
    BY <2>4, <2>5
<1>2. ASSUME NEW p \in Observers, Unregister(p) PROVE TableInv'
  <2>1. UNCHANGED <<targetFn, cb, active>> /\ op.at = "none" /\ registered' = registered \ {p}
    BY <1>2 DEF Unregister, MayOperate, tableVars
  <2>2. CASE \E i \in Slots : Holds(i, p) /\ Start("clearTarget", p, i)
    <3>1. PICK i \in Slots : Holds(i, p) /\ op' = [at |-> "clearTarget", pair |-> p, slot |-> i]
      BY <2>2 DEF Start
    <3>2. OpAt' /\ Counted'
      BY <2>1, <3>1, LiveKept DEF OpAt, Counted, Holds
    <3>3. Contents'
      <4>1. \A j \in Live : <<targetFn[j], cb[j]>> \in registered' \cup {p}
        BY <2>1 DEF Contents
      <4>2. QED
        BY <2>1, <3>1, <4>1, LiveKept DEF Contents, Holds
    <3>4. QED
      BY <3>2, <3>3
  <2>3. CASE (\A i \in Slots : ~ Holds(i, p)) /\ op' = op
    <3>1. p \notin registered
      BY <2>3 DEF Contents
    <3>2. registered' = registered
      BY <2>1, <3>1
    <3>3. OpAt' /\ Counted' /\ Contents'
      BY <2>1, <2>3, <3>2, LiveKept DEF OpAt, Counted, Contents, Holds
    <3>4. QED
      BY <3>3
  <2>4. QED
    BY <1>2, <2>2, <2>3 DEF Unregister
<1>3. CASE SetCb
  <2>1. /\ op.at = "setCb" /\ op'.at = "setTarget" /\ op'.pair = op.pair /\ op'.slot = op.slot
        /\ UNCHANGED <<targetFn, active, registered>>
        /\ cb' = [cb EXCEPT ![op.slot] = op.pair[2]] /\ op.slot \in Slots
    BY <1>3 DEF SetCb, TypeOK
  <2>2. op.slot \notin Live
    BY <2>1 DEF OpAt, Live
  <2>3. \A i \in Live : cb'[i] = cb[i]
    BY <2>1, <2>2 DEF TypeOK, Live
  <2>4. \A i \in Slots, p \in Observers : Holds(i, p)' <=> Holds(i, p)
    BY <2>1, <2>3 DEF Holds, Live
  <2>5. OpAt'
    BY <2>1, <2>4 DEF OpAt, TypeOK
  <2>6. Contents' /\ Counted'
    BY <2>1, <2>3, <2>4, LiveKept DEF Contents, Counted, TypeOK
  <2>7. QED
    BY <2>5, <2>6
<1>4. CASE SetTarget
  <2>1. /\ op.at = "setTarget" /\ op'.at = "count" /\ op'.pair = op.pair /\ op'.slot = op.slot
        /\ UNCHANGED <<cb, active, registered>>
        /\ targetFn' = [targetFn EXCEPT ![op.slot] = op.pair[1]] /\ op.slot \in Slots
        /\ op.pair \in Observers /\ op.pair[1] # None /\ op.pair[1] \in Functions
        /\ op.pair[2] = cb[op.slot] /\ op.pair \notin registered /\ targetFn[op.slot] = None
        /\ op.pair = <<op.pair[1], op.pair[2]>>
    BY <1>4 DEF SetTarget, TypeOK, OpAt
  <2>2. /\ Live' = Live \cup {op.slot} /\ op.slot \notin Live
        /\ Cardinality(Live') = Cardinality(Live) + 1
    BY <2>1, LiveCount DEF Live
  <2>3. \A i \in Live : targetFn'[i] = targetFn[i] /\ i # op.slot
    BY <2>1, <2>2 DEF TypeOK, Live
  <2>4. targetFn'[op.slot] = op.pair[1]
    BY <2>1 DEF TypeOK
  <2>5. OpAt' /\ Counted'
    BY <2>1, <2>2, <2>4 DEF OpAt, Counted, Holds
  <2>6. Contents'
    <3>1. \A p \in registered : \E i \in Slots : Holds(i, p)'
      BY <2>1, <2>3 DEF Contents, Holds, Live, TypeOK
    <3>2. \A i \in Live' :
             \/ <<targetFn'[i], cb'[i]>> \in registered'
             \/ op'.at \in {"count", "clearTarget"} /\ op'.pair = <<targetFn'[i], cb'[i]>>
      BY <2>1, <2>2, <2>3, <2>4 DEF Contents
    <3>3. \A i \in Live : <<targetFn[i], cb[i]>> # op.pair
      BY <2>1 DEF Contents
    <3>4. \A i, j \in Live' : i # j => <<targetFn'[i], cb'[i]>> # <<targetFn'[j], cb'[j]>>
      BY <2>1, <2>2, <2>3, <2>4, <3>3 DEF Contents
    <3>5. QED
      BY <2>1, <3>1, <3>2, <3>4 DEF Contents
  <2>7. QED
    BY <2>5, <2>6
<1>5. CASE Count
  <2>1. /\ op.at = "count" /\ op'.at = "none" /\ UNCHANGED <<targetFn, cb>>
        /\ active' = active + 1 /\ registered' = registered \cup {op.pair} /\ Live' = Live
    BY <1>5, LiveKept DEF Count, NoOp
  <2>2. OpAt' /\ Counted' /\ Contents'
    BY <2>1 DEF OpAt, Counted, Contents, Holds, TypeOK
  <2>3. QED
    BY <2>2
<1>6. CASE ClearTarget
  <2>1. /\ op.at = "clearTarget" /\ op'.at = "clearCb" /\ op'.pair = op.pair /\ op'.slot = op.slot
        /\ UNCHANGED <<cb, active, registered>>
        /\ targetFn' = [targetFn EXCEPT ![op.slot] = None] /\ op.slot \in Slots
        /\ Holds(op.slot, op.pair) /\ op.pair \in Observers /\ op.pair \notin registered
    BY <1>6 DEF ClearTarget, TypeOK, OpAt
  <2>2. targetFn[op.slot] # None
    BY <2>1 DEF Holds
  <2>3. Live' = Live \ {op.slot} /\ Cardinality(Live') = Cardinality(Live) - 1
    BY <2>1, <2>2, LiveCount
  <2>4. \A i \in Slots \ {op.slot} : targetFn'[i] = targetFn[i]
    BY <2>1 DEF TypeOK
  <2>5. OpAt' /\ Counted'
    <3>1. Cardinality(Live) \in Nat
      BY SlotSets DEF Live
    <3>2. QED
      BY <2>1, <2>3, <3>1 DEF OpAt, Counted, TypeOK
  <2>6. Contents'
    <3>1. \A p \in registered : ~ Holds(op.slot, p)
      BY <2>1 DEF Holds, TypeOK
    <3>2. \A p \in registered : \E i \in Slots : Holds(i, p)'
      BY <2>1, <2>4, <3>1 DEF Contents, Holds
    <3>3. \A i \in Live' : <<targetFn'[i], cb'[i]>> \in registered
      <4>1. op.pair = <<targetFn[op.slot], cb[op.slot]>> /\ op.slot \in Live
        BY <2>1, <2>2 DEF Holds, Live
      <4>2. QED
        BY <2>1, <2>3, <2>4, <4>1 DEF Contents, Live
    <3>4. QED
      BY <2>1, <2>3, <2>4, <3>2, <3>3 DEF Contents, Live
  <2>7. QED
    BY <2>5, <2>6
<1>7. CASE ClearCb
  <2>1. /\ op.at = "clearCb" /\ op'.at = "uncount" /\ op'.pair = op.pair
        /\ UNCHANGED <<targetFn, active, registered>> /\ Live' = Live
        /\ cb' = [cb EXCEPT ![op.slot] = None] /\ op.slot \in Slots /\ targetFn[op.slot] = None
    BY <1>7, LiveKept DEF ClearCb, TypeOK, OpAt
  <2>2. \A i \in Live : cb'[i] = cb[i]
    BY <2>1 DEF TypeOK, Live
  <2>3. \A i \in Slots, p \in Observers : Holds(i, p)' <=> Holds(i, p)
    BY <2>1, <2>2 DEF Holds, Live
  <2>4. OpAt' /\ Counted' /\ Contents'
    BY <2>1, <2>2, <2>3 DEF OpAt, Counted, Contents, TypeOK
  <2>5. QED
    BY <2>4
<1>8. CASE Uncount
  <2>1. /\ op.at = "uncount" /\ op'.at = "none" /\ UNCHANGED <<targetFn, cb, registered>>
        /\ active' = active - 1 /\ Live' = Live
    BY <1>8, LiveKept DEF Uncount, NoOp
  <2>2. Cardinality(Live) \in Nat
    BY SlotSets DEF Live
  <2>3. OpAt' /\ Counted' /\ Contents'
    BY <2>1, <2>2 DEF OpAt, Counted, Contents, Holds
  <2>4. QED
    BY <2>3
<1>9. CASE ClearAll
  <2>1. /\ op.at = "none" /\ op'.at = "wipeTarget" /\ op'.slot = 0 /\ Live' = Live
        /\ UNCHANGED <<targetFn, cb, active, registered>>
    BY <1>9, LiveKept DEF ClearAll, MayOperate, NoOp, tableVars
  <2>2. Cardinality(Live) \in Nat
    BY SlotSets DEF Live
  <2>3. OpAt' /\ Counted' /\ Contents'
    BY <2>1, <2>2 DEF OpAt, Counted, Contents, Holds, Slots, TypeOK
  <2>4. QED
    BY <2>3
<1>10. CASE WipeTarget
  <2>1. /\ op.at = "wipeTarget" /\ op'.at = "wipeCb" /\ op'.slot = op.slot
        /\ UNCHANGED <<cb, active>>
        /\ targetFn' = [targetFn EXCEPT ![op.slot] = None] /\ op.slot \in Slots
        /\ registered' = registered \ {p \in Observers : Holds(op.slot, p)}
    BY <1>10 DEF WipeTarget, TypeOK
  <2>2. Live' = Live \ {op.slot} /\ Cardinality(Live') =< Cardinality(Live)
    BY <2>1, LiveCount
  <2>3. targetFn'[op.slot] = None /\ \A i \in Slots \ {op.slot} : targetFn'[i] = targetFn[i]
    BY <2>1 DEF TypeOK
  <2>4. OpAt'
    BY <2>1, <2>3 DEF OpAt, TypeOK, Slots
  <2>5. Counted'
    <3>1. Cardinality(Live) \in Nat /\ Cardinality(Live)' \in Nat
      BY <2>2, SlotSets DEF Live
    <3>2. QED
      BY <2>1, <2>2, <3>1 DEF Counted, TypeOK
  <2>6. Contents'
    <3>1. \A p \in registered' : \E i \in Slots : Holds(i, p)'
      <4>1. \A p \in registered' : ~ Holds(op.slot, p) /\ p \in registered
        BY <2>1 DEF TypeOK
      <4>2. QED
        BY <2>1, <2>3, <4>1 DEF Contents, Holds
    <3>2. \A i \in Live' : <<targetFn'[i], cb'[i]>> \in registered'
      <4>1. ASSUME NEW i \in Live' PROVE <<targetFn'[i], cb'[i]>> \in registered'
        <5>1. i \in Live /\ i # op.slot /\ targetFn'[i] = targetFn[i] /\ cb'[i] = cb[i]
          BY <2>1, <2>2, <2>3 DEF Live
        <5>2. <<targetFn[i], cb[i]>> \in registered
          BY <2>1, <5>1 DEF Contents
        <5>3. ~ Holds(op.slot, <<targetFn[i], cb[i]>>)
          BY <5>1, <2>1 DEF Contents, Holds, Live
        <5>4. QED
          BY <2>1, <5>1, <5>2, <5>3
      <4>2. QED
        BY <4>1
    <3>3. \A i, j \in Live' : i # j => <<targetFn'[i], cb'[i]>> # <<targetFn'[j], cb'[j]>>
      BY <2>1, <2>2, <2>3 DEF Contents, Live
    <3>4. QED
      BY <3>1, <3>2, <3>3 DEF Contents
  <2>7. QED
    BY <2>4, <2>5, <2>6
<1>11. CASE WipeCb
  <2>1. /\ op.at = "wipeCb" /\ UNCHANGED <<targetFn, active, registered>> /\ Live' = Live
        /\ cb' = [cb EXCEPT ![op.slot] = None] /\ op.slot \in Slots
        /\ \/ op'.at = "wipeTarget" /\ op'.slot = op.slot + 1
           \/ op'.at = "wipeCount" /\ op.slot + 1 >= MaxObservers
        /\ targetFn[op.slot] = None
    BY <1>11, LiveKept DEF WipeCb, TypeOK, OpAt, Slots
  <2>2. \A i \in Live : cb'[i] = cb[i]
    BY <2>1 DEF TypeOK, Live
  <2>3. \A i \in Slots, p \in Observers : Holds(i, p)' <=> Holds(i, p)
    BY <2>1, <2>2 DEF Holds, Live
  <2>4. OpAt'
    BY <2>1 DEF OpAt, TypeOK, Slots
  <2>5. Counted' /\ Contents'
    BY <2>1, <2>2, <2>3 DEF Counted, Contents, TypeOK
  <2>6. QED
    BY <2>4, <2>5
<1>12. CASE WipeCount
  <2>1. /\ op.at = "wipeCount" /\ op'.at = "none" /\ UNCHANGED <<targetFn, cb, registered>>
        /\ active' = 0 /\ Live' = Live
    BY <1>12, LiveKept DEF WipeCount, NoOp
  <2>2. Live = {} /\ Cardinality(Live) = 0
    BY <2>1, FS_EmptySet DEF OpAt, Live
  <2>3. OpAt' /\ Counted' /\ Contents'
    BY <2>1, <2>2 DEF OpAt, Counted, Contents, Holds
  <2>4. QED
    BY <2>3
<1>13. QED
  BY <1>1, <1>2, <1>3, <1>4, <1>5, <1>6, <1>7, <1>8, <1>9, <1>10, <1>11, <1>12

-----------------------------------------------------------------------------
(* The walks, while the game thread operates on the table.                 *)

(* One walk's part of WalkInv. *)
WalkInvOf(t) ==
    /\ walk[t].fn \in Functions
    /\ walk[t].due \subseteq registered
    /\ \A p \in walk[t].due : p[1] = walk[t].fn
    /\ KnowsOverlap(t) /\ Reachable(t) /\ AtCb(t)
    /\ Enough(t) /\ DueAhead(t)

(* An operation that starts marks the walks under way, and leaves the      *)
(* table alone. *)
LEMMA StartKeepsWalkInv ==
    ASSUME IInv, NEW kind \in {"register", "unregister"},
           NEW coming \in SUBSET Observers, NEW going,
           Overlap(kind, coming, going),
           UNCHANGED <<targetFn, cb>>, registered \ going \subseteq registered',
           op'.at \in Registering =>
               kind = "register" /\ op'.pair \in coming,
           op'.at \in Clearing \cup Wiping => kind = "unregister"
    PROVE  WalkInv'
<1> SUFFICES ASSUME NEW t \in Threads, Walks(t)' PROVE WalkInvOf(t)'
  BY DEF WalkInv, WalkInvOf
<1>0. TypeOK
  BY DEF IInv
<1>1. /\ walk'[t].at = walk[t].at /\ walk'[t].fn = walk[t].fn
      /\ walk'[t].bound = walk[t].bound /\ walk'[t].i = walk[t].i
      /\ walk'[t].found = walk[t].found /\ walk'[t].fired = walk[t].fired
      /\ ~ Walks(t) => walk'[t] = walk[t]
      /\ Walks(t) =>
            /\ walk'[t].overlapped = walk[t].overlapped \cup {kind}
            /\ \A p : p \in walk'[t].possible <=>
                  p \in walk[t].possible \/ (p \in coming /\ p[1] = walk[t].fn)
            /\ walk'[t].due = walk[t].due \ going
  <2>1. Overlapped(t, kind, coming, going)
    BY <1>0, OverlapFields
  <2>2. QED
    BY <2>1 DEF Overlapped
<1>2. WalkInvOf(t) /\ Walks(t)
  BY <1>1 DEF IInv, WalkInv, WalkInvOf, Walks
<1>3. Live' = Live
  BY LiveKept
<1>4. walk[t].overlapped \subseteq {"register", "unregister"}
  BY DEF IInv, TypeOK, WalkRecords
<1>5. walk'[t].fn \in Functions /\ walk'[t].due \subseteq registered'
      /\ \A p \in walk'[t].due : p[1] = walk'[t].fn
  BY <1>1, <1>2 DEF WalkInvOf
<1>6. KnowsOverlap(t)'
  BY <1>1, <1>2 DEF KnowsOverlap
<1>7. Reachable(t)'
  BY <1>1, <1>2, <1>3 DEF WalkInvOf, Reachable
<1>8. AtCb(t)'
  BY <1>1, <1>2, <1>4 DEF WalkInvOf, AtCb
<1>9. Enough(t)'
  BY <1>1, <1>2, <1>3 DEF WalkInvOf, Enough, Ahead
<1>10. DueAhead(t)'
  BY <1>1, <1>2 DEF WalkInvOf, DueAhead, Holds
<1>11. QED
  BY <1>5, <1>6, <1>7, <1>8, <1>9, <1>10 DEF WalkInvOf

(* A store that a registration makes; the walks under way know of it.      *)
LEMMA RegisteringKeepsWalkInv ==
    ASSUME IInv, TableInv', SetCb \/ SetTarget \/ Count
    PROVE  WalkInv'
<1> SUFFICES ASSUME NEW t \in Threads, Walks(t)' PROVE WalkInvOf(t)'
  BY DEF WalkInv, WalkInvOf
<1>1. walk' = walk
  BY DEF SetCb, SetTarget, Count
<1>2. WalkInvOf(t) /\ "register" \in walk[t].overlapped
  BY <1>1 DEF SetCb, SetTarget, Count, IInv, WalkInv, WalkInvOf, Walks, KnowsOverlap,
     Registering
<1>3. /\ registered \subseteq registered' /\ op.pair \in Observers /\ op.slot \in Slots
      /\ op.pair = <<op.pair[1], op.pair[2]>> /\ op.pair[1] # None
      /\ op'.at \in Registering \cup {"none"}
      /\ op'.at \in Registering => op'.pair = op.pair
  BY ObserverTableAssumption
     DEF SetCb, SetTarget, Count, NoOp, IInv, TypeOK, TableInv, OpAt, Registering
<1>4. walk'[t].fn \in Functions /\ walk'[t].due \subseteq registered'
      /\ \A p \in walk'[t].due : p[1] = walk'[t].fn
  BY <1>1, <1>2, <1>3 DEF WalkInvOf
<1>5. KnowsOverlap(t)'
  BY <1>1, <1>2, <1>3 DEF KnowsOverlap, Registering, Clearing, Wiping
<1>6. Reachable(t)'
  <2>1. op'.at \in Registering /\ op'.pair[1] = walk'[t].fn => op'.pair \in walk'[t].possible
    BY <1>1, <1>2, <1>3
       DEF WalkInvOf, Reachable, SetCb, SetTarget, Count, NoOp, Registering
  <2>2. ASSUME NEW i \in Live', targetFn'[i] = walk[t].fn
        PROVE  <<walk[t].fn, cb'[i]>> \in walk[t].possible
    <3>1. CASE i \in Live /\ targetFn'[i] = targetFn[i] /\ cb'[i] = cb[i]
      BY <1>2, <2>2, <3>1 DEF WalkInvOf, Reachable
    <3>2. CASE ~ (i \in Live /\ targetFn'[i] = targetFn[i] /\ cb'[i] = cb[i])
      <4>1. CASE SetCb
        <5>1. i \in Live /\ i # op.slot
          BY <2>2, <4>1 DEF SetCb, IInv, TableInv, OpAt, Live
        <5>2. QED
          BY <3>2, <4>1, <5>1 DEF SetCb, IInv, TypeOK, Live
      <4>2. CASE SetTarget
        <5>1. i = op.slot
          BY <2>2, <3>2, <4>2 DEF SetTarget, IInv, TypeOK, Live
        <5>2. targetFn'[i] = op.pair[1] /\ cb'[i] = op.pair[2]
          BY <1>3, <4>2, <5>1 DEF SetTarget, IInv, TypeOK, TableInv, OpAt
        <5>3. QED
          BY <1>2, <1>3, <2>2, <4>2, <5>2
             DEF WalkInvOf, Reachable, SetTarget, Registering
      <4>3. CASE Count
        BY <2>2, <3>2, <4>3 DEF Count, Live
      <4>4. QED
        BY <4>1, <4>2, <4>3
    <3>3. QED
      BY <3>1, <3>2
  <2>3. QED
    BY <1>1, <2>1, <2>2 DEF Reachable
<1>7. AtCb(t)'
  <2> SUFFICES ASSUME walk[t].at = "cb" PROVE AtCb(t)'
    BY <1>1 DEF AtCb
  <2> DEFINE s == walk[t].i - 1
  <2>1. /\ s \in Slots
        /\ targetFn[s] = walk[t].fn \/ "unregister" \in walk[t].overlapped
        /\ walk[t].overlapped # {"register", "unregister"} =>
              cb[s] = None \/ <<walk[t].fn, cb[s]>> \in walk[t].possible
    BY <1>2 DEF WalkInvOf, AtCb
  <2>2. walk[t].fn # None
    BY <1>2, ObserverTableAssumption DEF WalkInvOf
  <2>3. CASE "unregister" \in walk[t].overlapped
    <3>1. walk[t].overlapped = {"register", "unregister"}
      BY <1>2, <2>3 DEF IInv, TypeOK, WalkRecords
    <3>2. QED
      BY <1>1, <2>1, <3>1 DEF AtCb
  <2>4. CASE "unregister" \notin walk[t].overlapped
    <3>1. targetFn'[s] = targetFn[s] /\ cb'[s] = cb[s]
      <4>1. op.at \in {"setCb", "setTarget"} => s # op.slot
        BY <2>1, <2>2, <2>4 DEF IInv, TableInv, OpAt
      <4>2. QED
        BY <1>3, <2>1, <4>1 DEF SetCb, SetTarget, Count, IInv, TypeOK
    <3>2. QED
      BY <1>1, <2>1, <2>4, <3>1 DEF AtCb
  <2>5. QED
    BY <2>3, <2>4
<1>8. Enough(t)' /\ DueAhead(t)'
  BY <1>1, <1>2 DEF Enough, DueAhead
<1>9. QED
  BY <1>4, <1>5, <1>6, <1>7, <1>8 DEF WalkInvOf

(* The slots ahead only get fewer when slots are cleared. *)
LEMMA FewerAhead ==
    ASSUME Live' \subseteq Live, NEW i \in Nat
    PROVE  Cardinality(Ahead(i)') =< Cardinality(Ahead(i))
<1>1. Ahead(i)' \subseteq Ahead(i)
  BY DEF Ahead
<1>2. IsFiniteSet(Ahead(i)) /\ Cardinality(Ahead(i)) \in Nat
  BY SlotSets, ObserverTableAssumption DEF Ahead, Live
<1>3. QED
  BY <1>1, <1>2, FS_Subset

(* A store that clears part of a slot leaves a walk that knows of it what  *)
(* it needs, when no slot of a pair that is due is touched. *)
LEMMA ClearedKeepsWalkInvOf ==
    ASSUME IInv, NEW t \in Threads, WalkInvOf(t),
           walk'[t].at = walk[t].at, walk'[t].fn = walk[t].fn,
           walk'[t].bound = walk[t].bound, walk'[t].i = walk[t].i,
           walk'[t].found = walk[t].found, walk'[t].fired = walk[t].fired,
           walk'[t].overlapped = walk[t].overlapped, "unregister" \in walk[t].overlapped,
           walk'[t].possible = walk[t].possible,
           walk'[t].due \subseteq walk[t].due, walk'[t].due \subseteq registered',
           op'.at \notin Registering,
           \A i \in Slots : targetFn'[i] \in {targetFn[i], None} /\ cb'[i] \in {cb[i], None},
           \A i \in Live' : cb'[i] = cb[i],
           \A p \in walk'[t].due, i \in Slots : Holds(i, p) => Holds(i, p)'
    PROVE  WalkInvOf(t)'
<1>1. Live' \subseteq Live /\ \A i \in Live' : targetFn'[i] = targetFn[i]
  BY DEF Live
<1>2. walk[t].i \in Nat
  BY DEF IInv, TypeOK, WalkRecords
<1>3. walk'[t].fn \in Functions /\ \A p \in walk'[t].due : p[1] = walk'[t].fn
  BY DEF WalkInvOf
<1>4. KnowsOverlap(t)'
  BY DEF KnowsOverlap
<1>5. Reachable(t)'
  BY <1>1 DEF WalkInvOf, Reachable
<1>6. AtCb(t)'
  BY DEF WalkInvOf, AtCb
<1>7. Enough(t)'
  <2>1. Cardinality(Ahead(walk[t].i)') =< Cardinality(Ahead(walk[t].i))
    <3>1. \A i \in Nat : Cardinality(Ahead(i)') =< Cardinality(Ahead(i))
      BY <1>1, FewerAhead
    <3>2. QED
      BY <1>2, <3>1
  <2>2. Cardinality(Ahead(walk[t].i)) \in Nat /\ Cardinality(Ahead(walk[t].i)') \in Nat
    BY <1>1, SlotSets, ObserverTableAssumption DEF Ahead, Live
  <2>3. walk[t].found \in Nat /\ walk[t].bound \in Nat
    BY DEF IInv, TypeOK, WalkRecords
  <2>4. QED
    BY <2>1, <2>2, <2>3 DEF WalkInvOf, Enough
<1>8. DueAhead(t)'
  BY DEF WalkInvOf, DueAhead, AtCb
<1>9. QED
  BY <1>3, <1>4, <1>5, <1>6, <1>7, <1>8 DEF WalkInvOf

(* The stores of an unregistration, and those of ClearAllObservers but the *)
(* one that takes a pair away. *)
LEMMA ClearingKeepsWalkInv ==
    ASSUME IInv, ClearTarget \/ ClearCb \/ Uncount \/ WipeCb \/ WipeCount
    PROVE  WalkInv'
<1> SUFFICES ASSUME NEW t \in Threads, Walks(t)' PROVE WalkInvOf(t)'
  BY DEF WalkInv, WalkInvOf
<1>1. walk' = walk /\ registered' = registered
  BY DEF ClearTarget, ClearCb, Uncount, WipeCb, WipeCount
<1>2. op.at \in Clearing \cup Wiping /\ op'.at \notin Registering /\ op.slot \in Slots
  <2>1. op.slot \in Slots
    BY DEF IInv, TypeOK
  <2>2. op.at \in Clearing \cup Wiping
    BY DEF ClearTarget, ClearCb, Uncount, WipeCb, WipeCount, Clearing, Wiping
  <2>3. op'.at \in {"clearCb", "uncount", "none", "wipeTarget", "wipeCount"}
    <3>1. CASE ClearTarget
      BY <3>1 DEF ClearTarget, IInv, TypeOK
    <3>2. CASE ClearCb
      BY <3>2 DEF ClearCb, IInv, TypeOK
    <3>3. CASE WipeCb
      BY <3>3 DEF WipeCb, IInv, TypeOK
    <3>4. CASE Uncount \/ WipeCount
      BY <3>4 DEF Uncount, WipeCount, NoOp
    <3>5. QED
      BY <3>1, <3>2, <3>3, <3>4
  <2>4. QED
    BY <2>1, <2>2, <2>3 DEF Registering
<1>3. WalkInvOf(t) /\ "unregister" \in walk[t].overlapped
  BY <1>1, <1>2 DEF IInv, WalkInv, WalkInvOf, Walks, KnowsOverlap
<1>4. ASSUME NEW i \in Slots
      PROVE  /\ targetFn'[i] \in {targetFn[i], None} /\ cb'[i] \in {cb[i], None}
             /\ targetFn'[i] # None => cb'[i] = cb[i]
             /\ \A p \in registered : Holds(i, p) => Holds(i, p)'
  <2>1. CASE ClearTarget
    <3>1. Holds(op.slot, op.pair) /\ op.pair \notin registered /\ op.pair \in Observers
      BY <2>1 DEF ClearTarget, IInv, TableInv, OpAt, Clearing
    <3>2. \A p \in registered : Holds(op.slot, p) => p = op.pair
      <4>1. \A p \in Observers : p = <<p[1], p[2]>>
        BY ObserverTableAssumption
      <4>2. registered \subseteq Observers
        BY DEF IInv, TypeOK
      <4>3. QED
        BY <3>1, <4>1, <4>2 DEF Holds
    <3>3. QED
      BY <1>2, <2>1, <3>1, <3>2 DEF ClearTarget, IInv, TypeOK, Holds
  <2>2. CASE ClearCb \/ WipeCb
    <3>1. targetFn[op.slot] = None
      BY <1>2, <2>2 DEF ClearCb, WipeCb, IInv, TableInv, OpAt, Slots
    <3>2. \A p \in registered : p[1] # None
      BY ObserverTableAssumption DEF IInv, TypeOK
    <3>3. QED
      BY <1>2, <2>2, <3>1, <3>2 DEF ClearCb, WipeCb, IInv, TypeOK, Holds
  <2>3. CASE Uncount \/ WipeCount
    BY <2>3 DEF Uncount, WipeCount, Holds
  <2>4. QED
    BY <2>1, <2>2, <2>3
<1>5. \A i \in Live' : cb'[i] = cb[i]
  BY <1>4 DEF Live
<1>6. walk[t].due \subseteq registered
  BY <1>3 DEF WalkInvOf
<1>7. QED
  BY <1>1, <1>2, <1>3, <1>4, <1>5, <1>6, ClearedKeepsWalkInvOf

(* ... and that one: the pair is not due any more. *)
LEMMA WipeTargetKeepsWalkInv ==
    ASSUME IInv, WipeTarget
    PROVE  WalkInv'
<1> DEFINE going == {p \in Observers : Holds(op.slot, p)}
<1> SUFFICES ASSUME NEW t \in Threads, Walks(t)' PROVE WalkInvOf(t)'
  BY DEF WalkInv, WalkInvOf
<1>1. /\ op.at = "wipeTarget" /\ op'.at = "wipeCb" /\ cb' = cb
      /\ targetFn' = [targetFn EXCEPT ![op.slot] = None] /\ op.slot \in Slots
      /\ registered' = registered \ going /\ Overlap("unregister", {}, going)
  BY DEF WipeTarget, IInv, TypeOK
<1>2. Overlapped(t, "unregister", {}, going)
  <2>1. TypeOK
    BY DEF IInv
  <2>2. {} \in SUBSET Observers
    OBVIOUS
  <2> HIDE DEF going
  <2>3. QED
    BY <1>1, <2>1, <2>2, OverlapFields
<1>3. Walks(t)
  BY <1>2 DEF Overlapped, Walks
<1>4. WalkInvOf(t) /\ "unregister" \in walk[t].overlapped
  BY <1>1, <1>3 DEF IInv, WalkInv, WalkInvOf, KnowsOverlap, Wiping
<1>5. walk'[t].due = walk[t].due \ going /\ walk[t].due \subseteq registered
      /\ walk[t].due \subseteq Observers
  BY <1>2, <1>3, <1>4 DEF Overlapped, WalkInvOf, IInv, TypeOK
<1>6. walk'[t].due \subseteq walk[t].due /\ walk'[t].due \subseteq registered'
  BY <1>1, <1>5
<1>7. \A i \in Slots : targetFn'[i] \in {targetFn[i], None} /\ cb'[i] \in {cb[i], None}
  BY <1>1 DEF IInv, TypeOK
<1>8. \A p \in walk'[t].due, i \in Slots : Holds(i, p) => Holds(i, p)'
  BY <1>1, <1>5 DEF IInv, TypeOK, Holds
<1>9. /\ walk'[t].at = walk[t].at /\ walk'[t].fn = walk[t].fn
      /\ walk'[t].bound = walk[t].bound /\ walk'[t].i = walk[t].i
      /\ walk'[t].found = walk[t].found /\ walk'[t].fired = walk[t].fired
      /\ walk'[t].overlapped = walk[t].overlapped /\ walk'[t].possible = walk[t].possible
  <2>1. walk'[t].possible = walk[t].possible
    <3>1. walk[t].possible \in SUBSET Observers /\ walk'[t].possible \in SUBSET Observers
      <4>1. walk' \in [Threads -> WalkRecords]
        BY <1>1, TypeOfOperations DEF IInv, TypeOK
      <4>2. QED
        BY <4>1 DEF IInv, TypeOK, WalkRecords
    <3>2. \A p : p \in walk'[t].possible <=> p \in walk[t].possible
      BY <1>2, <1>3 DEF Overlapped
    <3>3. QED
      BY <3>1, <3>2
  <2>2. QED
    BY <1>2, <1>3, <1>4, <2>1 DEF Overlapped
<1>10. op'.at \notin Registering /\ \A i \in Live' : cb'[i] = cb[i]
  BY <1>1 DEF Registering
<1> HIDE DEF going
<1>11. QED
  BY <1>4, <1>6, <1>7, <1>8, <1>9, <1>10, ClearedKeepsWalkInvOf

-----------------------------------------------------------------------------
(* The steps of the walks.                                                 *)

(* A step of one thread's walk disturbs no other's.                        *)
LEMMA StepKeepsWalkInv ==
    ASSUME IInv, NEW t \in Threads, NEW w \in WalkRecords, Step(t, w),
           Walks(t)' => WalkInvOf(t)'
    PROVE  WalkInv'
<1> SUFFICES ASSUME NEW u \in Threads, Walks(u)' PROVE WalkInvOf(u)'
  BY DEF WalkInv, WalkInvOf
<1>1. CASE u = t
  BY <1>1
<1>2. CASE u # t
  <2>1. walk'[u] = walk[u]
    BY <1>2, StepFields DEF IInv
  <2>2. WalkInvOf(u)
    BY <2>1 DEF IInv, WalkInv, WalkInvOf, Walks
  <2>3. UNCHANGED <<targetFn, cb, active, registered, op, ops>>
    BY DEF Step
  <2>4. Live' = Live
    BY <2>3 DEF Live
  <2>5. Reachable(u)' /\ KnowsOverlap(u)' /\ AtCb(u)' /\ Enough(u)' /\ DueAhead(u)'
    BY <2>1, <2>2, <2>3, <2>4
       DEF WalkInvOf, Reachable, KnowsOverlap, AtCb, Enough, Ahead, DueAhead, Holds
  <2>6. QED
    BY <2>1, <2>2, <2>3, <2>5 DEF WalkInvOf
<1>3. QED
  BY <1>1, <1>2

(* A walk that begins has the whole table ahead. *)
LEMMA BeginKeepsWalkInv ==
    ASSUME IInv, NEW t \in Threads, NEW fn \in Functions, Begin(t, fn)
    PROVE  WalkInv'
<1> DEFINE w == Begun(fn)
<1>1. w \in WalkRecords /\ Step(t, w)
  BY BeginFields DEF IInv
<1>2. walk'[t] = w
  BY <1>1, StepFields DEF IInv
<1>3. UNCHANGED <<targetFn, cb, active, registered, op, ops>> /\ Live' = Live
  BY <1>1 DEF Step, Live
<1>4. WalkInvOf(t)'
  <2>1. w.fn \in Functions /\ w.due \subseteq registered /\ \A p \in w.due : p[1] = w.fn
    BY DEF Begun
  <2>2. KnowsOverlap(t)'
    BY <1>2, <1>3 DEF KnowsOverlap, Begun, UnderWay, Registering, Clearing, Wiping
  <2>3. Reachable(t)'
    <3>1. w.fn = fn /\ \A p : p \in w.possible <=> p \in registered \cup {op.pair} /\ p[1] = fn
      BY DEF Begun
    <3>2. \A i \in Live : targetFn[i] = fn => <<fn, cb[i]>> \in w.possible
      BY <3>1 DEF IInv, TableInv, Contents
    <3>3. QED
      BY <1>2, <1>3, <3>1, <3>2 DEF Reachable
  <2>4. AtCb(t)' /\ w.at = "target"
    BY <1>2 DEF AtCb, Begun
  <2>5. Enough(t)'
    <3>1. w.overlapped = UnderWay /\ w.found = 0 /\ w.i = 0 /\ w.bound = active
      BY DEF Begun
    <3>2. Ahead(0) = Live
      BY DEF Ahead, Live, Slots
    <3>3. "register" \notin UnderWay => active >= Cardinality(Live)
      <4>1. op.at \in {"none", "setCb", "setTarget", "count"} \cup Clearing \cup Wiping
        BY DEF IInv, TypeOK, Clearing, Wiping
      <4>2. Cardinality(Live) \in Nat
        BY SlotSets DEF Live
      <4>3. QED
        BY <4>1, <4>2 DEF UnderWay, IInv, TableInv, Counted, Clearing, Wiping
    <3>4. Cardinality(Live) \in Nat /\ active \in Nat
      BY SlotSets DEF Live, IInv, TypeOK
    <3>5. Ahead(0)' = Ahead(0)
      BY <1>3 DEF Ahead
    <3> HIDE DEF w
    <3>6. QED
      BY <1>2, <3>1, <3>2, <3>3, <3>4, <3>5 DEF Enough
  <2>6. DueAhead(t)'
    <3>1. w.i = 0
      BY DEF Begun
    <3>2. \A p \in w.due : \E j \in Slots : j >= 0 /\ Holds(j, p)
      BY <2>1 DEF IInv, TableInv, Contents, Slots
    <3> HIDE DEF w
    <3>3. QED
      BY <1>2, <1>3, <3>1, <3>2 DEF DueAhead, Holds
  <2>7. QED
    BY <1>2, <1>3, <2>1, <2>2, <2>3, <2>4, <2>5, <2>6 DEF WalkInvOf
<1>5. QED
  BY <1>1, <1>4, StepKeepsWalkInv

(* Passing a slot takes it from what is ahead, if it is live. *)
LEMMA AheadNext ==
    ASSUME TypeOK, NEW i \in Slots
    PROVE  /\ Cardinality(Ahead(i)) \in Nat /\ Cardinality(Ahead(i + 1)) \in Nat
           /\ Cardinality(Ahead(i + 1)) =< Cardinality(Ahead(i))
           /\ targetFn[i] # None => Cardinality(Ahead(i + 1)) + 1 = Cardinality(Ahead(i))
<1>1. Ahead(i + 1) = Ahead(i) \ {i}
  BY DEF Ahead, Live, Slots
<1>2. IsFiniteSet(Ahead(i)) /\ Cardinality(Ahead(i)) \in Nat
  BY SlotSets, ObserverTableAssumption DEF Ahead, Live
<1>3. Cardinality(Ahead(i) \ {i}) =
          IF i \in Ahead(i) THEN Cardinality(Ahead(i)) - 1 ELSE Cardinality(Ahead(i))
  BY <1>2, FS_RemoveElement
<1>4. Cardinality(Ahead(i + 1)) \in Nat
  BY SlotSets, ObserverTableAssumption DEF Ahead, Live
<1>5. targetFn[i] # None => i \in Ahead(i)
  BY DEF Ahead, Live, Slots
<1>6. QED
  BY <1>1, <1>2, <1>3, <1>4, <1>5

(* What passing a slot does to a walk. *)
LEMMA PassedFields ==
    ASSUME NEW w \in WalkRecords
    PROVE  /\ \A v \in {Passed(w), Seen(w), Matched(w)} :
                 /\ v.fn = w.fn /\ v.bound = w.bound /\ v.i = w.i + 1
                 /\ v.fired = w.fired /\ v.due = w.due
                 /\ v.possible = w.possible /\ v.overlapped = w.overlapped
           /\ Passed(w).found = w.found /\ Passed(w).at = w.at
           /\ Seen(w).found = w.found + 1 /\ Seen(w).at = w.at
           /\ Matched(w).found = w.found + 1 /\ Matched(w).at = "cb"
BY DEF Passed, Seen, Matched, WalkRecords

(* A slot that matches is about to be called; one that does not match     *)
(* holds nothing that is due. *)
LEMMA LoadTargetKeepsWalkInv ==
    ASSUME IInv, NEW t \in Threads, LoadTarget(t)
    PROVE  WalkInv'
<1> DEFINE w == walk[t]
<1>1. /\ w \in WalkRecords /\ w.at = "target" /\ w.i \in Slots
      /\ w.found \in Nat /\ w.bound \in Nat /\ WalkInvOf(t)
  BY LoadTargetFields DEF IInv, TypeOK, WalkRecords, WalkInv, WalkInvOf, Walks
<1>2. PICK v \in WalkRecords :
          /\ Step(t, v)
          /\ \/ v = Passed(w) /\ targetFn[w.i] = None
             \/ v = Seen(w) /\ targetFn[w.i] \notin {None, w.fn}
             \/ v = Matched(w) /\ targetFn[w.i] = w.fn
  BY LoadTargetFields DEF IInv
<1>3. walk'[t] = v
  BY <1>2, StepFields DEF IInv
<1>4. UNCHANGED <<targetFn, cb, active, registered, op, ops>>
  BY <1>2 DEF Step
<1>5. /\ v.fn = w.fn /\ v.bound = w.bound /\ v.i = w.i + 1
      /\ v.fired = w.fired /\ v.due = w.due
      /\ v.possible = w.possible /\ v.overlapped = w.overlapped
      /\ targetFn[w.i] = None => v.found = w.found
      /\ targetFn[w.i] # None => v.found = w.found + 1
      /\ v.at = "cb" <=> targetFn[w.i] = w.fn
  <2>1. w.fn # None
    BY <1>1, ObserverTableAssumption DEF WalkInvOf
  <2> HIDE DEF w
  <2>2. QED
    BY <1>1, <1>2, <2>1, PassedFields
<1> HIDE DEF w
<1>6. Live' = Live /\ Ahead(v.i)' = Ahead(w.i + 1)
  BY <1>4, <1>5 DEF Live, Ahead
<1>7. /\ w.fn \in Functions /\ w.due \subseteq registered /\ \A p \in w.due : p[1] = w.fn
      /\ \A i \in Live : targetFn[i] = w.fn => <<w.fn, cb[i]>> \in w.possible
      /\ op.at \in Registering /\ op.pair[1] = w.fn => op.pair \in w.possible
      /\ "register" \notin w.overlapped => w.found + Cardinality(Ahead(w.i)) =< w.bound
      /\ "register" \notin w.overlapped =>
            \A p \in w.due : p \in w.fired \/ \E j \in Slots : j >= w.i /\ Holds(j, p)
  BY <1>1 DEF w, WalkInvOf, Reachable, Enough, DueAhead
<1>8. KnowsOverlap(t)' /\ Reachable(t)'
  BY <1>1, <1>3, <1>4, <1>5, <1>6 DEF w, WalkInvOf, KnowsOverlap, Reachable
<1>9. AtCb(t)'
  <2> SUFFICES ASSUME v.at = "cb" PROVE AtCb(t)'
    BY <1>3 DEF AtCb
  <2>1. v.i - 1 = w.i /\ targetFn[w.i] = w.fn /\ w.i \in Live
    BY <1>1, <1>5, <1>7, ObserverTableAssumption DEF Live, Slots
  <2>2. QED
    BY <1>1, <1>3, <1>4, <1>5, <1>7, <2>1 DEF AtCb
<1>10. Enough(t)'
  <2>1. "register" \notin v.overlapped => v.found + Cardinality(Ahead(w.i + 1)) =< v.bound
    BY <1>1, <1>5, <1>7, AheadNext DEF IInv
  <2>2. QED
    BY <1>3, <1>6, <2>1 DEF Enough
<1>11. DueAhead(t)'
  <2> SUFFICES ASSUME "register" \notin v.overlapped, NEW p \in v.due, p \notin v.fired
               PROVE  \/ v.at = "cb" /\ Holds(v.i - 1, p)
                      \/ \E j \in Slots : j >= v.i /\ Holds(j, p)
    BY <1>3, <1>4 DEF DueAhead, Holds
  <2>1. PICK j \in Slots : j >= w.i /\ Holds(j, p)
    BY <1>5, <1>7
  <2>2. CASE j = w.i
    <3>1. targetFn[w.i] = w.fn /\ v.i - 1 = w.i
      BY <1>1, <1>5, <1>7, <2>1, <2>2 DEF Holds, Slots
    <3>2. QED
      BY <1>5, <2>1, <2>2, <3>1
  <2>3. CASE j # w.i
    BY <1>1, <1>5, <2>1, <2>3 DEF Slots
  <2>4. QED
    BY <2>2, <2>3
<1>12. WalkInvOf(t)'
  BY <1>3, <1>4, <1>5, <1>7, <1>8, <1>9, <1>10, <1>11 DEF WalkInvOf
<1>13. QED
  BY <1>2, <1>12, StepKeepsWalkInv

(* A callback that is called was registered, unless both kinds of          *)
(* operations have been at the table. *)
LEMMA LoadCbKeepsWalkInv ==
    ASSUME IInv, NEW t \in Threads, LoadCb(t)
    PROVE  WalkInv'
<1> DEFINE w == walk[t]
           c == cb[w.i - 1]
<1>1. w \in WalkRecords /\ w.at = "cb" /\ w.i - 1 \in Slots /\ WalkInvOf(t)
  BY LoadCbFields DEF IInv, TypeOK, WalkRecords, WalkInv, WalkInvOf, Walks
<1>2. PICK v \in WalkRecords :
          /\ Step(t, v)
          /\ \/ v = Skipped(w) /\ c = None
             \/ v = Called(w, c) /\ c # None
  BY LoadCbFields DEF IInv
<1>3. walk'[t] = v
  BY <1>2, StepFields DEF IInv
<1>4. UNCHANGED <<targetFn, cb, active, registered, op, ops>>
  BY <1>2 DEF Step
<1> HIDE DEF w, c
<1>5. /\ v.fn = w.fn /\ v.bound = w.bound /\ v.i = w.i /\ v.found = w.found
      /\ v.due = w.due /\ v.possible = w.possible /\ v.overlapped = w.overlapped
      /\ v.at # "cb" /\ w.fired \subseteq v.fired
      /\ c # None => <<w.fn, c>> \in v.fired
  <2>1. CASE v = Skipped(w) /\ c = None
    BY <1>1, <2>1 DEF Skipped, WalkRecords
  <2>2. CASE v = Called(w, c) /\ c # None
    BY <1>1, <2>2 DEF Called, WalkRecords
  <2> QED BY <1>2, <2>1, <2>2
<1>6. Live' = Live
  BY <1>4 DEF Live
<1>7. /\ w.fn \in Functions /\ w.due \subseteq registered /\ \A p \in w.due : p[1] = w.fn
      /\ "register" \notin w.overlapped =>
            \A p \in w.due : \/ p \in w.fired
                             \/ Holds(w.i - 1, p)
                             \/ \E j \in Slots : j >= w.i /\ Holds(j, p)
  BY <1>1 DEF w, WalkInvOf, DueAhead
<1>8. KnowsOverlap(t)' /\ Reachable(t)' /\ AtCb(t)' /\ Enough(t)'
  BY <1>1, <1>3, <1>4, <1>5, <1>6
     DEF w, WalkInvOf, KnowsOverlap, Reachable, AtCb, Enough, Ahead
<1>9. DueAhead(t)'
  <2>1. \A p \in w.due : Holds(w.i - 1, p) => p = <<w.fn, c>> /\ c # None
    <3>1. \A p \in Observers : p = <<p[1], p[2]>> /\ p[2] # None
      BY ObserverTableAssumption
    <3>2. w.due \subseteq Observers
      BY <1>1 DEF WalkRecords
    <3>3. QED
      BY <1>7, <3>1, <3>2 DEF c, Holds
  <2>2. QED
    BY <1>3, <1>4, <1>5, <1>7, <2>1 DEF DueAhead, Holds
<1>10. WalkInvOf(t)'
  BY <1>3, <1>4, <1>5, <1>7, <1>8, <1>9 DEF WalkInvOf
<1>11. QED
  BY <1>2, <1>10, StepKeepsWalkInv

(* A callback that returns has changed nothing of the walk.                *)
LEMMA ReturnKeepsWalkInv ==
    ASSUME IInv, NEW t \in Threads, Return(t)
    PROVE  WalkInv'
<1> DEFINE v == [walk[t] EXCEPT !.at = "target"]
<1>1. /\ walk[t] \in WalkRecords /\ walk[t].at = "called" /\ WalkInvOf(t)
      /\ v \in WalkRecords /\ Step(t, v)
  BY DEF Return, Walking, IInv, TypeOK, WalkRecords, WalkInv, WalkInvOf, Walks
<1>2. walk'[t] = v
  BY <1>1, StepFields DEF IInv
<1>3. UNCHANGED <<targetFn, cb, active, registered, op, ops>> /\ Live' = Live
  BY <1>1 DEF Step, Live
<1>4. WalkInvOf(t)'
  <2>1. /\ v.fn = walk[t].fn /\ v.bound = walk[t].bound /\ v.i = walk[t].i
        /\ v.found = walk[t].found /\ v.due = walk[t].due /\ v.fired = walk[t].fired
        /\ v.possible = walk[t].possible /\ v.overlapped = walk[t].overlapped
        /\ v.at = "target"
    BY <1>1 DEF WalkRecords
  <2> HIDE DEF v
  <2>2. KnowsOverlap(t)' /\ Reachable(t)' /\ AtCb(t)' /\ Enough(t)'
    BY <1>1, <1>2, <1>3, <2>1
       DEF WalkInvOf, KnowsOverlap, Reachable, AtCb, Enough, Ahead
  <2>3. DueAhead(t)'
    BY <1>1, <1>2, <1>3, <2>1 DEF WalkInvOf, DueAhead, Holds
  <2>4. QED
    BY <1>1, <1>2, <1>3, <2>1, <2>2, <2>3 DEF WalkInvOf
<1>5. QED
  <2> HIDE DEF v
  <2>1. QED
    BY <1>1, <1>4, StepKeepsWalkInv

(* A walk that ends leaves nothing to say. *)
LEMMA EndKeepsWalkInv ==
    ASSUME IInv, NEW t \in Threads, End(t)
    PROVE  WalkInv'
<1>1. NoWalk \in WalkRecords /\ Step(t, NoWalk)
  BY ObserverTableAssumption DEF End, NoWalk, WalkRecords
<1>2. walk'[t] = NoWalk
  BY <1>1, StepFields DEF IInv
<1>3. ~ Walks(t)'
  BY <1>2 DEF Walks, NoWalk
<1>4. QED
  BY <1>1, <1>3, StepKeepsWalkInv

-----------------------------------------------------------------------------
(* What is called.                                                         *)
Clean(t) ==
    walk[t].overlapped # {"register", "unregister"} => walk[t].fired \subseteq walk[t].possible

(* An operation that starts tells the walks what it may bring them.        *)
LEMMA OverlapKeepsClean ==
    ASSUME IInv, NEW kind \in {"register", "unregister"},
           NEW coming \in SUBSET Observers, NEW going, Overlap(kind, coming, going)
    PROVE  FiresOnlyRegistered'
<1> SUFFICES ASSUME NEW t \in Threads PROVE Clean(t)'
  BY DEF FiresOnlyRegistered, Clean
<1>1. Overlapped(t, kind, coming, going)
  BY OverlapFields DEF IInv
<1>2. Clean(t) /\ walk[t].overlapped \subseteq {"register", "unregister"}
  BY DEF IInv, FiresOnlyRegistered, Clean, TypeOK, WalkRecords
<1>3. CASE Walks(t)
  <2>1. walk[t].possible \subseteq walk'[t].possible
    BY <1>1, <1>3 DEF Overlapped
  <2>2. QED
    BY <1>1, <1>2, <1>3, <2>1 DEF Overlapped, Clean
<1>4. CASE ~ Walks(t)
  BY <1>1, <1>2, <1>4 DEF Overlapped, Clean
<1>5. QED
  BY <1>3, <1>4

(* ... and a walk calls what it was told of, or what both kinds of         *)
(* operations have made of a slot. *)
LEMMA WalksKeepClean ==
    ASSUME IInv, NEW t \in Threads,
           \/ \E fn \in Functions : Begin(t, fn)
           \/ LoadTarget(t) \/ LoadCb(t) \/ Return(t) \/ End(t)
    PROVE  FiresOnlyRegistered'
<1> DEFINE w == walk[t]
           Fits(v) == v.overlapped # {"register", "unregister"} => v.fired \subseteq v.possible
<1>1. w \in WalkRecords /\ Fits(w)
  BY DEF IInv, TypeOK, FiresOnlyRegistered
<1>2. ASSUME NEW v \in WalkRecords, Step(t, v), Fits(v) PROVE FiresOnlyRegistered'
  <2>1. walk'[t] = v /\ \A u \in Threads \ {t} : walk'[u] = walk[u]
    BY <1>2, StepFields DEF IInv
  <2>2. QED
    BY <1>2, <2>1 DEF IInv, FiresOnlyRegistered
<1>3. ASSUME NEW fn \in Functions, Begin(t, fn) PROVE FiresOnlyRegistered'
  <2>1. Begun(fn) \in WalkRecords /\ Step(t, Begun(fn))
    BY <1>3, BeginFields DEF IInv
  <2>2. Fits(Begun(fn))
    BY DEF Begun
  <2> HIDE DEF Fits
  <2>3. QED
    BY <1>2, <2>1, <2>2
<1>4. CASE LoadTarget(t)
  <2>1. PICK v \in {Passed(w), Seen(w), Matched(w)} : v \in WalkRecords /\ Step(t, v)
    BY <1>4, LoadTargetFields DEF IInv
  <2>2. v.fired = w.fired /\ v.possible = w.possible /\ v.overlapped = w.overlapped
    BY <1>1, <2>1, PassedFields
  <2>3. Fits(v)
    BY <1>1, <2>2
  <2> HIDE DEF Fits
  <2>4. QED
    BY <1>2, <2>1, <2>3
<1>5. CASE LoadCb(t)
  <2> DEFINE c == cb[w.i - 1]
  <2>1. /\ w.at = "cb" /\ w.i - 1 \in Slots
        /\ \/ Skipped(w) \in WalkRecords /\ Step(t, Skipped(w))
           \/ c # None /\ Called(w, c) \in WalkRecords /\ Step(t, Called(w, c))
    BY <1>5, LoadCbFields DEF IInv
  <2>2. AtCb(t)
    BY <2>1 DEF IInv, WalkInv, Walks
  <2>3. Fits(Skipped(w))
    BY <1>1 DEF Skipped, WalkRecords
  <2>4. c # None => Fits(Called(w, c))
    <3>1. c # None /\ w.overlapped # {"register", "unregister"} => <<w.fn, c>> \in w.possible
      BY <2>1, <2>2 DEF AtCb
    <3> HIDE DEF w, c
    <3>2. /\ Called(w, c).overlapped = w.overlapped /\ Called(w, c).possible = w.possible
          /\ Called(w, c).fired = w.fired \cup {<<w.fn, c>>}
      BY <1>1 DEF Called, WalkRecords
    <3>3. QED
      BY <1>1, <3>1, <3>2
  <2> HIDE DEF Fits
  <2>5. QED
    BY <1>2, <2>1, <2>3, <2>4
<1>6. CASE Return(t)
  <2>1. Step(t, Skipped(w)) /\ Skipped(w) \in WalkRecords
    BY <1>1, <1>6 DEF Return, Skipped, WalkRecords
  <2>2. Fits(Skipped(w))
    BY <1>1 DEF Skipped, WalkRecords
  <2> HIDE DEF Fits
  <2>3. QED
    BY <1>2, <2>1, <2>2
<1>7. CASE End(t)
  <2>1. NoWalk \in WalkRecords /\ Step(t, NoWalk) /\ Fits(NoWalk)
    BY <1>7, ObserverTableAssumption DEF End, NoWalk, WalkRecords
  <2> HIDE DEF Fits
  <2>2. QED
    BY <1>2, <2>1
<1>8. QED
  BY <1>3, <1>4, <1>5, <1>6, <1>7

-----------------------------------------------------------------------------
(* The invariant.                                                          *)

(* The empty table.                                                        *)
LEMMA IInvInit == Init => IInv
<1> SUFFICES ASSUME Init PROVE IInv
  OBVIOUS
<1> USE ObserverTableAssumption
<1>1. TypeOK
  BY DEF Init, TypeOK, NoOp, NoWalk, WalkRecords, Slots
<1>2. Live = {} /\ Cardinality(Live) = 0
  BY FS_EmptySet DEF Init, Live
<1>3. TableInv
  BY <1>2 DEF Init, NoOp, TableInv, OpAt, Contents, Counted, Registering, Clearing, Wiping
<1>4. WalkInv /\ FiresOnlyRegistered
  BY DEF Init, NoWalk, WalkInv, Walks, FiresOnlyRegistered
<1>5. QED
  BY <1>1, <1>3, <1>4 DEF IInv

(* Every step keeps the invariant.                                         *)
LEMMA IInvStep == IInv /\ [Next]_vars => IInv'
<1> SUFFICES ASSUME IInv, [Next]_vars PROVE IInv'
  OBVIOUS
<1>1. CASE \/ \E p \in Observers : Register(p) \/ Unregister(p)
           \/ SetCb \/ SetTarget \/ Count
           \/ ClearTarget \/ ClearCb \/ Uncount
           \/ ClearAll \/ WipeTarget \/ WipeCb \/ WipeCount
  <2>1. TypeOK'
    BY <1>1, TypeOfOperations DEF IInv
  <2>2. TableInv'
    BY <1>1, <2>1, TableInvStep DEF IInv
  <2>3. WalkInv' /\ FiresOnlyRegistered'
    <3>1. ASSUME NEW p \in Observers, Register(p) PROVE WalkInv' /\ FiresOnlyRegistered'
      <4>1. /\ Overlap("register", {p}, {}) /\ UNCHANGED <<targetFn, cb, registered>>
            /\ op'.at = "setCb" /\ op'.pair = p /\ {p} \in SUBSET Observers
        BY <3>1 DEF Register, Start, tableVars
      <4>2. QED
        BY <4>1, StartKeepsWalkInv, OverlapKeepsClean DEF Registering, Clearing, Wiping
    <3>2. ASSUME NEW p \in Observers, Unregister(p) PROVE WalkInv' /\ FiresOnlyRegistered'
      <4>1. /\ Overlap("unregister", {}, {p}) /\ UNCHANGED <<targetFn, cb>>
            /\ registered' = registered \ {p} /\ op'.at \in {"none", "clearTarget"}
        BY <3>2 DEF Unregister, Start, tableVars, MayOperate
      <4>2. {} \in SUBSET Observers
        OBVIOUS
      <4>3. QED
        BY <4>1, <4>2, StartKeepsWalkInv, OverlapKeepsClean DEF Registering, Clearing, Wiping
    <3>3. CASE SetCb \/ SetTarget \/ Count
      <4>1. WalkInv'
        BY <2>2, <3>3, RegisteringKeepsWalkInv
      <4>2. QED
        BY <3>3, <4>1 DEF SetCb, SetTarget, Count, IInv, FiresOnlyRegistered
    <3>4. CASE ClearTarget \/ ClearCb \/ Uncount \/ WipeCb \/ WipeCount
      <4>1. WalkInv'
        BY <3>4, ClearingKeepsWalkInv
      <4>2. QED
        BY <3>4, <4>1 DEF ClearTarget, ClearCb, Uncount, WipeCb, WipeCount, IInv,
           FiresOnlyRegistered
    <3>5. CASE ClearAll
      <4>1. /\ Overlap("unregister", {}, {}) /\ UNCHANGED <<targetFn, cb, registered>>
            /\ op'.at = "wipeTarget" /\ {} \in SUBSET Observers
        BY <3>5 DEF ClearAll, NoOp, tableVars
      <4>2. QED
        BY <4>1, StartKeepsWalkInv, OverlapKeepsClean DEF Registering, Clearing, Wiping
    <3>6. CASE WipeTarget
      <4>1. WalkInv'
        BY <3>6, WipeTargetKeepsWalkInv
      <4>2. Overlap("unregister", {}, {p \in Observers : Holds(op.slot, p)})
            /\ {} \in SUBSET Observers
        BY <3>6 DEF WipeTarget
      <4>3. QED
        BY <4>1, <4>2, OverlapKeepsClean
    <3>7. QED
      BY <1>1, <3>1, <3>2, <3>3, <3>4, <3>5, <3>6
  <2>4. QED
    BY <2>1, <2>2, <2>3 DEF IInv
<1>2. ASSUME NEW t \in Threads,
             \/ \E fn \in Functions : Begin(t, fn)
             \/ LoadTarget(t) \/ LoadCb(t) \/ Return(t) \/ End(t)
      PROVE  IInv'
  <2>1. TypeOK' /\ FiresOnlyRegistered'
    BY <1>2, TypeOfWalks, WalksKeepClean DEF IInv
  <2>2. UNCHANGED <<targetFn, cb, active, registered, op>>
    BY <1>2 DEF Begin, LoadTarget, LoadCb, Return, End, Step
  <2>3. Live' = Live
    BY <2>2 DEF Live
  <2>4. TableInv'
    BY <2>2, <2>3 DEF IInv, TableInv, OpAt, Contents, Counted, Holds
  <2>5. WalkInv'
    BY <1>2, BeginKeepsWalkInv, LoadTargetKeepsWalkInv, LoadCbKeepsWalkInv, ReturnKeepsWalkInv,
       EndKeepsWalkInv
  <2>6. QED
    BY <2>1, <2>4, <2>5 DEF IInv
<1>3. CASE UNCHANGED vars
  <2>1. Live' = Live
    BY <1>3 DEF vars, Live
  <2>2. TypeOK' /\ FiresOnlyRegistered'
    BY <1>3 DEF vars, IInv, TypeOK, FiresOnlyRegistered
  <2>3. TableInv'
    BY <1>3, <2>1 DEF vars, IInv, TableInv, OpAt, Contents, Counted, Holds
  <2>4. WalkInv'
    BY <1>3, <2>1 DEF vars, IInv, WalkInv, Walks, KnowsOverlap, Reachable, AtCb, Enough, Ahead,
       DueAhead, Holds
  <2>5. QED
    BY <2>2, <2>3, <2>4 DEF IInv
<1>4. QED
  BY <1>1, <1>2, <1>3 DEF Next

(* ... so that it always holds.                                            *)
LEMMA IInvAlways == Spec => []IInv
BY IInvInit, IInvStep, PTL DEF Spec

-----------------------------------------------------------------------------
(* The theorems.                                                           *)

(* Types.                                                                  *)
THEOREM TypeCorrect == Spec => []TypeOK
<1>1. IInv => TypeOK
  BY DEF IInv
<1>2. QED
  BY <1>1, IInvAlways, PTL

(* Between operations the table holds exactly what is registered, and      *)
(* counts it (game_thread.cpp:273-325). *)
THEOREM TableAlwaysExact == Spec => []TableExact
<1>1. IInv => TableExact
  BY DEF IInv, TableInv, Contents, Counted, TableExact
<1>2. QED
  BY <1>1, IInvAlways, PTL

(* A walk without a registration calls every callback that stays           *)
(* registered, wherever the holes are (game_thread.cpp:338-352). *)
THEOREM AllDueFired == Spec => []FiresAllDue
<1>1. ASSUME IInv, NEW t \in Threads, Ended(t), "register" \notin walk[t].overlapped
      PROVE  walk[t].due \subseteq walk[t].fired
  <2>1. Walks(t) /\ walk[t].at = "target"
    BY <1>1 DEF Ended, Walks
  <2>2. Enough(t) /\ DueAhead(t)
    BY <1>1, <2>1 DEF IInv, WalkInv
  <2>3. /\ walk[t].i \in 0 .. MaxObservers
        /\ walk[t].found \in Nat /\ walk[t].bound \in Nat
        /\ walk[t].due \subseteq Observers
    BY <1>1 DEF IInv, TypeOK, WalkRecords
  <2>4. IsFiniteSet(Ahead(walk[t].i)) /\ Cardinality(Ahead(walk[t].i)) \in Nat
    BY SlotSets, ObserverTableAssumption DEF Ahead, Live
  <2>5. walk[t].i >= MaxObservers \/ Cardinality(Ahead(walk[t].i)) = 0
    BY <1>1, <2>2, <2>3, <2>4, ObserverTableAssumption DEF Ended, MoreToSee, Enough
  <2>6. walk[t].i >= MaxObservers => Ahead(walk[t].i) = {}
    BY <2>3, ObserverTableAssumption DEF Ahead, Live, Slots
  <2>7. Ahead(walk[t].i) = {}
    BY <2>4, <2>5, <2>6, FS_EmptySet
  <2>8. \A p \in walk[t].due, j \in Slots : j >= walk[t].i => ~ Holds(j, p)
    BY <2>3, <2>7, ObserverTableAssumption DEF Ahead, Live, Holds
  <2>9. QED
    BY <1>1, <2>1, <2>2, <2>8 DEF DueAhead
<1>2. IInv => FiresAllDue
  BY <1>1 DEF FiresAllDue
<1>3. QED
  BY <1>2, IInvAlways, PTL

(* A walk that is not overlapped by both a registration and an             *)
(* unregistration calls nothing that was not registered for its function   *)
(* (game_thread.cpp:344-351). *)
THEOREM OnlyRegisteredFired == Spec => []FiresOnlyRegistered
<1>1. IInv => FiresOnlyRegistered
  BY DEF IInv
<1>2. QED
  BY <1>1, IInvAlways, PTL

-----------------------------------------------------------------------------
(* The dispatcher. *)

Frame == [stage : {"pump", "before", "original", "after", "task"}, task : Nat, nested : BOOLEAN]

(* How many tasks have been taken out of the queue.                        *)
Started == posted - Len(queue)

(* A stack on which the last task started, if any, is run by the only pump *)
(* there is.                                                               *)
TasksOfPump(s, started) ==
    /\ \A i \in 1..Len(s) : s[i].task = IF s[i].stage = "task" THEN started ELSE 0
    /\ \A i \in 1..Len(s) : s[i].stage = "task" => i > 1 /\ s[i - 1].stage = "pump"
    /\ \A i, j \in 1..Len(s) : s[i].stage = "pump" /\ s[j].stage = "pump" => i = j

OnlyCalls(s) == \A i \in 1..Len(s) : s[i].stage \notin {"pump", "task"} /\ s[i].task = 0

Typed ==
    /\ gameThreadId \in {NoThread, EngineGameThread}
    /\ queue \in Seq(Nat) /\ posted \in Nat /\ Len(queue) <= posted
    /\ inPump \in [EngineThreads -> BOOLEAN]
    /\ stack \in [EngineThreads -> Seq(Frame)]

(* The queue holds the tasks that have not been started, in their order.   *)
QueueInTurn == \A i \in 1..Len(queue) : queue[i] = Started + i

PumpMarked ==
    inPump[EngineGameThread] <=>
        \E i \in 1..Len(stack[EngineGameThread]) : stack[EngineGameThread][i].stage = "pump"

(* What has been started has ended, or is what the game thread is in.      *)
StartedEnds ==
    \A k \in 1..Started :
        k \in left \/ \E i \in 1..Len(stack[EngineGameThread]) : stack[EngineGameThread][i].task = k

DispatcherInv ==
    /\ Typed /\ QueueInTurn /\ PumpMarked /\ StartedEnds
    /\ TasksOfPump(stack[EngineGameThread], Started)
    /\ \A t \in EngineWorkers : OnlyCalls(stack[t])

-----------------------------------------------------------------------------
LEMMA DispatcherInitially == DispatcherInit => DispatcherInv
BY DispatcherAssumption
DEF DispatcherInit, DispatcherInv, Typed, QueueInTurn, PumpMarked, StartedEnds, TasksOfPump,
    OnlyCalls, Started, EngineThreads, NoThread

(* It follows from the invariant: the one task on the game thread is the   *)
(* last that was started.                                                  *)
LEMMA InTurn == DispatcherInv => OneAfterAnother
<1> SUFFICES ASSUME DispatcherInv, NEW t \in EngineThreads, NEW i \in TasksOn(t)
             PROVE  t = EngineGameThread /\ 1..(stack[t][i].task - 1) \subseteq left
  BY DEF OneAfterAnother
<1>1. i \in 1..Len(stack[t]) /\ stack[t][i].task # 0
  BY DEF TasksOn, DispatcherInv, Typed
<1>2. t = EngineGameThread
  BY <1>1 DEF DispatcherInv, OnlyCalls, EngineThreads
<1>3. stack[t][i].task = Started
  BY <1>1, <1>2 DEF DispatcherInv, TasksOfPump
<1>4. Started \in Nat
  BY DEF DispatcherInv, Typed, Started
<1>5. ASSUME NEW k \in 1..(Started - 1)
      PROVE  k \in left
  <2>1. \A j \in 1..Len(stack[EngineGameThread]) : stack[EngineGameThread][j].task # k
    BY <1>4, <1>5 DEF DispatcherInv, TasksOfPump
  <2> QED BY <1>4, <1>5, <2>1 DEF DispatcherInv, StartedEnds
<1> QED BY <1>2, <1>3, <1>4, <1>5

-----------------------------------------------------------------------------
(* Stacks.                                                                 *)

LEMMA TopOf ==
    ASSUME NEW S, NEW s \in Seq(S), s # <<>>
    PROVE  /\ Len(s) \in Nat \ {0} /\ Last(s) = s[Len(s)] /\ Last(s) \in S
           /\ Front(s) \in Seq(S) /\ Len(Front(s)) = Len(s) - 1
           /\ \A i \in 1..(Len(s) - 1) : Front(s)[i] = s[i]
<1> DEFINE n == Len(s)
<1>1. n \in Nat \ {0} /\ DOMAIN s = 1..n /\ \A i \in 1..n : s[i] \in S
  BY EmptySeq, LenProperties, ElementOfSeq
<1>2. Front(s) \in Seq(S) /\ Len(Front(s)) = n - 1 /\ \A i \in 1..(n - 1) : Front(s)[i] = s[i]
  BY <1>1, SubSeqProperties DEF Front
<1> QED BY <1>1, <1>2 DEF Last

(* A frame on top of a stack, of which the former top has perhaps noted    *)
(* that it has made a call.                                                *)
LEMMA PushOn ==
    ASSUME NEW s \in Seq(Frame), NEW c \in Seq(Frame), NEW f \in Frame, Len(c) = Len(s),
           \A i \in 1..Len(s) : c[i].stage = s[i].stage /\ c[i].task = s[i].task
    PROVE  /\ Append(c, f) \in Seq(Frame) /\ Len(Append(c, f)) = Len(s) + 1
           /\ Append(c, f)[Len(s) + 1] = f
           /\ \A i \in 1..Len(s) : /\ Append(c, f)[i].stage = s[i].stage
                                   /\ Append(c, f)[i].task = s[i].task
OBVIOUS

LEMMA CallingKeeps ==
    ASSUME Typed, NEW t \in EngineThreads
    PROVE  /\ Calling(t) \in Seq(Frame) /\ Len(Calling(t)) = Len(stack[t])
           /\ \A i \in 1..Len(stack[t]) : /\ Calling(t)[i].stage = stack[t][i].stage
                                          /\ Calling(t)[i].task = stack[t][i].task
<1>1. stack[t] \in Seq(Frame)
  BY DEF Typed
<1>2. CASE stack[t] = <<>>
  BY <1>1, <1>2 DEF Calling
<1>3. CASE stack[t] # <<>>
  <2>1. Len(stack[t]) \in Nat \ {0} /\ stack[t][Len(stack[t])] \in Frame
    BY <1>1, <1>3, TopOf
  <2>2. [stack[t][Len(stack[t])] EXCEPT !.nested = TRUE] \in Frame
    BY <2>1 DEF Frame
  <2>3. Calling(t) = [stack[t] EXCEPT ![Len(stack[t])] = [stack[t][Len(stack[t])] EXCEPT !.nested = TRUE]]
    BY <1>3 DEF Calling
  <2>4. Calling(t) \in Seq(Frame) /\ Len(Calling(t)) = Len(stack[t])
    BY <1>1, <2>1, <2>2, <2>3
  <2>5. ASSUME NEW i \in 1..Len(stack[t])
        PROVE  Calling(t)[i].stage = stack[t][i].stage /\ Calling(t)[i].task = stack[t][i].task
    <3>1. stack[t][i] \in Frame
      BY <1>1, <2>5
    <3> QED BY <1>1, <2>1, <2>3, <2>5, <3>1 DEF Frame
  <2> QED BY <2>4, <2>5
<1> QED BY <1>2, <1>3

-----------------------------------------------------------------------------
(* What a step of thread t does to the part of the invariant about stacks, *)
(* when the queue and what has ended stay.                                 *)

Quiet == UNCHANGED <<queue, posted, left>>
NoTask(s) == \A i \in 1..Len(s) : s[i].stage # "task"

(* Only the pump runs a task, so while it is on top none is run.           *)
LEMMA PumpOnTop ==
    ASSUME DispatcherInv, NEW t \in EngineThreads, At(t, {"pump"})
    PROVE  t = EngineGameThread /\ NoTask(stack[t])
<1>1. stack[t] \in Seq(Frame) /\ stack[t] # <<>>
  BY DEF DispatcherInv, Typed, At
<1>2. Len(stack[t]) \in Nat \ {0} /\ stack[t][Len(stack[t])].stage = "pump"
  BY <1>1, TopOf DEF At
<1>3. t = EngineGameThread
  BY <1>2 DEF DispatcherInv, OnlyCalls, EngineThreads
<1>4. ASSUME NEW i \in 1..Len(stack[t]), stack[t][i].stage = "task"
      PROVE  FALSE
  <2>1. i > 1 /\ stack[t][i - 1].stage = "pump"
    BY <1>3, <1>4 DEF DispatcherInv, TasksOfPump
  <2>2. i - 1 = Len(stack[t])
    BY <1>2, <1>3, <2>1 DEF DispatcherInv, TasksOfPump
  <2> QED BY <1>2, <2>2
<1> QED BY <1>3, <1>4 DEF NoTask

LEMMA TaskOnTop ==
    ASSUME DispatcherInv, NEW t \in EngineThreads, At(t, {"task"})
    PROVE  t = EngineGameThread /\ Last(stack[t]).task = Started
<1>1. stack[t] \in Seq(Frame) /\ stack[t] # <<>>
  BY DEF DispatcherInv, Typed, At
<1>2. Len(stack[t]) \in Nat \ {0} /\ Last(stack[t]) = stack[t][Len(stack[t])]
      /\ stack[t][Len(stack[t])].stage = "task"
  BY <1>1, TopOf DEF At
<1>3. t = EngineGameThread
  BY <1>2 DEF DispatcherInv, OnlyCalls, EngineThreads
<1> QED BY <1>2, <1>3 DEF DispatcherInv, TasksOfPump

(* A task is posted.                                                       *)
LEMMA PostKeeps ==
    ASSUME DispatcherInv, Post(posted + 1),
           UNCHANGED <<gameThreadId, inPump, stack, left>>
    PROVE  DispatcherInv'
<1>1. queue' \in Seq(Nat) /\ posted' \in Nat /\ Len(queue') = Len(queue) + 1 /\ Len(queue') <= posted'
  BY DEF DispatcherInv, Typed, Post
<1>2. Started' = Started /\ Started \in Nat
  BY <1>1 DEF DispatcherInv, Typed, Post, Started
<1>3. Typed'
  BY <1>1 DEF DispatcherInv, Typed
<1>4. QueueInTurn'
  <2> SUFFICES ASSUME NEW i \in 1..(Len(queue) + 1)
               PROVE  queue'[i] = Started + i
    BY <1>1, <1>2 DEF QueueInTurn
  <2>1. CASE i = Len(queue) + 1
    BY <2>1 DEF DispatcherInv, Typed, Post, Started
  <2>2. CASE i \in 1..Len(queue)
    BY <2>2 DEF DispatcherInv, Typed, Post, QueueInTurn
  <2> QED BY <2>1, <2>2, <1>1 DEF DispatcherInv, Typed
<1>5. PumpMarked' /\ StartedEnds'
  BY <1>2 DEF DispatcherInv, PumpMarked, StartedEnds
<1>6. TasksOfPump(stack[EngineGameThread], Started)' /\ (\A t \in EngineWorkers : OnlyCalls(stack[t]))'
  BY <1>2 DEF DispatcherInv
<1> QED BY <1>3, <1>4, <1>5, <1>6 DEF DispatcherInv

(* A worker's stack has only calls on it, before and after.                *)
LEMMA WorkerMoves ==
    ASSUME DispatcherInv, NEW t \in EngineWorkers, NEW s \in Seq(Frame), OnlyCalls(s),
           stack' = Replaced(t, s), Quiet, UNCHANGED <<gameThreadId, inPump>>
    PROVE  DispatcherInv'
<1>1. stack'[EngineGameThread] = stack[EngineGameThread] /\ EngineGameThread # t
  BY DispatcherAssumption DEF DispatcherInv, Typed, Replaced, EngineThreads
<1>2. Typed'
  BY DEF DispatcherInv, Typed, Replaced, Quiet, EngineThreads
<1>3. Started' = Started
  BY DEF Started, Quiet
<1>4. QueueInTurn' /\ PumpMarked' /\ StartedEnds' /\ TasksOfPump(stack[EngineGameThread], Started)'
  BY <1>1, <1>3 DEF DispatcherInv, QueueInTurn, PumpMarked, StartedEnds, Quiet
<1>5. \A u \in EngineWorkers : OnlyCalls(stack'[u])
  BY DEF DispatcherInv, Typed, Replaced, EngineThreads
<1> QED BY <1>2, <1>4, <1>5 DEF DispatcherInv

(* What the game thread's stack must be after a step that leaves the queue *)
(* alone.                                                                  *)
LEMMA GameThreadMoves ==
    ASSUME DispatcherInv, NEW s \in Seq(Frame), stack' = Replaced(EngineGameThread, s),
           gameThreadId' \in {NoThread, EngineGameThread},
           UNCHANGED <<queue, posted>>,
           inPump' \in [EngineThreads -> BOOLEAN],
           inPump'[EngineGameThread] <=> \E i \in 1..Len(s) : s[i].stage = "pump",
           TasksOfPump(s, Started),
           \A k \in 1..Started : k \in left' \/ \E i \in 1..Len(s) : s[i].task = k
    PROVE  DispatcherInv'
<1>1. stack'[EngineGameThread] = s
  BY DEF DispatcherInv, Typed, Replaced, EngineThreads
<1>2. Typed'
  BY DEF DispatcherInv, Typed, Replaced, EngineThreads
<1>3. Started' = Started
  BY DEF Started
<1>4. QueueInTurn' /\ PumpMarked' /\ StartedEnds' /\ TasksOfPump(stack[EngineGameThread], Started)'
  BY <1>1, <1>3 DEF DispatcherInv, QueueInTurn, PumpMarked, StartedEnds
<1>5. \A u \in EngineWorkers : OnlyCalls(stack'[u])
  BY DispatcherAssumption DEF DispatcherInv, Typed, Replaced, EngineThreads
<1> QED BY <1>2, <1>4, <1>5 DEF DispatcherInv

-----------------------------------------------------------------------------
(* One lemma for each kind of step.                                        *)

LEMMA DispatchKeeps ==
    ASSUME DispatcherInv, ~ WorkersFirst, NEW t \in EngineThreads, Dispatch(t)
    PROVE  DispatcherInv'
<1>1. gameThreadId' = EngineGameThread
      /\ \/ /\ Pumps(t, EngineGameThread)
            /\ stack' = Replaced(t, Append(Calling(t), Call("pump")))
            /\ inPump' = [inPump EXCEPT ![t] = TRUE]
         \/ /\ stack' = Replaced(t, Append(Calling(t), Call("before")))
            /\ UNCHANGED inPump
  BY DEF DispatcherInv, Typed, Dispatch
<1>2. Call("pump") \in Frame /\ Call("before") \in Frame
  BY DEF Call, Frame
<1>3. /\ Calling(t) \in Seq(Frame) /\ Len(Calling(t)) = Len(stack[t]) /\ Len(stack[t]) \in Nat
      /\ \A i \in 1..Len(stack[t]) : /\ Calling(t)[i].stage = stack[t][i].stage
                                     /\ Calling(t)[i].task = stack[t][i].task
  BY CallingKeeps DEF DispatcherInv, Typed
<1>4. ASSUME NEW f \in Frame, f.task = 0
      PROVE  /\ Append(Calling(t), f) \in Seq(Frame) /\ Len(Append(Calling(t), f)) = Len(stack[t]) + 1
             /\ Append(Calling(t), f)[Len(stack[t]) + 1] = f
             /\ \A i \in 1..Len(stack[t]) : /\ Append(Calling(t), f)[i].stage = stack[t][i].stage
                                            /\ Append(Calling(t), f)[i].task = stack[t][i].task
  BY <1>3, PushOn DEF DispatcherInv, Typed
<1>5. UNCHANGED <<queue, posted, left>>
  BY DEF Dispatch
<1>6. CASE t \in EngineWorkers
  <2>1. stack' = Replaced(t, Append(Calling(t), Call("before"))) /\ UNCHANGED inPump
    BY <1>1, <1>6, DispatcherAssumption DEF Pumps
  <2>2. OnlyCalls(Append(Calling(t), Call("before")))
    BY <1>2, <1>3, <1>4, <1>6 DEF DispatcherInv, OnlyCalls, Call
  <2>3. gameThreadId = EngineGameThread
    BY <1>6, DispatcherAssumption DEF Dispatch, DispatcherInv, Typed
  <2> QED BY <1>1, <1>2, <1>4, <1>5, <1>6, <2>1, <2>2, <2>3, WorkerMoves DEF Quiet, Call
<1>7. CASE t = EngineGameThread
  <2>1. ASSUME NEW stage \in {"pump", "before"},
               stage = "pump" => ~ inPump[t],
               stack' = Replaced(t, Append(Calling(t), Call(stage))),
               inPump' \in [EngineThreads -> BOOLEAN],
               inPump'[t] <=> inPump[t] \/ stage = "pump"
        PROVE  DispatcherInv'
    <3> DEFINE s == Append(Calling(t), Call(stage))
    <3>1. /\ s \in Seq(Frame) /\ Len(s) = Len(stack[t]) + 1 /\ s[Len(stack[t]) + 1] = Call(stage)
          /\ \A i \in 1..Len(stack[t]) : s[i].stage = stack[t][i].stage /\ s[i].task = stack[t][i].task
      BY <1>2, <1>4, <2>1 DEF Call
    <3> HIDE DEF s
    <3>2. s[Len(stack[t]) + 1].stage = stage /\ s[Len(stack[t]) + 1].task = 0
      BY <3>1 DEF Call
    <3>0. 1..Len(s) = 1..Len(stack[t]) \cup {Len(stack[t]) + 1}
      BY <1>3, <3>1
    <3>3. inPump'[t] <=> \E i \in 1..Len(s) : s[i].stage = "pump"
      <4>1. (\E i \in 1..Len(s) : s[i].stage = "pump")
              <=> (\E i \in 1..Len(stack[t]) : stack[t][i].stage = "pump") \/ stage = "pump"
        BY <3>0, <3>1, <3>2
      <4>2. inPump[t] <=> \E i \in 1..Len(stack[t]) : stack[t][i].stage = "pump"
        BY <1>7 DEF DispatcherInv, PumpMarked
      <4> QED BY <2>1, <4>1, <4>2
    <3>4. TasksOfPump(s, Started)
      <4>1. \A i \in 1..Len(s) : s[i].task = IF s[i].stage = "task" THEN Started ELSE 0
        BY <1>3, <1>7, <3>1, <3>2 DEF DispatcherInv, TasksOfPump
      <4>2. \A i \in 1..Len(s) : s[i].stage = "task" => i > 1 /\ s[i - 1].stage = "pump"
        <5> SUFFICES ASSUME NEW i \in 1..Len(s), s[i].stage = "task"
                     PROVE  i > 1 /\ s[i - 1].stage = "pump"
          OBVIOUS
        <5>1. i \in 1..Len(stack[t])
          BY <1>3, <3>1, <3>2
        <5>2. i > 1 /\ stack[t][i - 1].stage = "pump"
          BY <1>7, <3>1, <5>1 DEF DispatcherInv, TasksOfPump
        <5> QED BY <1>3, <3>1, <5>1, <5>2
      <4>3. \A i, j \in 1..Len(s) : s[i].stage = "pump" /\ s[j].stage = "pump" => i = j
        <5>1. CASE stage = "pump"
          <6>1. \A i \in 1..Len(stack[t]) : stack[t][i].stage # "pump"
            BY <1>7, <2>1, <5>1 DEF DispatcherInv, PumpMarked
          <6> QED BY <3>0, <3>1, <6>1
        <5>2. CASE stage # "pump"
          <6>1. \A i, j \in 1..Len(stack[t]) :
                    stack[t][i].stage = "pump" /\ stack[t][j].stage = "pump" => i = j
            BY <1>7 DEF DispatcherInv, TasksOfPump
          <6> QED BY <3>0, <3>1, <3>2, <5>2, <6>1
        <5> QED BY <5>1, <5>2
      <4> QED BY <4>1, <4>2, <4>3 DEF TasksOfPump
    <3>5. \A k \in 1..Started : k \in left' \/ \E i \in 1..Len(s) : s[i].task = k
      <4> SUFFICES ASSUME NEW k \in 1..Started, k \notin left
                   PROVE  \E i \in 1..Len(s) : s[i].task = k
        BY <1>5
      <4>1. PICK i \in 1..Len(stack[t]) : stack[t][i].task = k
        BY <1>7 DEF DispatcherInv, StartedEnds
      <4> QED BY <3>0, <3>1, <4>1
    <3>6. stack' = Replaced(t, s)
      BY <2>1 DEF s
    <3> QED BY <1>1, <1>5, <1>7, <2>1, <3>1, <3>3, <3>4, <3>5, <3>6, GameThreadMoves
  <2> QED BY <1>1, <1>7, <2>1 DEF DispatcherInv, Typed, Pumps
<1> QED BY <1>6, <1>7 DEF EngineThreads

LEMMA PumpNextKeeps ==
    ASSUME DispatcherInv, NEW t \in EngineThreads, PumpNext(t)
    PROVE  DispatcherInv'
<1>1. At(t, {"pump"}) /\ queue # <<>> /\ queue' = Tail(queue)
      /\ stack' = Replaced(t, Append(stack[t], Running(Head(queue))))
      /\ UNCHANGED <<gameThreadId, posted, inPump, left>>
  BY DEF PumpNext
<1>2. t = EngineGameThread /\ NoTask(stack[t])
  BY <1>1, PumpOnTop
<1>3. /\ stack[t] \in Seq(Frame) /\ Len(stack[t]) \in Nat \ {0}
      /\ stack[t][Len(stack[t])].stage = "pump"
  BY <1>1, TopOf DEF At, DispatcherInv, Typed
<1>4. /\ queue' \in Seq(Nat) /\ Len(queue') = Len(queue) - 1 /\ Len(queue) \in Nat \ {0}
      /\ \A i \in 1..Len(queue') : queue'[i] = queue[i + 1]
  BY <1>1 DEF DispatcherInv, Typed
<1>5. Started \in Nat /\ Started' = Started + 1 /\ Head(queue) = Started + 1
  BY <1>1, <1>4 DEF DispatcherInv, Typed, Started, QueueInTurn
<1> DEFINE s == Append(stack[t], Running(Head(queue)))
<1>6. /\ s \in Seq(Frame) /\ Len(s) = Len(stack[t]) + 1
      /\ s[Len(stack[t]) + 1].stage = "task" /\ s[Len(stack[t]) + 1].task = Started + 1
      /\ \A i \in 1..Len(stack[t]) : s[i] = stack[t][i]
  BY <1>3, <1>5 DEF Running, Frame
<1> HIDE DEF s
<1>7. stack' = [stack EXCEPT ![t] = s] /\ stack'[t] = s
  BY <1>1 DEF s, Replaced, DispatcherInv, Typed
<1>8. Typed'
  <2>1. posted \in Nat /\ Len(queue) <= posted /\ Len(queue') <= posted
    BY <1>4 DEF DispatcherInv, Typed
  <2>2. stack' \in [EngineThreads -> Seq(Frame)]
    BY <1>6, <1>7 DEF DispatcherInv, Typed
  <2> QED BY <1>1, <1>4, <2>1, <2>2 DEF DispatcherInv, Typed
<1>9. QueueInTurn'
  BY <1>4, <1>5 DEF DispatcherInv, QueueInTurn
<1>10. PumpMarked'
  <2>1. \E i \in 1..Len(stack[t]) : stack[t][i].stage = "pump"
    BY <1>3
  <2>2. \E i \in 1..Len(s) : s[i].stage = "pump"
    <3>1. Len(stack[t]) \in 1..Len(s) /\ s[Len(stack[t])] = stack[t][Len(stack[t])]
      BY <1>3, <1>6
    <3> QED BY <1>3, <3>1
  <2> QED BY <1>1, <1>2, <1>7, <2>1, <2>2 DEF DispatcherInv, PumpMarked
<1>11. TasksOfPump(s, Started + 1)
  <2>1. \A i \in 1..Len(s) : s[i].task = IF s[i].stage = "task" THEN Started + 1 ELSE 0
    BY <1>2, <1>3, <1>6 DEF DispatcherInv, TasksOfPump, NoTask
  <2>2. \A i \in 1..Len(s) : s[i].stage = "task" => i > 1 /\ s[i - 1].stage = "pump"
    <3> SUFFICES ASSUME NEW i \in 1..Len(s), s[i].stage = "task"
                 PROVE  i > 1 /\ s[i - 1].stage = "pump"
      OBVIOUS
    <3>1. i = Len(stack[t]) + 1
      BY <1>2, <1>3, <1>6 DEF NoTask
    <3>2. s[Len(stack[t])] = stack[t][Len(stack[t])]
      BY <1>3, <1>6
    <3> QED BY <1>3, <3>1, <3>2
  <2>3. \A i, j \in 1..Len(s) : s[i].stage = "pump" /\ s[j].stage = "pump" => i = j
    <3>1. \A i, j \in 1..Len(stack[t]) :
              stack[t][i].stage = "pump" /\ stack[t][j].stage = "pump" => i = j
      BY <1>2 DEF DispatcherInv, TasksOfPump
    <3>2. 1..Len(s) = 1..Len(stack[t]) \cup {Len(stack[t]) + 1}
      BY <1>3, <1>6
    <3> QED BY <1>6, <3>1, <3>2
  <2> QED BY <2>1, <2>2, <2>3 DEF TasksOfPump
<1>12. StartedEnds'
  <2> SUFFICES ASSUME NEW k \in 1..(Started + 1)
               PROVE  k \in left \/ \E i \in 1..Len(s) : s[i].task = k
    BY <1>1, <1>2, <1>5, <1>7 DEF StartedEnds
  <2>1. CASE k = Started + 1
    BY <1>3, <1>6, <2>1
  <2>2. CASE k \in 1..Started
    <3>1. \A i \in 1..Len(stack[t]) : stack[t][i].task # k
      BY <1>2, <2>2 DEF DispatcherInv, TasksOfPump, NoTask
    <3> QED BY <1>2, <2>2, <3>1 DEF DispatcherInv, StartedEnds
  <2> QED BY <1>5, <2>1, <2>2
<1>13. \A u \in EngineWorkers : OnlyCalls(stack'[u])
  BY <1>2, <1>7, DispatcherAssumption DEF DispatcherInv, Typed, EngineThreads
<1> QED BY <1>2, <1>5, <1>7, <1>8, <1>9, <1>10, <1>11, <1>12, <1>13 DEF DispatcherInv

(* A stack with another frame for its top.                                 *)
LEMMA ReplaceTop ==
    ASSUME NEW s \in Seq(Frame), s # <<>>, NEW f \in Frame
    PROVE  /\ Append(Front(s), f) \in Seq(Frame) /\ Len(Append(Front(s), f)) = Len(s)
           /\ Append(Front(s), f)[Len(s)] = f
           /\ \A i \in 1..(Len(s) - 1) : Append(Front(s), f)[i] = s[i]
<1>1. /\ Len(s) \in Nat \ {0} /\ Front(s) \in Seq(Frame) /\ Len(Front(s)) = Len(s) - 1
      /\ \A i \in 1..(Len(s) - 1) : Front(s)[i] = s[i]
  BY TopOf
<1> QED BY <1>1

(* What is left of a stack without its top.                                *)
LEMMA DropTop ==
    ASSUME NEW s \in Seq(Frame), NEW c \in Seq(Frame), Len(c) = Len(s) - 1, Len(s) \in Nat \ {0},
           \A i \in 1..(Len(s) - 1) : c[i] = s[i]
    PROVE  /\ \A n \in Nat : TasksOfPump(s, n) => TasksOfPump(c, n)
           /\ s[Len(s)].stage # "pump" =>
                ((\E i \in 1..Len(c) : c[i].stage = "pump") <=> \E i \in 1..Len(s) : s[i].stage = "pump")
<1>1. 1..Len(s) = 1..Len(c) \cup {Len(s)}
  OBVIOUS
<1>2. ASSUME NEW n \in Nat, TasksOfPump(s, n)
      PROVE  TasksOfPump(c, n)
  <2>1. \A i \in 1..Len(c) : c[i].task = IF c[i].stage = "task" THEN n ELSE 0
    BY <1>1, <1>2 DEF TasksOfPump
  <2>2. \A i \in 1..Len(c) : c[i].stage = "task" => i > 1 /\ c[i - 1].stage = "pump"
    <3> SUFFICES ASSUME NEW i \in 1..Len(c), c[i].stage = "task"
                 PROVE  i > 1 /\ c[i - 1].stage = "pump"
      OBVIOUS
    <3>1. i > 1 /\ s[i - 1].stage = "pump"
      BY <1>1, <1>2 DEF TasksOfPump
    <3> QED BY <1>1, <3>1
  <2>3. \A i, j \in 1..Len(c) : c[i].stage = "pump" /\ c[j].stage = "pump" => i = j
    BY <1>1, <1>2 DEF TasksOfPump
  <2> QED BY <2>1, <2>2, <2>3 DEF TasksOfPump
<1>3. ASSUME s[Len(s)].stage # "pump"
      PROVE  (\E i \in 1..Len(c) : c[i].stage = "pump") <=> \E i \in 1..Len(s) : s[i].stage = "pump"
  BY <1>1, <1>3
<1> QED BY <1>2, <1>3

(* A task ends, either way.                                                *)
LEMMA TaskEndsKeeps ==
    ASSUME DispatcherInv, NEW t \in EngineThreads, At(t, {"task"}), Leaves(t),
           left' = left \cup {Last(stack[t]).task},
           UNCHANGED <<gameThreadId, queue, posted, inPump>>
    PROVE  DispatcherInv'
<1>1. t = EngineGameThread /\ Last(stack[t]).task = Started
  BY TaskOnTop
<1>2. stack[t] \in Seq(Frame) /\ stack[t] # <<>>
  BY DEF DispatcherInv, Typed, At
<1> DEFINE s == Front(stack[t])
<1>3. /\ Len(stack[t]) \in Nat \ {0} /\ Last(stack[t]) = stack[t][Len(stack[t])]
      /\ s \in Seq(Frame) /\ Len(s) = Len(stack[t]) - 1
      /\ \A i \in 1..(Len(stack[t]) - 1) : s[i] = stack[t][i]
  BY <1>2, TopOf
<1>4. stack' = Replaced(t, s)
  BY DEF Leaves
<1> HIDE DEF s
<1>5. stack[t][Len(stack[t])].stage = "task"
  BY <1>3 DEF At
<1>6. inPump'[t] <=> \E i \in 1..Len(s) : s[i].stage = "pump"
  <2>1. (\E i \in 1..Len(s) : s[i].stage = "pump")
          <=> \E i \in 1..Len(stack[t]) : stack[t][i].stage = "pump"
    BY <1>2, <1>3, <1>5, DropTop
  <2>2. inPump[t] <=> \E i \in 1..Len(stack[t]) : stack[t][i].stage = "pump"
    BY <1>1 DEF DispatcherInv, PumpMarked
  <2> QED BY <2>1, <2>2
<1>7. TasksOfPump(s, Started)
  <2>1. Started \in Nat
    BY DEF DispatcherInv, Typed, Started
  <2> QED BY <1>1, <1>2, <1>3, <2>1, DropTop DEF DispatcherInv
<1>8. \A k \in 1..Started : k \in left'
  <2> SUFFICES ASSUME NEW k \in 1..Started, k # Started
               PROVE  k \in left
    BY <1>1
  <2>1. \A i \in 1..Len(stack[t]) : stack[t][i].task # k
    BY <1>1 DEF DispatcherInv, TasksOfPump
  <2> QED BY <1>1, <2>1 DEF DispatcherInv, StartedEnds
<1>9. gameThreadId' \in {NoThread, EngineGameThread} /\ inPump' \in [EngineThreads -> BOOLEAN]
  BY DEF DispatcherInv, Typed
<1> QED BY <1>1, <1>3, <1>4, <1>6, <1>7, <1>8, <1>9, GameThreadMoves

(* A call ends, cancelled or over.                                         *)
LEMMA CallEndsKeeps ==
    ASSUME DispatcherInv, NEW t \in EngineThreads, At(t, {"before", "original", "after"}), Leaves(t),
           UNCHANGED <<gameThreadId, queue, posted, inPump, left>>
    PROVE  DispatcherInv'
<1>1. stack[t] \in Seq(Frame) /\ stack[t] # <<>>
  BY DEF DispatcherInv, Typed, At
<1> DEFINE s == Front(stack[t])
<1>2. /\ Len(stack[t]) \in Nat \ {0} /\ Last(stack[t]) = stack[t][Len(stack[t])]
      /\ s \in Seq(Frame) /\ Len(s) = Len(stack[t]) - 1
      /\ \A i \in 1..(Len(stack[t]) - 1) : s[i] = stack[t][i]
  BY <1>1, TopOf
<1>3. stack' = Replaced(t, s)
  BY DEF Leaves
<1> HIDE DEF s
<1>4. stack[t][Len(stack[t])].stage \in {"before", "original", "after"}
  BY <1>2 DEF At
<1>5. CASE t \in EngineWorkers
  <2>1. OnlyCalls(s)
    BY <1>2, <1>5 DEF DispatcherInv, OnlyCalls
  <2> QED BY <1>2, <1>3, <1>5, <2>1, WorkerMoves DEF Quiet
<1>6. CASE t = EngineGameThread
  <2>1. inPump'[t] <=> \E i \in 1..Len(s) : s[i].stage = "pump"
    <3>1. (\E i \in 1..Len(s) : s[i].stage = "pump")
            <=> \E i \in 1..Len(stack[t]) : stack[t][i].stage = "pump"
      BY <1>1, <1>2, <1>4, DropTop
    <3>2. inPump[t] <=> \E i \in 1..Len(stack[t]) : stack[t][i].stage = "pump"
      BY <1>6 DEF DispatcherInv, PumpMarked
    <3> QED BY <3>1, <3>2
  <2>2. TasksOfPump(s, Started)
    <3>1. Started \in Nat
      BY DEF DispatcherInv, Typed, Started
    <3> QED BY <1>1, <1>2, <1>6, <3>1, DropTop DEF DispatcherInv
  <2>3. stack[t][Len(stack[t])].task = 0
    BY <1>2, <1>4, <1>6 DEF DispatcherInv, TasksOfPump
  <2>4. \A k \in 1..Started : k \in left' \/ \E i \in 1..Len(s) : s[i].task = k
    <3> SUFFICES ASSUME NEW k \in 1..Started, k \notin left
                 PROVE  \E i \in 1..Len(s) : s[i].task = k
      OBVIOUS
    <3>1. PICK i \in 1..Len(stack[t]) : stack[t][i].task = k
      BY <1>6 DEF DispatcherInv, StartedEnds
    <3> QED BY <1>2, <2>3, <3>1
  <2>5. gameThreadId' \in {NoThread, EngineGameThread} /\ inPump' \in [EngineThreads -> BOOLEAN]
    BY DEF DispatcherInv, Typed
  <2> QED BY <1>2, <1>3, <1>6, <2>1, <2>2, <2>4, <2>5, GameThreadMoves
<1> QED BY <1>5, <1>6 DEF EngineThreads

(* A call goes on to its next stage; the one that was in the pump has left *)
(* it.                                                                     *)
LEMMA CallGoesOnKeeps ==
    ASSUME DispatcherInv, NEW t \in EngineThreads, At(t, {"before", "original", "pump"}),
           NEW stage \in {"before", "original", "after"}, GoesTo(t, stage),
           inPump' = IF At(t, {"pump"}) THEN [inPump EXCEPT ![t] = FALSE] ELSE inPump,
           UNCHANGED <<gameThreadId, queue, posted, left>>
    PROVE  DispatcherInv'
<1>1. stack[t] \in Seq(Frame) /\ stack[t] # <<>>
  BY DEF DispatcherInv, Typed, At
<1> DEFINE f == [Last(stack[t]) EXCEPT !.stage = stage]
           s == Append(Front(stack[t]), f)
<1>2. /\ s \in Seq(Frame) /\ Len(s) = Len(stack[t]) /\ Len(s) \in Nat \ {0}
      /\ s[Len(s)].stage = stage /\ s[Len(s)].task = stack[t][Len(s)].task
      /\ \A i \in 1..(Len(s) - 1) : s[i] = stack[t][i]
  <2>1. Len(stack[t]) \in Nat \ {0} /\ Last(stack[t]) = stack[t][Len(stack[t])] /\ Last(stack[t]) \in Frame
    BY <1>1, TopOf
  <2>2. f \in Frame /\ f.stage = stage /\ f.task = Last(stack[t]).task
    BY <2>1 DEF Frame
  <2> HIDE DEF f
  <2>3. s \in Seq(Frame) /\ Len(s) = Len(stack[t]) /\ s[Len(stack[t])] = f
    BY <1>1, <2>2, ReplaceTop
  <2>4. \A i \in 1..(Len(stack[t]) - 1) : s[i] = stack[t][i]
    BY <1>1, <2>2, ReplaceTop
  <2> QED BY <2>1, <2>2, <2>3, <2>4
<1>3. stack' = Replaced(t, s)
  BY DEF GoesTo
<1> HIDE DEF s
<1>4. stack[t][Len(s)].stage \in {"before", "original", "pump"}
      /\ (At(t, {"pump"}) <=> stack[t][Len(s)].stage = "pump")
  BY <1>1, <1>2, TopOf DEF At
<1>5. CASE t \in EngineWorkers
  <2>1. OnlyCalls(s)
    BY <1>2, <1>5 DEF DispatcherInv, OnlyCalls
  <2>2. ~ At(t, {"pump"})
    BY <1>2, <1>4, <1>5 DEF DispatcherInv, OnlyCalls
  <2> QED BY <1>2, <1>3, <1>5, <2>1, <2>2, WorkerMoves DEF Quiet
<1>6. CASE t = EngineGameThread
  <2>1. stack[t][Len(s)].task = 0
    BY <1>2, <1>4, <1>6 DEF DispatcherInv, TasksOfPump
  <2>2. inPump'[t] <=> \E i \in 1..Len(s) : s[i].stage = "pump"
    <3>1. inPump[t] <=> \E i \in 1..Len(stack[t]) : stack[t][i].stage = "pump"
      BY <1>6 DEF DispatcherInv, PumpMarked
    <3>2. CASE stack[t][Len(s)].stage = "pump"
      <4>1. ~ inPump'[t]
        BY <1>4, <3>2 DEF DispatcherInv, Typed
      <4>2. \A i \in 1..Len(s) : s[i].stage # "pump"
        BY <1>2, <1>6, <3>2 DEF DispatcherInv, TasksOfPump
      <4> QED BY <4>1, <4>2
    <3>3. CASE stack[t][Len(s)].stage # "pump"
      <4>1. (\E i \in 1..Len(s) : s[i].stage = "pump")
              <=> \E i \in 1..Len(stack[t]) : stack[t][i].stage = "pump"
        BY <1>2, <3>3
      <4>2. inPump'[t] <=> inPump[t]
        BY <1>4, <3>3
      <4> QED BY <3>1, <4>1, <4>2
    <3> QED BY <3>2, <3>3
  <2>3. TasksOfPump(s, Started)
    <3>1. \A i \in 1..Len(s) : s[i].task = IF s[i].stage = "task" THEN Started ELSE 0
      BY <1>2, <1>6, <2>1 DEF DispatcherInv, TasksOfPump
    <3>2. \A i \in 1..Len(s) : s[i].stage = "task" => i > 1 /\ s[i - 1].stage = "pump"
      BY <1>2, <1>6 DEF DispatcherInv, TasksOfPump
    <3>3. \A i, j \in 1..Len(s) : s[i].stage = "pump" /\ s[j].stage = "pump" => i = j
      BY <1>2, <1>6 DEF DispatcherInv, TasksOfPump
    <3> QED BY <3>1, <3>2, <3>3 DEF TasksOfPump
  <2>4. \A k \in 1..Started : k \in left' \/ \E i \in 1..Len(s) : s[i].task = k
    <3> SUFFICES ASSUME NEW k \in 1..Started, k \notin left
                 PROVE  \E i \in 1..Len(s) : s[i].task = k
      OBVIOUS
    <3>1. PICK i \in 1..Len(stack[t]) : stack[t][i].task = k
      BY <1>6 DEF DispatcherInv, StartedEnds
    <3> QED BY <1>2, <2>1, <3>1
  <2>5. gameThreadId' \in {NoThread, EngineGameThread} /\ inPump' \in [EngineThreads -> BOOLEAN]
    BY DEF DispatcherInv, Typed
  <2> QED BY <1>2, <1>3, <1>6, <2>2, <2>3, <2>4, <2>5, GameThreadMoves
<1> QED BY <1>5, <1>6 DEF EngineThreads

-----------------------------------------------------------------------------
LEMMA DispatcherStep ==
    ASSUME DispatcherInv, ~ WorkersFirst, [DispatcherNext]_dispatcherVars
    PROVE  DispatcherInv'
<1>1. ASSUME UNCHANGED <<gameThreadId, queue, posted, inPump, stack, left>>
      PROVE  DispatcherInv'
  <2>1. Typed' /\ QueueInTurn' /\ Started' = Started
    BY <1>1 DEF DispatcherInv, Typed, QueueInTurn, Started
  <2>2. PumpMarked' /\ StartedEnds'
    BY <1>1, <2>1 DEF DispatcherInv, PumpMarked, StartedEnds
  <2>3. TasksOfPump(stack[EngineGameThread], Started)' /\ (\A t \in EngineWorkers : OnlyCalls(stack[t]))'
    BY <1>1, <2>1 DEF DispatcherInv
  <2> QED BY <2>1, <2>2, <2>3 DEF DispatcherInv
<1>2. ASSUME NEW t \in EngineThreads, CallStep(t)
      PROVE  DispatcherInv'
  <2>1. CASE Dispatch(t)
    BY <2>1, DispatchKeeps
  <2>2. CASE Cancel(t)
    BY <2>2, CallEndsKeeps DEF Cancel, At
  <2>3. CASE Forward(t)
    BY <2>3, CallGoesOnKeeps DEF Forward, At
  <2>4. CASE Returned(t)
    BY <2>4, CallGoesOnKeeps DEF Returned, At
  <2>5. CASE Over(t)
    BY <2>5, CallEndsKeeps DEF Over, At
  <2> QED BY <1>2, <2>1, <2>2, <2>3, <2>4, <2>5 DEF CallStep
<1>3. ASSUME NEW t \in EngineThreads, TaskStep(t)
      PROVE  DispatcherInv'
  <2>1. CASE PumpNext(t)
    BY <2>1, PumpNextKeeps
  <2>2. CASE PumpEnds(t)
    BY <2>2, CallGoesOnKeeps DEF PumpEnds, At
  <2>3. CASE TaskPosts(t)
    BY <2>3, PostKeeps DEF TaskPosts
  <2>4. CASE TaskReturns(t)
    BY <2>4, TaskEndsKeeps DEF TaskReturns
  <2>5. CASE TaskFaults(t)
    BY <2>5, TaskEndsKeeps DEF TaskFaults
  <2> QED BY <1>3, <2>1, <2>2, <2>3, <2>4, <2>5 DEF TaskStep
<1>4. ASSUME TimelineStep
      PROVE  DispatcherInv'
  <2>1. CASE BootRound \/ PostTick
    BY <2>1, PostKeeps DEF BootRound, PostTick
  <2>2. CASE SpinEnds \/ BootGivesUp \/ SessionStart \/ LoopEnds
    BY <1>1, <2>2 DEF SpinEnds, BootGivesUp, SessionStart, LoopEnds, taskVars
  <2> QED BY <1>4, <2>1, <2>2 DEF TimelineStep
<1>5. ASSUME Install \/ ShutdownStep
      PROVE  DispatcherInv'
  BY <1>1, <1>5 DEF Install, ShutdownStep, Close, StopSession, Uninstall, taskVars
<1>6. ASSUME UNCHANGED dispatcherVars
      PROVE  DispatcherInv'
  BY <1>1, <1>6 DEF dispatcherVars, taskVars
<1> QED BY <1>2, <1>3, <1>4, <1>5, <1>6 DEF DispatcherNext

(* Where the engine's game thread makes the first call, a task is run on   *)
(* it and after all that were posted before it have ended, however many    *)
(* workers call, however calls and tasks nest, and whatever faults         *)
(* (game_thread.cpp:400-404, 470-475).                                     *)
THEOREM TasksInTurn ==
    ASSUME ~ WorkersFirst
    PROVE  DispatcherSpec => []OneAfterAnother
<1>1. DispatcherInit => DispatcherInv
  BY DispatcherInitially
<1>2. DispatcherInv /\ [DispatcherNext]_dispatcherVars => DispatcherInv'
  BY DispatcherStep
<1>3. DispatcherInv => OneAfterAnother
  BY InTurn
<1> QED BY <1>1, <1>2, <1>3, PTL DEF DispatcherSpec

-----------------------------------------------------------------------------
(* The prop tracker. *)

(* Actors have addresses, and no two of those alive have the same.  An     *)
(* actor that is in the registry has one too, dead or alive. *)
Placed ==
    /\ \A a \in live : addr[a] # NoAddr
    /\ \A a, b \in live : addr[a] = addr[b] => a = b
    /\ \A e \in Registered : addr[element[e]] # NoAddr
    /\ queued \subseteq Registered

(* The id that an observer has struck off is not given out again before it *)
(* has been taken. *)
StruckThere ==
    /\ struck # NoEid => struck \in Registered
    /\ dying = NoAct => struck = NoEid

(* The element being marked is its actor's, in the manager, and nobody     *)
(* else knows of it. *)
MarkOwn ==
    marking # NoMark =>
        /\ marking.act \in Acts /\ marking.eid \in InManager \ {struck}
        /\ element[marking.eid] = marking.act
        /\ \A x \in Addrs : eidOf[x] # marking.eid

(* The game thread does one thing at a time. *)
OneThing ==
    /\ scanning => marking = NoMark /\ seedWalk = {}
    /\ scanning => scan \subseteq Registered
    /\ taking # NoAct => marking = NoMark /\ seedWalk = {} /\ ~ scanning

TrackerInv ==
    TrackerTypeOK /\ Placed /\ StruckThere /\ MarkOwn /\ OneThing /\ MapOwned

-----------------------------------------------------------------------------
LEMMA TrackerConstants ==
    /\ NoEid \notin Eids /\ NoAct \notin Acts /\ NoMark.eid = NoEid
    /\ Eids \subseteq Nat /\ Acts \subseteq Nat
    /\ \A a \in Acts, e \in Eids : [act |-> a, eid |-> e] # NoMark
BY PropTrackerAssumption DEF Eids, Acts, NoAct, NoMark

LEMMA MinOfEids ==
    ASSUME NEW S \in SUBSET Eids, S # {}
    PROVE  Min(S) \in S
<1>1. \E x \in S : \A y \in S : x =< y
  BY TrackerConstants, LeastOfNaturals
<1> QED BY <1>1 DEF Min

LEMMA TrackerInitInv == TrackerInit => TrackerInv
<1> SUFFICES ASSUME TrackerInit PROVE TrackerInv
  OBVIOUS
<1> USE DEF TrackerInit
<1>1. TrackerTypeOK
  <2>1. /\ addr \in [Acts -> Addrs \cup {NoAddr}]
        /\ eidOf \in [Addrs -> Eids \cup {NoEid}]
        /\ element \in [Eids -> Acts \cup {NoAct}]
    OBVIOUS
  <2>2. evicted \in 0 .. EvictCap
    BY PropTrackerAssumption
  <2> QED BY <2>1, <2>2 DEF TrackerTypeOK
<1>2. Registered = {} /\ InManager = {}
  BY DEF Registered, InManager
<1>3. Placed /\ StruckThere /\ MarkOwn /\ OneThing
  BY <1>2 DEF Placed, StruckThere, MarkOwn, OneThing
<1>4. MapOwned
  BY <1>2 DEF MapOwned
<1> QED BY <1>1, <1>3, <1>4 DEF TrackerInv

(* What BeginMark takes is free, and whoever looks at the registry sees    *)
(* one element more. *)
LEMMA Marked ==
    ASSUME TrackerInv, marking = NoMark, NEW a \in live, BeginMark(a), UNCHANGED <<queued, struck, eidOf>>
    PROVE  \/ UNCHANGED <<element, marking>>
           \/ \E e \in Eids \ Registered :
                /\ e \notin InManager /\ e # struck /\ \A x \in Addrs : eidOf[x] # e
                /\ element' = [element EXCEPT ![e] = a]
                /\ marking' = [act |-> a, eid |-> e]
                /\ Registered' = Registered \cup {e} /\ InManager' = InManager \cup {e}
<1>1. TrackerTypeOK /\ Placed /\ StruckThere /\ MapOwned
  BY DEF TrackerInv
<1>2. ASSUME Registered # Eids, eidOf[addr[a]] = NoEid
      PROVE  \E e \in Eids \ Registered :
                /\ e \notin InManager /\ e # struck /\ \A x \in Addrs : eidOf[x] # e
                /\ element' = [element EXCEPT ![e] = a]
                /\ marking' = [act |-> a, eid |-> e]
                /\ Registered' = Registered \cup {e} /\ InManager' = InManager \cup {e}
  <2> DEFINE e == Min(Eids \ Registered)
  <2>1. e \in Eids \ Registered
    BY <1>2, MinOfEids DEF Registered
  <2>2. element' = [element EXCEPT ![e] = a] /\ marking' = [act |-> a, eid |-> e]
    BY <1>2 DEF BeginMark
  <2> HIDE DEF e
  <2>3. e \notin InManager /\ e \notin queued /\ e # struck
    BY <1>1, <2>1, TrackerConstants DEF InManager, Placed, StruckThere
  <2>4. \A x \in Addrs : eidOf[x] # e
    BY <1>1, <2>1, <2>3, TrackerConstants DEF MapOwned
  <2>5. a # NoAct /\ a \in Acts
    BY <1>1, TrackerConstants DEF TrackerTypeOK
  <2>6. Registered' = Registered \cup {e}
    BY <1>1, <2>1, <2>2, <2>5 DEF Registered, TrackerTypeOK
  <2>7. InManager' = InManager \cup {e}
    BY <2>3, <2>6 DEF InManager
  <2> QED BY <2>1, <2>2, <2>3, <2>4, <2>6, <2>7
<1> QED BY <1>2 DEF BeginMark

(* Marking an actor that lives keeps the invariant's parts about the map. *)
LEMMA MarkKeeps ==
    ASSUME TrackerInv, marking = NoMark, NEW a \in live, BeginMark(a),
           UNCHANGED <<addr, live, dying, eidOf, queued, struck>>
    PROVE  /\ Placed' /\ StruckThere' /\ MarkOwn' /\ MapOwned'
           /\ Registered \subseteq Registered'
           /\ element' \in [Eids -> Acts \cup {NoAct}]
           /\ marking' \in [act : Acts, eid : Eids] \cup {NoMark}
           /\ passedOver' \subseteq live
<1>0. TrackerTypeOK /\ Placed /\ StruckThere /\ MarkOwn /\ MapOwned
  BY DEF TrackerInv
<1>p. passedOver' \subseteq live
  BY <1>0 DEF BeginMark, TrackerTypeOK
<1>1. CASE UNCHANGED <<element, marking>>
  <2>1. Registered' = Registered /\ InManager' = InManager
    BY <1>1 DEF Registered, InManager
  <2> QED BY <1>0, <1>p, <1>1, <2>1 DEF Placed, StruckThere, MarkOwn, MapOwned, TrackerTypeOK
<1>2. ASSUME NEW e \in Eids \ Registered,
             e \notin InManager, e # struck, \A x \in Addrs : eidOf[x] # e,
             element' = [element EXCEPT ![e] = a], marking' = [act |-> a, eid |-> e],
             Registered' = Registered \cup {e}, InManager' = InManager \cup {e}
      PROVE  /\ Placed' /\ StruckThere' /\ MarkOwn' /\ MapOwned'
             /\ Registered \subseteq Registered'
             /\ element' \in [Eids -> Acts \cup {NoAct}]
             /\ marking' \in [act : Acts, eid : Eids] \cup {NoMark}
  <2>1. a \in Acts /\ marking'.eid = e /\ marking'.act = a /\ element'[e] = a
    BY <1>0, <1>2 DEF TrackerTypeOK
  <2>2. \A f \in Eids : f # e => element'[f] = element[f]
    BY <1>0, <1>2 DEF TrackerTypeOK
  <2>3. Registered \subseteq Eids /\ InManager \subseteq Eids
    BY DEF Registered, InManager
  <2>4. Placed'
    BY <1>0, <1>2, <2>1, <2>2, <2>3 DEF Placed
  <2>5. StruckThere'
    BY <1>0, <1>2 DEF StruckThere
  <2>6. MarkOwn'
    BY <1>2, <2>1 DEF MarkOwn
  <2>7. MapOwned'
    <3>1. ASSUME NEW x \in Addrs, eidOf[x] # NoEid
          PROVE  eidOf[x] \in InManager' \ {struck} /\ addr[element'[eidOf[x]]] = x
      BY <1>0, <1>2, <2>2, <2>3, <3>1 DEF MapOwned
    <3>2. ASSUME NEW f \in InManager' \ {struck, e}, element'[f] \in live \ {dying}
          PROVE  eidOf[addr[element'[f]]] = f
      <4>1. f \in InManager \ {struck, marking.eid} /\ element'[f] = element[f]
        BY <1>2, <2>2, <2>3, <3>2, TrackerConstants
      <4> QED BY <1>0, <3>2, <4>1 DEF MapOwned
    <3> QED BY <1>2, <2>1, <3>1, <3>2 DEF MapOwned
  <2> QED BY <1>0, <1>2, <2>1, <2>4, <2>5, <2>6, <2>7 DEF TrackerTypeOK
<1> QED BY <1>p, <1>1, <1>2, Marked

LEMMA TrackerNextInv ==
    ASSUME ~ Stalls, TrackerInv, [TrackerNext]_trackerVars
    PROVE  TrackerInv'
<1>0. TrackerTypeOK /\ Placed /\ StruckThere /\ MarkOwn /\ OneThing /\ MapOwned
  BY DEF TrackerInv
<1>c. /\ NoEid \notin Eids /\ NoAct \notin Acts /\ NoMark.eid = NoEid
      /\ NoAddr \notin Addrs /\ Registered \subseteq Eids /\ InManager \subseteq Eids
  BY TrackerConstants, PropTrackerAssumption DEF Registered, InManager
<1>u. ASSUME UNCHANGED <<addr, live, dying, eidOf, element, queued, marking, struck>>
      PROVE  (Placed /\ StruckThere /\ MarkOwn /\ MapOwned)' /\ Registered' = Registered
  <2>1. Registered' = Registered /\ InManager' = InManager
    BY <1>u DEF Registered, InManager
  <2> QED BY <1>0, <1>u, <2>1 DEF Placed, StruckThere, MarkOwn, MapOwned
<1>p. ASSUME NEW a \in live, PassOver(a), UNCHANGED <<addr, live, dying, eidOf, queued, struck>>
      PROVE  /\ Placed' /\ StruckThere' /\ MarkOwn' /\ MapOwned'
             /\ element' \in [Eids -> Acts \cup {NoAct}]
             /\ marking' \in [act : Acts, eid : Eids] \cup {NoMark}
             /\ passedOver' \subseteq live
  BY <1>0, <1>p, <1>u DEF PassOver, TrackerTypeOK
<1>1. ASSUME NEW a \in Acts, NEW x \in Addrs, NEW observed \in BOOLEAN, Born(a, x, observed)
      PROVE  TrackerInv'
  <2>1. /\ addr[a] = NoAddr /\ \A b \in live : addr[b] # x
        /\ addr'[a] = x /\ \A b \in Acts : b # a => addr'[b] = addr[b]
        /\ live' = live \cup {a}
        /\ UNCHANGED <<dying, eidOf, element, queued, marking, struck, seedWalk, scanning, scan, taking>>
    BY <1>0, <1>1 DEF Born, trackVars, lookVars, reaperVars, TrackerTypeOK
  <2>2. TrackerTypeOK'
    BY <1>0, <1>1 DEF Born, trackVars, lookVars, reaperVars, TrackerTypeOK
  <2>3. Registered' = Registered /\ InManager' = InManager
    BY <2>1 DEF Registered, InManager
  <2>4. a \notin live /\ \A e \in Registered : element[e] \in Acts /\ element[e] # a
    BY <1>0, <1>c, <2>1 DEF Placed, Registered, TrackerTypeOK
  <2>5. live \subseteq Acts
    BY <1>0 DEF TrackerTypeOK
  <2>6. Placed'
    BY <1>0, <1>c, <2>1, <2>3, <2>4, <2>5 DEF Placed
  <2>7. StruckThere' /\ MarkOwn' /\ OneThing'
    BY <1>0, <2>1, <2>3 DEF StruckThere, MarkOwn, OneThing
  <2>8. MapOwned'
    <3>1. \A e \in InManager : e \in Registered /\ addr'[element[e]] = addr[element[e]]
      BY <2>1, <2>4 DEF InManager
    <3> QED BY <1>0, <2>1, <2>3, <2>4, <3>1 DEF MapOwned
  <2> QED BY <2>2, <2>6, <2>7, <2>8 DEF TrackerInv
<1>2. ASSUME NEW dead \in SUBSET live, Purge(dead) PROVE TrackerInv'
  <2>1. /\ live' = live \ dead /\ dying \notin dead
        /\ UNCHANGED <<addr, dying, eidOf, element, queued, marking, struck, seedWalk, scanning, scan, taking>>
    BY <1>2 DEF Purge, trackVars, reaperVars
  <2>2. TrackerTypeOK'
    BY <1>0, <1>2 DEF Purge, trackVars, reaperVars, TrackerTypeOK
  <2>3. Registered' = Registered /\ InManager' = InManager
    BY <2>1 DEF Registered, InManager
  <2>4. Placed' /\ StruckThere' /\ MarkOwn' /\ OneThing'
    BY <1>0, <2>1, <2>3 DEF Placed, StruckThere, MarkOwn, OneThing
  <2>5. MapOwned'
    BY <1>0, <2>1, <2>3 DEF MapOwned
  <2> QED BY <2>2, <2>4, <2>5 DEF TrackerInv
<1>3. ASSUME NEW a, NEW outcome \in Outcomes, InitObserved(a, outcome) PROVE TrackerInv'
  <2>1. /\ marking = NoMark /\ seedWalk = {} /\ ~ scanning /\ a \in live /\ taking' \in {a, NoAct}
        /\ BeginMark(a) \/ PassOver(a)
        /\ taking' # NoAct => PassOver(a)
        /\ UNCHANGED <<addr, live, dying, eidOf, queued, struck, seedWalk, scanning, scan>>
    BY <1>3 DEF InitObserved, GameThreadFree, reaperVars
  <2>2. /\ Placed' /\ StruckThere' /\ MarkOwn' /\ MapOwned'
        /\ element' \in [Eids -> Acts \cup {NoAct}]
        /\ marking' \in [act : Acts, eid : Eids] \cup {NoMark}
        /\ passedOver' \subseteq live
    BY <1>p, <2>1, MarkKeeps
  <2>3. OneThing'
    BY <2>1 DEF OneThing, PassOver
  <2>4. TrackerTypeOK'
    <3>1. processed' \subseteq Addrs /\ known' \subseteq Addrs /\ initDue' \subseteq live'
      BY <1>0, <1>3, <2>1 DEF InitObserved, Placed, TrackerTypeOK
    <3>2. UNCHANGED <<flushed, evicted, purgeEpisode>>
      BY <1>3 DEF InitObserved, reaperVars
    <3> QED BY <1>0, <2>1, <2>2, <3>1, <3>2 DEF TrackerTypeOK
  <2> QED BY <2>2, <2>3, <2>4 DEF TrackerInv
<1>4. ASSUME NEW a \in Acts, WalkMark(a) PROVE TrackerInv'
  <2>1. /\ marking = NoMark /\ seedWalk # {} /\ seedWalk' = seedWalk \ {a}
        /\ \/ a \in live /\ (BeginMark(a) \/ PassOver(a))
           \/ UNCHANGED <<element, marking, passedOver>>
        /\ UNCHANGED <<addr, live, initDue, dying, known, processed, eidOf, queued, struck, taking,
                       flushed, scanning, scan, evicted, purgeEpisode>>
    BY <1>4 DEF WalkMark, engineVars, reaperVars
  <2>2. /\ Placed' /\ StruckThere' /\ MarkOwn' /\ MapOwned'
        /\ element' \in [Eids -> Acts \cup {NoAct}]
        /\ marking' \in [act : Acts, eid : Eids] \cup {NoMark}
        /\ passedOver' \subseteq live
    BY <1>p, <1>0, <2>1, <1>u, MarkKeeps DEF TrackerTypeOK
  <2>3. OneThing'
    BY <1>0, <2>1 DEF OneThing
  <2>4. TrackerTypeOK'
    BY <1>0, <2>1, <2>2 DEF TrackerTypeOK
  <2> QED BY <2>2, <2>3, <2>4 DEF TrackerInv
<1>12. ASSUME NEW connected \in BOOLEAN, TakeObjPost(connected) PROVE TrackerInv'
  <2>1. /\ marking = NoMark /\ seedWalk = {} /\ ~ scanning /\ taking' = NoAct
        /\ \/ taking \in live /\ BeginMark(taking)
           \/ UNCHANGED <<element, marking, passedOver>>
        /\ UNCHANGED <<addr, live, initDue, dying, known, processed, eidOf, queued, struck, seedWalk,
                       flushed, scanning, scan, evicted, purgeEpisode>>
    BY <1>0, <1>12 DEF TakeObjPost, OneThing, engineVars, reaperVars
  <2>2. /\ Placed' /\ StruckThere' /\ MarkOwn' /\ MapOwned'
        /\ element' \in [Eids -> Acts \cup {NoAct}]
        /\ marking' \in [act : Acts, eid : Eids] \cup {NoMark}
        /\ passedOver' \subseteq live
    BY <1>0, <2>1, <1>u, MarkKeeps DEF TrackerTypeOK
  <2>3. OneThing'
    BY <2>1 DEF OneThing
  <2>4. TrackerTypeOK'
    BY <1>0, <2>1, <2>2 DEF TrackerTypeOK
  <2> QED BY <2>2, <2>3, <2>4 DEF TrackerInv
<1>5. CASE CommitMark
  <2> DEFINE x == addr[marking.act]
             e == marking.eid
  <2>1. /\ marking # NoMark /\ marking' = NoMark
        /\ UNCHANGED <<addr, live, initDue, dying, known, processed, element, seedWalk, struck,
                       taking, passedOver, flushed, scanning, scan, evicted, purgeEpisode>>
        /\ eidOf[x] = NoEid => eidOf' = [eidOf EXCEPT ![x] = e] /\ queued' = queued
        /\ eidOf[x] # NoEid => queued' = queued \cup {e} /\ eidOf' = eidOf
    BY <1>5 DEF CommitMark, engineVars, lookVars, reaperVars
  <2>2. /\ e \in InManager \ {struck} /\ element[e] = marking.act
        /\ \A y \in Addrs : eidOf[y] # e
    BY <1>0, <2>1 DEF MarkOwn
  <2>3. e \in Registered /\ x \in Addrs
    BY <1>0, <1>c, <2>2 DEF InManager, Registered, Placed, TrackerTypeOK
  <2>4. Registered' = Registered
    BY <2>1 DEF Registered
  <2>5. TrackerTypeOK'
    BY <1>0, <1>c, <2>1, <2>2, <2>3 DEF TrackerTypeOK
  <2>6. Placed'
    BY <1>0, <2>1, <2>3, <2>4 DEF Placed
  <2>7. StruckThere' /\ MarkOwn' /\ OneThing'
    BY <1>0, <2>1, <2>4 DEF StruckThere, MarkOwn, OneThing
  <2>8. MapOwned'
    <3>1. CASE eidOf[x] = NoEid
      <4>1. /\ InManager' = InManager /\ eidOf'[x] = e
            /\ \A y \in Addrs : y # x => eidOf'[y] = eidOf[y]
        BY <1>0, <2>1, <2>3, <2>4, <3>1 DEF InManager, TrackerTypeOK
      <4>2. ASSUME NEW y \in Addrs, eidOf'[y] # NoEid
            PROVE  eidOf'[y] \in InManager \ {struck} /\ addr[element[eidOf'[y]]] = y
        BY <1>0, <2>2, <4>1, <4>2 DEF MapOwned
      <4>3. ASSUME NEW f \in InManager \ {struck}, element[f] \in live \ {dying}
            PROVE  eidOf'[addr[element[f]]] = f
        <5>1. CASE f = e
          BY <2>2, <4>1, <5>1
        <5>2. CASE f # e
          <6>1. eidOf[addr[element[f]]] = f
            BY <1>0, <4>3, <5>2 DEF MapOwned
          <6>2. addr[element[f]] \in Addrs /\ f # NoEid
            BY <1>0, <1>c, <4>3 DEF Placed, TrackerTypeOK
          <6> QED BY <3>1, <4>1, <6>1, <6>2
        <5> QED BY <5>1, <5>2
      <4> QED BY <2>1, <4>1, <4>2, <4>3 DEF MapOwned
    <3>2. CASE eidOf[x] # NoEid
      <4>1. InManager' = InManager \ {e} /\ eidOf' = eidOf
        BY <2>1, <2>4, <3>2 DEF InManager
      <4> QED BY <1>0, <2>1, <2>2, <4>1 DEF MapOwned
    <3> QED BY <3>1, <3>2
  <2> QED BY <2>5, <2>6, <2>7, <2>8 DEF TrackerInv
<1>6. ASSUME NEW a \in Acts, DestroyObserved(a) PROVE TrackerInv'
  <2> DEFINE s == eidOf[addr[a]]
  <2>1. /\ a \in live /\ dying = NoAct /\ dying' = a /\ struck' = s /\ addr[a] \in Addrs
        /\ eidOf' = [eidOf EXCEPT ![addr[a]] = NoEid]
        /\ UNCHANGED <<addr, live, initDue, element, queued, marking, seedWalk, scanning, scan, taking, passedOver>>
    BY <1>0, <1>6 DEF DestroyObserved, lookVars, reaperVars, Placed, TrackerTypeOK
  <2>2. struck = NoEid /\ (s # NoEid => s \in InManager /\ addr[element[s]] = addr[a])
    BY <1>0, <2>1 DEF StruckThere, MapOwned
  <2>3. Registered' = Registered /\ InManager' = InManager
    BY <2>1 DEF Registered, InManager
  <2>4. TrackerTypeOK'
    BY <1>0, <1>6, <2>1 DEF DestroyObserved, reaperVars, TrackerTypeOK
  <2>5. Placed' /\ OneThing'
    BY <1>0, <2>1, <2>3 DEF Placed, OneThing
  <2>6. StruckThere'
    BY <1>c, <2>1, <2>2, <2>3 DEF StruckThere, InManager
  <2>7. MarkOwn'
    BY <1>0, <1>c, <2>1, <2>2, <2>3 DEF MarkOwn, TrackerTypeOK
  <2>8. MapOwned'
    <3>1. eidOf'[addr[a]] = NoEid /\ \A y \in Addrs : y # addr[a] => eidOf'[y] = eidOf[y]
      BY <1>0, <2>1 DEF TrackerTypeOK
    <3>2. ASSUME NEW y \in Addrs, eidOf'[y] # NoEid
          PROVE  eidOf'[y] \in InManager \ {s} /\ addr[element[eidOf'[y]]] = y
      BY <1>0, <2>2, <3>1, <3>2 DEF MapOwned
    <3>3. ASSUME NEW f \in InManager \ {s, marking.eid}, element[f] \in live \ {a}
          PROVE  eidOf'[addr[element[f]]] = f
      <4>1. addr[element[f]] # addr[a] /\ addr[element[f]] \in Addrs
        BY <1>0, <2>1, <3>3 DEF Placed, TrackerTypeOK
      <4>2. eidOf[addr[element[f]]] = f
        <5>1. f # struck /\ element[f] # dying
          BY <1>0, <1>c, <2>1, <2>2, <3>3 DEF TrackerTypeOK
        <5> QED BY <1>0, <3>3, <5>1 DEF MapOwned
      <4> QED BY <3>1, <4>1, <4>2
    <3> HIDE DEF s
    <3> QED BY <2>1, <2>3, <3>2, <3>3 DEF MapOwned
  <2> QED BY <2>4, <2>5, <2>6, <2>7, <2>8 DEF TrackerInv
<1>7. CASE TakeStruckOff
  <2>1. /\ dying # NoAct /\ queued' = queued \cup ({struck} \cap InManager) /\ struck' = NoEid
        /\ live' = live \ {dying} /\ initDue' = initDue \ {dying} /\ dying' = NoAct
        /\ passedOver' = passedOver \ {dying}
        /\ UNCHANGED <<addr, known, processed, eidOf, element, marking, seedWalk, taking,
                       flushed, scanning, scan, evicted, purgeEpisode>>
    BY <1>7 DEF TakeStruckOff, reaperVars
  <2>2. Registered' = Registered /\ InManager' = InManager \ {struck}
    BY <2>1 DEF Registered, InManager
  <2>3. NoEid \notin InManager
    BY <1>c
  <2>4. TrackerTypeOK'
    BY <1>0, <1>c, <2>1 DEF TrackerTypeOK
  <2>5. Placed' /\ StruckThere' /\ OneThing'
    BY <1>0, <2>1, <2>2 DEF Placed, StruckThere, OneThing, InManager
  <2>6. MarkOwn'
    BY <1>0, <2>1, <2>2, <2>3 DEF MarkOwn
  <2>7. MapOwned'
    BY <1>0, <2>1, <2>2, <2>3 DEF MapOwned
  <2> QED BY <2>4, <2>5, <2>6, <2>7 DEF TrackerInv
<1>8. CASE Flush
  <2>1. /\ GameThreadFree /\ struck = NoEid /\ queued' = {} /\ flushed' = TRUE
        /\ element' = [e \in Eids |-> IF e \in queued THEN NoAct ELSE element[e]]
        /\ UNCHANGED <<addr, live, initDue, dying, known, processed, eidOf, marking, seedWalk, struck,
                       taking, passedOver, scanning, scan, evicted, purgeEpisode>>
    BY <1>8 DEF Flush, engineVars, lookVars
  <2>2. /\ Registered' = Registered \ queued /\ InManager' = InManager
        /\ \A e \in InManager : element'[e] = element[e]
    BY <1>0, <2>1 DEF Registered, InManager, TrackerTypeOK
  <2>3. TrackerTypeOK'
    BY <1>0, <2>1 DEF TrackerTypeOK
  <2>4. Placed'
    BY <1>0, <2>1, <2>2 DEF Placed, InManager
  <2>5. StruckThere' /\ MarkOwn' /\ OneThing'
    BY <1>0, <2>1, <2>2 DEF StruckThere, MarkOwn, OneThing, GameThreadFree
  <2>6. MapOwned'
    BY <1>0, <2>1, <2>2 DEF MapOwned
  <2> QED BY <2>3, <2>4, <2>5, <2>6 DEF TrackerInv
<1>9. CASE StartScan \/ EndScan
  <2>1. /\ UNCHANGED <<addr, live, initDue, dying, eidOf, element, queued, marking, struck, processed,
                       taking, passedOver>>
        /\ scanning' => scan' = Registered /\ marking = NoMark /\ seedWalk' = {}
        /\ taking = NoAct
    BY <1>0, <1>9 DEF StartScan, EndScan, GameThreadFree, OneThing, engineVars, lookVars, trackVars
  <2>2. (Placed /\ StruckThere /\ MarkOwn /\ MapOwned)' /\ Registered' = Registered
    BY <2>1, <1>u
  <2>3. OneThing'
    BY <2>1, <2>2 DEF OneThing
  <2>4. /\ known' \subseteq Addrs /\ seedWalk' \subseteq Acts /\ scan' \subseteq Eids
        /\ evicted' \in 0 .. EvictCap /\ {flushed', scanning', purgeEpisode'} \subseteq BOOLEAN
    <3>1. \A a \in live : addr[a] \in Addrs
      BY <1>0 DEF Placed, TrackerTypeOK
    <3>2. CASE StartScan
      <4>1. 0 \in 0 .. EvictCap
        BY PropTrackerAssumption
      <4>2. /\ UNCHANGED <<known, seedWalk, purgeEpisode>>
            /\ scan' = Registered /\ evicted' = 0 /\ flushed' = FALSE /\ scanning' = TRUE
        BY <2>1, <3>2 DEF StartScan, GameThreadFree, trackVars
      <4> QED BY <1>0, <1>c, <4>1, <4>2 DEF TrackerTypeOK
    <3>3. CASE EndScan
      <4>1. /\ known' = known \/ known' = known \cup {addr[a] : a \in live}
            /\ seedWalk' = seedWalk \/ seedWalk' = live
            /\ scan' = {} /\ scanning' = FALSE /\ UNCHANGED <<flushed, evicted>>
            /\ purgeEpisode' \in BOOLEAN
        BY <3>3 DEF EndScan
      <4> QED BY <1>0, <3>1, <4>1 DEF TrackerTypeOK
    <3> QED BY <1>9, <3>2, <3>3
  <2>5. TrackerTypeOK'
    BY <1>0, <2>1, <2>4 DEF TrackerTypeOK
  <2> QED BY <2>2, <2>3, <2>5 DEF TrackerInv
<1>10. CASE Reap
  <2> DEFINE e == Min(DeadAhead)
             own == {x \in {addr[element[e]]} : eidOf[x] = e}
  <2>1. /\ scanning /\ DeadAhead # {} /\ evicted < EvictCap
        /\ scan' = {f \in scan : f > e} /\ evicted' = evicted + 1
        /\ eidOf' = [x \in Addrs |-> IF x \in own THEN NoEid ELSE eidOf[x]]
        /\ known' \subseteq known /\ processed' \subseteq processed
        /\ queued' = queued \cup {e}
        /\ UNCHANGED <<addr, live, initDue, dying, element, marking, seedWalk, struck,
                       taking, passedOver, flushed, scanning, purgeEpisode>>
    BY <1>10 DEF Reap, engineVars, lookVars
  <2>2. e \in Registered /\ element[e] \notin live
    <3>1. DeadAhead \in SUBSET Eids
      BY <1>0 DEF DeadAhead, TrackerTypeOK
    <3>2. e \in DeadAhead
      BY <2>1, <3>1, MinOfEids
    <3> HIDE DEF e
    <3> QED BY <1>0, <2>1, <3>2 DEF DeadAhead, OneThing
  <2> HIDE DEF e
  <2>3. Registered' = Registered /\ InManager' = InManager \ {e}
    BY <2>1 DEF Registered, InManager
  <2>4. \A x \in Addrs : eidOf'[x] = IF eidOf[x] = e THEN NoEid ELSE eidOf[x]
    <3>1. \A x \in Addrs : x \in own <=> eidOf[x] = e
      BY <1>0, <1>c, <2>2 DEF MapOwned
    <3> HIDE DEF own
    <3> QED BY <2>1, <3>1
  <2>5. TrackerTypeOK'
    <3>1. eidOf' \in [Addrs -> Eids \cup {NoEid}]
      BY <1>0, <2>1 DEF TrackerTypeOK
    <3>2. evicted' \in 0 .. EvictCap
      BY <1>0, <2>1, PropTrackerAssumption DEF TrackerTypeOK
    <3> QED BY <1>0, <1>c, <2>1, <2>2, <3>1, <3>2 DEF TrackerTypeOK
  <2>6. Placed'
    BY <1>0, <2>1, <2>2, <2>3 DEF Placed
  <2>7. StruckThere' /\ MarkOwn' /\ OneThing'
    BY <1>0, <2>1, <2>3 DEF StruckThere, MarkOwn, OneThing
  <2>8. MapOwned'
    <3>1. ASSUME NEW x \in Addrs, eidOf'[x] # NoEid
          PROVE  eidOf'[x] \in InManager' \ {struck} /\ addr[element[eidOf'[x]]] = x
      BY <1>0, <2>3, <2>4, <3>1 DEF MapOwned
    <3>2. ASSUME NEW f \in InManager' \ {struck, marking.eid}, element[f] \in live \ {dying}
          PROVE  eidOf'[addr[element[f]]] = f
      <4>1. eidOf[addr[element[f]]] = f /\ f # e
        BY <1>0, <2>3, <3>2 DEF MapOwned
      <4>2. addr[element[f]] \in Addrs
        BY <1>0, <3>2 DEF Placed, TrackerTypeOK
      <4> QED BY <2>4, <4>1, <4>2
    <3> QED BY <2>1, <3>1, <3>2 DEF MapOwned
  <2> QED BY <2>5, <2>6, <2>7, <2>8 DEF TrackerInv
<1>11. CASE UNCHANGED trackerVars
  <2>1. UNCHANGED <<addr, live, initDue, dying, known, processed, eidOf, element, queued,
                    marking, seedWalk, struck, taking, passedOver,
                    flushed, scanning, scan, evicted, purgeEpisode>>
    BY <1>11 DEF trackerVars, engineVars, trackVars, lookVars, reaperVars
  <2>2. (Placed /\ StruckThere /\ MarkOwn /\ MapOwned)' /\ Registered' = Registered
    BY <2>1, <1>u
  <2>3. TrackerTypeOK' /\ OneThing'
    BY <1>0, <2>1, <2>2 DEF TrackerTypeOK, OneThing
  <2> QED BY <2>2, <2>3 DEF TrackerInv
<1> QED
  BY <1>1, <1>2, <1>3, <1>4, <1>5, <1>6, <1>7, <1>8, <1>9, <1>10, <1>11, <1>12
     DEF TrackerNext, Tick

(* The map from addresses to ids, which the observers of any thread and    *)
(* the reaper share, never gives an id that is free, taken or another      *)
(* prop's, and gives that of every prop that lives, for any number of      *)
(* props, of addresses and of ids, if no thread stays in an observer of a  *)
(* destruction for whole ticks. *)
THEOREM MapAlwaysOwned ==
    ASSUME ~ Stalls
    PROVE  TrackerSpec => []MapOwned
<1>1. TrackerInit => TrackerInv
  BY TrackerInitInv
<1>2. TrackerInv /\ [TrackerNext]_trackerVars => TrackerInv'
  BY TrackerNextInv
<1>3. TrackerInv => MapOwned
  BY DEF TrackerInv
<1> QED BY <1>1, <1>2, <1>3, PTL DEF TrackerSpec
=============================================================================
