--------------------------- MODULE ObserverTable ---------------------------
(***************************************************************************)
(* A UFunction observer table of ue_wrap/game_thread.cpp: a fixed array of *)
(* slots and a count of the live ones, without a lock.  The game thread    *)
(* registers and unregisters (function, callback) pairs, one store after   *)
(* the other; every ProcessEvent dispatch, on any thread, walks the table  *)
(* with one load after the other and calls what it finds.                  *)
(*                                                                         *)
(* The pre, post and interceptor tables have this code in common.  Loads   *)
(* and stores are taken in program order, as x86 has them for one writer.  *)
(* A dispatch on the game thread is a walk as well; an operation may start *)
(* in a callback of it (a nested dispatch runs a posted task), so that the *)
(* game thread's walk stands still while the operation is under way.       *)
(***************************************************************************)
EXTENDS Integers, FiniteSets

CONSTANTS
    Functions,      \* UFunctions that are observed
    Callbacks,
    None,           \* the null pointer
    Observers,      \* the (function, callback) pairs subsystems register
    MaxObservers,   \* kMaxObservers, 256 in the build
    GameThread,
    Workers,        \* engine threads that also dispatch UFunctions
    MaxOps          \* bound: operations on the table

Threads == Workers \cup {GameThread}
Slots == 0 .. MaxObservers - 1

ASSUME ObserverTableAssumption ==
    /\ None \notin Functions \cup Callbacks
    /\ Observers \subseteq Functions \X Callbacks
    /\ MaxObservers \in Nat \ {0}
    /\ GameThread \notin Workers
    /\ MaxOps \in Nat

VARIABLES
    targetFn, cb,   \* ObserverSlot, by index
    active,         \* g_postObserverActive
    registered,     \* the pairs whose registration has returned true
    op,             \* the operation under way: what, its pair, where, which slot
    ops,            \* how many there were
    walk            \* walk[t]: the walk of thread t's dispatch

tableVars == <<targetFn, cb, active>>
vars == <<targetFn, cb, active, registered, op, ops, walk>>

NoOp == [at |-> "none", pair |-> <<None, None>>, slot |-> 0]

NoWalk == [at |-> "none", fn |-> None, bound |-> 0, i |-> 0, found |-> 0,
           fired |-> {}, due |-> {}, possible |-> {}, overlapped |-> {}]

Live == {i \in Slots : targetFn[i] # None}
Holds(i, p) == targetFn[i] = p[1] /\ cb[i] = p[2]

-----------------------------------------------------------------------------
Init ==
    /\ targetFn = [i \in Slots |-> None]
    /\ cb = [i \in Slots |-> None]
    /\ active = 0 /\ registered = {}
    /\ op = NoOp /\ ops = 0
    /\ walk = [t \in Threads |-> NoWalk]

(* What a walk has been overlapped by, and what its callbacks may be and   *)
(* must be: the pairs of its function that were registered at some time,   *)
(* and those that were all the time. *)
Overlap(kind, coming, going) ==
    walk' = [t \in Threads |->
        IF walk[t].at = "none" THEN walk[t]
        ELSE [walk[t] EXCEPT
                !.overlapped = @ \cup {kind},
                !.possible = @ \cup {p \in coming : p[1] = walk[t].fn},
                !.due = @ \ going]]

(* The game thread is neither walking nor in an operation; in a callback   *)
(* of a walk it may start one. *)
MayOperate ==
    /\ op.at = "none" /\ ops < MaxOps
    /\ walk[GameThread].at \in {"none", "called"}
    /\ ops' = ops + 1

-----------------------------------------------------------------------------
(* SetObserverSlot: an exact re-registration and a full table are no-ops;  *)
(* otherwise the first free slot is filled, the callback first, and then   *)
(* counted. *)
FreeSlot(i) == i \in Slots \ Live /\ \A j \in Slots \ Live : i =< j

Start(at, p, i) == op' = [at |-> at, pair |-> p, slot |-> i]

(* Mutant: an exact re-registration takes a second slot.                   *)
RegisterTwice(p) ==
    /\ MayOperate
    /\ \E i \in Slots : FreeSlot(i) /\ Start("setCb", p, i)
    /\ Overlap("register", {p}, {})
    /\ UNCHANGED <<tableVars, registered>>

Register(p) ==
    /\ MayOperate
    /\ \A i \in Slots : ~ Holds(i, p)
    /\ \E i \in Slots : FreeSlot(i) /\ Start("setCb", p, i)
    /\ Overlap("register", {p}, {})
    /\ UNCHANGED <<tableVars, registered>>

SetCb ==
    /\ op.at = "setCb"
    /\ cb' = [cb EXCEPT ![op.slot] = op.pair[2]]
    /\ op' = [op EXCEPT !.at = "setTarget"]
    /\ UNCHANGED <<targetFn, active, registered, ops, walk>>

SetTarget ==
    /\ op.at = "setTarget"
    /\ targetFn' = [targetFn EXCEPT ![op.slot] = op.pair[1]]
    /\ op' = [op EXCEPT !.at = "count"]
    /\ UNCHANGED <<cb, active, registered, ops, walk>>

Count ==
    /\ op.at = "count"
    /\ active' = active + 1
    /\ registered' = registered \cup {op.pair}
    /\ op' = NoOp
    /\ UNCHANGED <<targetFn, cb, ops, walk>>

(* Mutant: only the first slots, as many as are live, are searched.        *)
UnregisterInPrefix(p) ==
    /\ MayOperate
    /\ IF \E i \in Slots : i < active /\ Holds(i, p)
       THEN \E i \in Slots : i < active /\ Holds(i, p) /\ Start("clearTarget", p, i)
       ELSE UNCHANGED op
    /\ registered' = registered \ {p}
    /\ Overlap("unregister", {}, {p})
    /\ UNCHANGED tableVars

(* ClearObserverSlot: every slot that holds the pair, which is one or none *)
(* (TableExact). *)
Unregister(p) ==
    /\ MayOperate
    /\ \/ \E i \in Slots : Holds(i, p) /\ Start("clearTarget", p, i)
       \/ (\A i \in Slots : ~ Holds(i, p)) /\ UNCHANGED op
    /\ registered' = registered \ {p}
    /\ Overlap("unregister", {}, {p})
    /\ UNCHANGED tableVars

ClearTarget ==
    /\ op.at = "clearTarget"
    /\ targetFn' = [targetFn EXCEPT ![op.slot] = None]
    /\ op' = [op EXCEPT !.at = "clearCb"]
    /\ UNCHANGED <<cb, active, registered, ops, walk>>

ClearCb ==
    /\ op.at = "clearCb"
    /\ cb' = [cb EXCEPT ![op.slot] = None]
    /\ op' = [op EXCEPT !.at = "uncount"]
    /\ UNCHANGED <<targetFn, active, registered, ops, walk>>

Uncount ==
    /\ op.at = "uncount"
    /\ active' = active - 1
    /\ op' = NoOp
    /\ UNCHANGED <<targetFn, cb, registered, ops, walk>>

(* ClearAllObservers, slot by slot, and the count at the end. *)
ClearAll ==
    /\ MayOperate
    /\ op' = [NoOp EXCEPT !.at = "wipeTarget"]
    /\ Overlap("unregister", {}, {})
    /\ UNCHANGED <<tableVars, registered>>

WipeTarget ==
    LET going == {p \in Observers : Holds(op.slot, p)} IN
    /\ op.at = "wipeTarget"
    /\ targetFn' = [targetFn EXCEPT ![op.slot] = None]
    /\ op' = [op EXCEPT !.at = "wipeCb"]
    /\ registered' = registered \ going
    /\ Overlap("unregister", {}, going)
    /\ UNCHANGED <<cb, active, ops>>

WipeCb ==
    /\ op.at = "wipeCb"
    /\ cb' = [cb EXCEPT ![op.slot] = None]
    /\ op' = IF op.slot + 1 < MaxObservers
             THEN [op EXCEPT !.at = "wipeTarget", !.slot = @ + 1]
             ELSE [op EXCEPT !.at = "wipeCount"]
    /\ UNCHANGED <<targetFn, active, registered, ops, walk>>

WipeCount ==
    /\ op.at = "wipeCount"
    /\ active' = 0
    /\ op' = NoOp
    /\ UNCHANGED <<targetFn, cb, registered, ops, walk>>

-----------------------------------------------------------------------------
(* FireObservers on thread t.  An operation holds the game thread up.      *)
Runs(t) == t = GameThread => op.at = "none"

Walking(t, at) == Runs(t) /\ walk[t].at = at

Step(t, w) ==
    /\ walk' = [walk EXCEPT ![t] = w]
    /\ UNCHANGED <<targetFn, cb, active, registered, op, ops>>

(* The operation a walk begins in the middle of. *)
UnderWay ==
    CASE op.at = "none" -> {}
      [] op.at \in {"setCb", "setTarget", "count"} -> {"register"}
      [] OTHER -> {"unregister"}

Begun(fn) ==
    [at |-> "target", fn |-> fn, bound |-> active, i |-> 0, found |-> 0, fired |-> {},
     due |-> {p \in registered : p[1] = fn},
     possible |-> {p \in registered \cup {op.pair} : p[1] = fn},
     overlapped |-> UnderWay]

Begin(t, fn) ==
    /\ Walking(t, "none")
    /\ active > 0
    /\ Step(t, Begun(fn))

(* Mutant: the walk looks at the first active slots only.                  *)
MoreToSeePrefix(w) == w.i < w.bound
MoreToSee(w) == w.i < MaxObservers /\ w.found < w.bound

Passed(w) == [w EXCEPT !.i = @ + 1]
Seen(w) == [Passed(w) EXCEPT !.found = @ + 1]
Matched(w) == [Seen(w) EXCEPT !.at = "cb"]

LoadTarget(t) ==
    LET w == walk[t] IN
    /\ Walking(t, "target") /\ MoreToSee(w)
    /\ \/ targetFn[w.i] = None /\ Step(t, Passed(w))
       \/ targetFn[w.i] \notin {None, w.fn} /\ Step(t, Seen(w))
       \/ targetFn[w.i] = w.fn /\ Step(t, Matched(w))

(* The callback of the slot whose function matched; a null one is skipped. *)
Skipped(w) == [w EXCEPT !.at = "target"]
Called(w, c) == [w EXCEPT !.at = "called", !.fired = @ \cup {<<w.fn, c>>}]

LoadCb(t) ==
    LET w == walk[t]
        c == cb[w.i - 1] IN
    /\ Walking(t, "cb")
    /\ \/ c = None /\ Step(t, Skipped(w))
       \/ c # None /\ Step(t, Called(w, c))

Return(t) ==
    /\ Walking(t, "called")
    /\ Step(t, [walk[t] EXCEPT !.at = "target"])

Ended(t) == walk[t].at = "target" /\ ~ MoreToSee(walk[t])

End(t) ==
    /\ Runs(t) /\ Ended(t)
    /\ Step(t, NoWalk)

-----------------------------------------------------------------------------
Next ==
    \/ \E p \in Observers : Register(p) \/ Unregister(p)
    \/ SetCb \/ SetTarget \/ Count
    \/ ClearTarget \/ ClearCb \/ Uncount
    \/ ClearAll \/ WipeTarget \/ WipeCb \/ WipeCount
    \/ \E t \in Threads :
          \/ \E fn \in Functions : Begin(t, fn)
          \/ LoadTarget(t) \/ LoadCb(t) \/ Return(t) \/ End(t)

Spec == Init /\ [][Next]_vars

-----------------------------------------------------------------------------
WalkRecords ==
    [at : {"none", "target", "cb", "called"}, fn : Functions \cup {None},
     bound : 0 .. MaxObservers, i : 0 .. MaxObservers, found : 0 .. MaxObservers,
     fired : SUBSET (Functions \X Callbacks), due : SUBSET Observers,
     possible : SUBSET Observers, overlapped : SUBSET {"register", "unregister"}]

TypeOK ==
    /\ targetFn \in [Slots -> Functions \cup {None}]
    /\ cb \in [Slots -> Callbacks \cup {None}]
    /\ active \in 0 .. MaxObservers
    /\ op \in [at : {"none", "setCb", "setTarget", "count", "clearTarget", "clearCb", "uncount",
                     "wipeTarget", "wipeCb", "wipeCount"},
               pair : Observers \cup {<<None, None>>}, slot : Slots]
    /\ registered \subseteq Observers
    /\ ops \in 0 .. MaxOps
    /\ walk \in [Threads -> WalkRecords]

(* Between operations the table holds what is registered, each pair once,  *)
(* so that several subsystems may observe one function and none is called  *)
(* twice (game_thread.cpp:273-283), and the count is that of the live      *)
(* slots. *)
TableExact ==
    op.at = "none" =>
        /\ \A p \in registered : \E i \in Slots : Holds(i, p)
        /\ \A i \in Live : <<targetFn[i], cb[i]>> \in registered
        /\ \A i, j \in Live : i # j => <<targetFn[i], cb[i]>> # <<targetFn[j], cb[j]>>
        /\ active = Cardinality(Live)

(* A walk that no registration overlaps calls every callback of its        *)
(* function that has been registered since it began, whatever is           *)
(* unregistered meanwhile and wherever the holes are                       *)
(* (game_thread.cpp:338-352). *)
FiresAllDue ==
    \A t \in Threads :
        Ended(t) /\ "register" \notin walk[t].overlapped => walk[t].due \subseteq walk[t].fired

(* A walk that is not overlapped by both kinds of operations calls nothing *)
(* that was never registered for its function while it ran (344-351).      *)
FiresOnlyRegistered ==
    \A t \in Threads :
        walk[t].overlapped # {"register", "unregister"} =>
            walk[t].fired \subseteq walk[t].possible

(* ... and without the condition on registrations: "FireObservers fires    *)
(* EVERY slot whose target matches" (game_thread.cpp:282-283).             *)
NoneMissed == \A t \in Threads : Ended(t) => walk[t].due \subseteq walk[t].fired
=============================================================================
