---------------------------- MODULE PropTracker ----------------------------
(***************************************************************************)
(* How one process keeps track of its own props                            *)
(* (coop/prop_element_tracker.cpp, the observers of prop_lifecycle.cpp,    *)
(* the reaper and the re-seed of coop/net_pump.cpp), during a session.     *)
(*                                                                         *)
(* The tables are keyed by an actor's address, and the engine gives the    *)
(* address of a dead actor to a new one.  An actor is entered when its     *)
(* Init has run, or by a seed walk over all that live, but not every one:  *)
(* the observers have exits that leave a prop that is there without an     *)
(* element.  It is struck off                                              *)
(* when it is destroyed through K2_DestroyActor, which any thread may      *)
(* call, or, if the engine purged it without that call, by the reaper of   *)
(* the game thread's tick.  A scan of the reaper that finds many dead is   *)
(* taken for a change of level, and the walk is repeated when a later scan *)
(* finds few.                                                              *)
(***************************************************************************)
EXTENDS Naturals, FiniteSetsExt

CONSTANTS
    MaxActs,        \* bound: the keyed props of a run
    Addrs, NoAddr,
    MaxEid, NoEid,  \* bound: the ids that the registry has
    EvictCap,       \* kReapEvictCap: 256 in the build
    ReseedPurge,    \* kReseedPurge: 64
    MinPurge,       \* environment: so many tracked props die in a purge
    Stalls          \* environment: a thread may stay in an observer for ticks

ASSUME PropTrackerAssumption ==
    /\ MaxActs \in Nat /\ MaxEid \in Nat
    /\ NoAddr \notin Addrs /\ NoEid \notin Nat
    /\ EvictCap \in Nat \ {0} /\ ReseedPurge \in Nat /\ MinPurge \in Nat
    /\ Stalls \in BOOLEAN

Acts == 1 .. MaxActs        \* in the order of their birth
NoAct == 0
Eids == 1 .. MaxEid

VARIABLES
    (* the engine *)
    addr,           \* where an actor is, or was; NoAddr before it is born
    live,
    initDue,        \* its Init has not been observed yet
    dying,          \* the actor whose K2_DestroyActor is being observed
    (* the tables *)
    known,          \* g_knownKeyedProps
    processed,      \* g_processedInitActors
    eidOf,          \* g_actorToPropElementId
    element,        \* the local elements: the actor that each is bound to
    queued,         \* taken from the manager, in the ElementDeleter
    (* operations under way *)
    marking,        \* MarkPropElement's actor and its new id
    seedWalk,       \* the actors that a seed walk has still to mark
    struck,         \* the id that this observer has struck off, and not yet taken
    taking,         \* the actor that a takeObj has spawned and has still to announce
    passedOver,     \* history: those alive that were last looked at and got no element
    (* the reaper *)
    flushed,        \* this tick has flushed the deleter, and may scan
    scanning, scan, \* the elements it has still to look at
    evicted,
    purgeEpisode    \* sInPurgeEpisode

engineVars == <<addr, live, initDue, dying>>
trackVars == <<known, processed, eidOf, element, queued>>
reaperVars == <<flushed, scanning, scan, evicted, purgeEpisode>>
lookVars == <<taking, passedOver>>
trackerVars == <<engineVars, trackVars, marking, seedWalk, struck, lookVars, reaperVars>>

NoMark == [act |-> NoAct, eid |-> NoEid]

TrackerInit ==
    /\ addr = [a \in Acts |-> NoAddr]
    /\ live = {} /\ initDue = {} /\ dying = NoAct
    /\ known = {} /\ processed = {}
    /\ eidOf = [x \in Addrs |-> NoEid]
    /\ element = [e \in Eids |-> NoAct]
    /\ queued = {}
    /\ marking = NoMark /\ seedWalk = {} /\ struck = NoEid
    /\ taking = NoAct /\ passedOver = {}
    /\ flushed = TRUE /\ scanning = FALSE /\ scan = {} /\ evicted = 0 /\ purgeEpisode = FALSE

Registered == {e \in Eids : element[e] # NoAct}
InManager == Registered \ queued
DeadElements == {e \in InManager : element[e] \notin live}

(* The game thread is not in the middle of marking, walking, reaping or    *)
(* taking a prop out of a container. *)
GameThreadFree == marking = NoMark /\ seedWalk = {} /\ ~ scanning /\ taking = NoAct

-----------------------------------------------------------------------------
(* The engine: it spawns actors and collects the dead on the game thread.  *)

(* An actor is born, at an address that no living one has.  If it comes    *)
(* with a level no Init is observed, and it is there before the last of    *)
(* the old level's elements has been reaped. *)
Born(a, x, observed) ==
    /\ GameThreadFree /\ addr[a] = NoAddr /\ (a > 1 => addr[a - 1] # NoAddr)
    /\ \A b \in live : addr[b] # x
    /\ ~ observed => Cardinality(DeadElements) >= MinPurge
    /\ addr' = [addr EXCEPT ![a] = x]
    /\ live' = live \cup {a}
    /\ initDue' = IF observed THEN initDue \cup {a} ELSE initDue
    /\ UNCHANGED <<dying, trackVars, marking, seedWalk, struck, lookVars, reaperVars>>

(* The engine purges actors, without a K2_DestroyActor. *)
Purge(dead) ==
    /\ GameThreadFree /\ dead # {} /\ dying \notin dead
    /\ Cardinality({a \in dead : \E e \in InManager : element[e] = a}) >= MinPurge
    /\ live' = live \ dead
    /\ initDue' = initDue \ dead
    /\ passedOver' = passedOver \ dead
    /\ UNCHANGED <<addr, dying, trackVars, marking, seedWalk, struck, taking, reaperVars>>

-----------------------------------------------------------------------------
(* The observers.                                                          *)

(* MarkPropElement up to AllocAndInstall: nothing to do for an address     *)
(* that has an id, nor when the ids are used up. *)
BeginMark(a) ==
    IF eidOf[addr[a]] # NoEid \/ Registered = Eids
    THEN UNCHANGED <<element, marking, passedOver>>
    ELSE LET e == Min(Eids \ Registered) IN
         /\ element' = [element EXCEPT ![e] = a]
         /\ marking' = [act |-> a, eid |-> e]
         /\ passedOver' = passedOver \ {a}

(* A look at an actor that ends before MarkPropElement.  It leaves the     *)
(* actor without an element, unless its address has an id. *)
PassOver(a) ==
    /\ passedOver' = IF eidOf[addr[a]] = NoEid THEN passedOver \cup {a} ELSE passedOver
    /\ UNCHANGED <<element, marking>>

(* How the body of Init's observer ends: before the address is noted as    *)
(* processed (no connection, the actor was spawned for a message); inside  *)
(* a takeObj, which announces the actor itself; for a class that is not    *)
(* sent, a client's own Aprop_C, or a key that is not set; or with the     *)
(* element and the message. *)
Outcomes == {"unseen", "inContainer", "leftOut", "announced"}

(* The body of Init's observer, which runs on the game thread, and later   *)
(* if Init did not, for a new actor or once more for an old one: nothing   *)
(* more is done for an address that has been processed. *)
InitObserved(a, outcome) ==
    /\ GameThreadFree /\ a \in live
    /\ outcome \in IF addr[a] \in processed THEN {"unseen", "inContainer"} ELSE Outcomes
    /\ outcome = "inContainer" => a \in initDue
    /\ initDue' = initDue \ {a}
    /\ known' = known \cup {addr[a]}
    /\ processed' = IF outcome = "unseen" THEN processed ELSE processed \cup {addr[a]}
    /\ taking' = IF outcome = "inContainer" THEN a ELSE NoAct
    /\ IF outcome = "announced" THEN BeginMark(a) ELSE PassOver(a)
    /\ UNCHANGED <<addr, live, dying, eidOf, queued, seedWalk, struck, reaperVars>>

(* takeObj's observer announces the actor, if it is alive and the session  *)
(* connected. *)
TakeObjPost(connected) ==
    /\ taking # NoAct
    /\ taking' = NoAct
    /\ IF connected /\ taking \in live THEN BeginMark(taking) ELSE UNCHANGED <<element, marking, passedOver>>
    /\ UNCHANGED <<engineVars, known, processed, eidOf, queued, seedWalk, struck, reaperVars>>

(* ... and from there: the entry is made, if nobody else has made it. *)
CommitMark ==
    /\ marking # NoMark
    /\ LET x == addr[marking.act] IN
       IF eidOf[x] = NoEid
       THEN eidOf' = [eidOf EXCEPT ![x] = marking.eid] /\ UNCHANGED queued
       ELSE queued' = queued \cup {marking.eid} /\ UNCHANGED eidOf
    /\ marking' = NoMark
    /\ UNCHANGED <<engineVars, known, processed, element, seedWalk, struck, lookVars, reaperVars>>

(* K2_DestroyActor, on any thread (bound: one at a time), before the actor *)
(* is destroyed: the tables forget its address. *)
DestroyObserved(a) ==
    /\ a \in live /\ dying = NoAct
    /\ dying' = a
    /\ processed' = processed \ {addr[a]}
    /\ known' = known \ {addr[a]}
    /\ struck' = eidOf[addr[a]]
    /\ eidOf' = [eidOf EXCEPT ![addr[a]] = NoEid]
    /\ UNCHANGED <<addr, live, initDue, element, queued, marking, seedWalk, lookVars, reaperVars>>

(* ... and the id's element goes from the manager to the deleter, if the   *)
(* reaper has not been faster; then the actor dies. *)
TakeStruckOff ==
    /\ dying # NoAct
    /\ queued' = queued \cup ({struck} \cap InManager)
    /\ struck' = NoEid
    /\ live' = live \ {dying}
    /\ initDue' = initDue \ {dying}
    /\ passedOver' = passedOver \ {dying}
    /\ dying' = NoAct
    /\ UNCHANGED <<addr, known, processed, eidOf, element, marking, seedWalk, taking, reaperVars>>

-----------------------------------------------------------------------------
(* The tick.                                                               *)

(* A tick begins with the deleter's queue. *)
Flush ==
    /\ GameThreadFree /\ (~ flushed \/ queued # {})
    /\ Stalls \/ struck = NoEid
    /\ flushed' = TRUE
    /\ element' = [e \in Eids |-> IF e \in queued THEN NoAct ELSE element[e]]
    /\ queued' = {}
    /\ UNCHANGED <<engineVars, known, processed, eidOf, marking, seedWalk, struck, lookVars,
                   scanning, scan, evicted, purgeEpisode>>

(* ReapDeadLocalPropElements copies what is registered, ... *)
StartScan ==
    /\ GameThreadFree /\ flushed
    /\ DeadElements # {} \/ purgeEpisode       \* a scan that changes nothing is left out
    /\ flushed' = FALSE
    /\ scanning' = TRUE
    /\ scan' = Registered
    /\ evicted' = 0
    /\ UNCHANGED <<engineVars, trackVars, marking, seedWalk, struck, lookVars, purgeEpisode>>

(* Mutant: those are dead whose address no living actor has.               *)
DeadByAddress == {e \in scan : \A a \in live : addr[a] # addr[element[e]]}

(* Those of the copy that are dead, and not behind; in the order of ids.   *)
DeadAhead == {e \in scan : element[e] \notin live}

(* Mutant: the address is struck off whoever has it now.                   *)
ReapByAddress ==
    /\ scanning /\ DeadAhead # {} /\ evicted < EvictCap
    /\ LET e == Min(DeadAhead)
           x == addr[element[e]] IN
        /\ scan' = {f \in scan : f > e}
        /\ eidOf' = [eidOf EXCEPT ![x] = NoEid]
        /\ known' = known \ {x}
        /\ processed' = processed \ {x}
        /\ queued' = queued \cup {e}
        /\ evicted' = evicted + 1
    /\ UNCHANGED <<engineVars, element, marking, seedWalk, struck, lookVars, flushed, scanning, purgeEpisode>>

(* Mutant: the scan does not stop at the cap.                              *)
ReapAll ==
    /\ scanning /\ DeadAhead # {}
    /\ LET e == Min(DeadAhead)
           own == {x \in {addr[element[e]]} : eidOf[x] = e} IN
        /\ scan' = {f \in scan : f > e}
        /\ eidOf' = [x \in Addrs |-> IF x \in own THEN NoEid ELSE eidOf[x]]
        /\ known' = known \ own
        /\ processed' = processed \ own
        /\ queued' = queued \cup {e}
        /\ evicted' = evicted + 1
    /\ UNCHANGED <<engineVars, element, marking, seedWalk, struck, lookVars, flushed, scanning, purgeEpisode>>

(* ... and takes those whose actor is dead.  The address is struck off     *)
(* only where it still has this id. *)
Reap ==
    /\ scanning /\ DeadAhead # {} /\ evicted < EvictCap
    /\ LET e == Min(DeadAhead)
           own == {x \in {addr[element[e]]} : eidOf[x] = e} IN
        /\ scan' = {f \in scan : f > e}
        /\ eidOf' = [x \in Addrs |-> IF x \in own THEN NoEid ELSE eidOf[x]]
        /\ known' = known \ own
        /\ processed' = processed \ own
        /\ queued' = queued \cup {e}
        /\ evicted' = evicted + 1
    /\ UNCHANGED <<engineVars, element, marking, seedWalk, struck, lookVars, flushed, scanning, purgeEpisode>>

(* Mutant: the walk is done as soon as a purge is seen.                    *)
ReseedAtOnce ==
    /\ scanning /\ (DeadAhead = {} \/ evicted = EvictCap)
    /\ scanning' = FALSE /\ scan' = {}
    /\ purgeEpisode' = (evicted >= ReseedPurge)
    /\ IF evicted >= ReseedPurge /\ ~ purgeEpisode
       THEN seedWalk' = live /\ known' = known \cup {addr[a] : a \in live}
       ELSE UNCHANGED <<seedWalk, known>>
    /\ UNCHANGED <<engineVars, processed, eidOf, element, queued, marking, struck, lookVars, flushed, evicted>>

(* The end of a scan: one with many dead begins an episode, the first one  *)
(* with few ends it with a walk over all that live. *)
EndScan ==
    /\ scanning /\ (DeadAhead = {} \/ evicted = EvictCap)
    /\ scanning' = FALSE /\ scan' = {}
    /\ purgeEpisode' = (evicted >= ReseedPurge)
    /\ IF evicted < ReseedPurge /\ purgeEpisode
       THEN seedWalk' = live /\ known' = known \cup {addr[a] : a \in live}
       ELSE UNCHANGED <<seedWalk, known>>
    /\ UNCHANGED <<engineVars, processed, eidOf, element, queued, marking, struck, lookVars, flushed, evicted>>

(* A step of the walk, which leaves out those whose key is not set. *)
WalkMark(a) ==
    /\ a \in seedWalk /\ marking = NoMark
    /\ seedWalk' = seedWalk \ {a}
    /\ IF a \in live THEN BeginMark(a) \/ PassOver(a) ELSE UNCHANGED <<element, marking, passedOver>>
    /\ UNCHANGED <<engineVars, known, processed, eidOf, queued, struck, taking, reaperVars>>

-----------------------------------------------------------------------------
Tick ==
    \/ CommitMark \/ Flush \/ StartScan \/ EndScan
    \/ Reap
    \/ \E a \in Acts : WalkMark(a)
    \/ \E a \in initDue, outcome \in Outcomes : InitObserved(a, outcome)
    \/ \E connected \in BOOLEAN : TakeObjPost(connected)

TrackerNext ==
    \/ Tick
    \/ \E a \in Acts, outcome \in Outcomes : InitObserved(a, outcome)
    \/ \E a \in Acts : DestroyObserved(a)
    \/ \E a \in Acts, x \in Addrs, observed \in BOOLEAN : Born(a, x, observed)
    \/ \E dead \in SUBSET live : Purge(dead)
    \/ TakeStruckOff

(* The game thread ticks, and a thread in the observer gets through it.    *)
TrackerFairness == WF_trackerVars(Tick) /\ WF_trackerVars(TakeStruckOff)

TrackerSpec == TrackerInit /\ [][TrackerNext]_trackerVars /\ TrackerFairness

-----------------------------------------------------------------------------
TrackerTypeOK ==
    /\ addr \in [Acts -> Addrs \cup {NoAddr}]
    /\ live \subseteq Acts /\ initDue \subseteq live /\ dying \in live \cup {NoAct}
    /\ known \subseteq Addrs /\ processed \subseteq Addrs
    /\ eidOf \in [Addrs -> Eids \cup {NoEid}]
    /\ element \in [Eids -> Acts \cup {NoAct}]
    /\ queued \subseteq Eids /\ struck \in Eids \cup {NoEid}
    /\ marking \in [act : Acts, eid : Eids] \cup {NoMark}
    /\ seedWalk \subseteq Acts /\ taking \in Acts \cup {NoAct} /\ passedOver \subseteq live
    /\ flushed \in BOOLEAN /\ scanning \in BOOLEAN /\ scan \subseteq Eids /\ evicted \in 0 .. EvictCap
    /\ purgeEpisode \in BOOLEAN

(* What the map says of an address, the manager has, for an actor of that  *)
(* address, and it says so of every actor alive: an id found by address is *)
(* never one that has been taken, or is free, or belongs to a prop         *)
(* somewhere else, whatever the observers on other threads and the reaper  *)
(* did in between (prop_element_tracker.cpp:182-192, :223-229, :396-407).  *)
MapOwned ==
    /\ \A x \in Addrs :
          eidOf[x] # NoEid =>
            /\ eidOf[x] \in InManager \ {struck}
            /\ addr[element[eidOf[x]]] = x
    /\ \A e \in InManager \ {struck, marking.eid} :
          element[e] \in live \ {dying} => eidOf[addr[element[e]]] = e

Untracked == {a \in live \ {dying} : \A e \in InManager : element[e] # a}

(* A prop that lives comes to have an element, unless the last observer or *)
(* walk that met it passed it over: one that was not marked because a dead *)
(* prop of its address had not been reaped is found by the walk at the end *)
(* of the purge (net_pump.cpp:286-297). *)
LiveTracked == []<>(Untracked \subseteq passedOver)

(* Refuted.  Every prop that lives comes to have an element: one whose key *)
(* is not set yet is left for its next Init (prop_lifecycle.cpp:243-246),  *)
(* but that finds its address processed (187-191). *)
AllTracked == []<>(Untracked = {})

(* Refuted.  The processed addresses are pruned as the actors go           *)
(* (prop_element_tracker.cpp:129).  An address stays if its actor's Init   *)
(* is observed after its destroy, or if the actor is purged and had no     *)
(* element for the reaper to find; the Init of the next actor there        *)
(* announces nothing. *)
ProcessedPruned == []<>(processed \subseteq {addr[a] : a \in live \cup {element[e] : e \in DeadElements}})

(* The ids of props that the engine purged come back, those included whose *)
(* address has a new actor (net_pump.cpp:260-269). *)
DeadReaped == []<>(DeadElements = {})
=============================================================================
