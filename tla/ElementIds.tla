----------------------------- MODULE ElementIds -----------------------------
(***************************************************************************)
(* The element layer of one process: the Registry (id allocator and        *)
(* resolver), the MirrorManager<T> owner maps and the ElementDeleter.      *)
(*                                                                         *)
(* The code holds at most one of these mutexes at a time, so an operation  *)
(* is a series of critical sections that other threads may interleave      *)
(* with.  Each action below is one critical section; an element's stage    *)
(* says how far the operation that holds it has come:                      *)
(*    none    not constructed (or destroyed again)                         *)
(*    minted  AllocHostId/AllocLocalId done, not yet in its owner map      *)
(*    placed  in its owner map by Install, not yet registered              *)
(*    losing  RegisterMirror refused it, still in its owner map            *)
(*    owned   in its owner map and registered                              *)
(*    queued  taken out and handed to the ElementDeleter                   *)
(*    doomed  taken out, its destructor about to run                       *)
(* Alloc, Emplace and TakeDeferred run on any engine thread; the others    *)
(* are game-thread operations and run one at a time (GtFree).              *)
(***************************************************************************)
EXTENDS IdRanges

CONSTANTS Elements, Null, Prop, Npc

ASSUME ElementIdsAssumption == Null \notin Elements /\ Prop # Npc

VARIABLES
    me,             \* the slot this process holds, or will be assigned
    byId,           \* Registry::m_byId
    hostFree,       \* Registry::m_hostFree, popped at its end
    localFree,      \* Registry::m_localFree
    activeBand,     \* Registry::m_activeBand
    owner,          \* owner[t]: MirrorManager<t>::m_byId
    stage,          \* where the operation that holds the element is
    typeOf,         \* Element::m_type
    idOf,           \* Element::m_id
    isMirror,       \* Element::m_mirror
    ownerSlot       \* Element::m_ownerSlot

registryVars == <<byId, hostFree, localFree, activeBand>>
elementVars == <<stage, typeOf, idOf, isMirror, ownerSlot>>
vars == <<me, registryVars, owner, elementVars>>

Types == {Prop, Npc}
NoSlot == -1
Stages == {"none", "minted", "placed", "losing", "owned", "queued", "doomed"}

IsHost == me = HostSlot

(* The ids this process mints, and those its peers put on the wire.        *)
OwnIds == IF IsHost THEN HostMintIds ELSE Band(0) \cup Band(me)
WireIds ==
    (IF IsHost THEN {} ELSE HostMintIds)
        \cup UNION {Band(s) : s \in ClientSlotIds \ {me}}

(* senderPeerSlot of the messages that carry a wire id: the peer that      *)
(* minted it.                                                              *)
Origin(id) ==
    IF IsHostId(id) THEN HostSlot ELSE CHOOSE s \in ClientSlotIds : id \in Band(s)

(* The stack AllocHostId or AllocLocalId draws from in this process.       *)
FreeStack == IF IsHost THEN hostFree ELSE localFree

(* Mutant: a drain may run in the middle of an Install.                    *)
GtFreeDuringInstall == \A e \in Elements : stage[e] \notin {"losing", "doomed"}

(* No game-thread operation is between two of its critical sections.       *)
GtFree == \A e \in Elements : stage[e] \notin {"placed", "losing", "doomed"}

Owned(t, id) == owner[t][id] # Null
HeldUnder(e, id) == owner[typeOf[e]][id] = e

-----------------------------------------------------------------------------
Init ==
    /\ me \in PeerSlotIds
    /\ byId = [id \in Ids |-> Null]
    /\ hostFree = DescendingStack(1, HostRangeSize)
    /\ localFree = DescendingStack(BandBase(0), BandEnd(0))
    /\ activeBand = 0
    /\ owner = [t \in Types |-> [id \in Ids |-> Null]]
    /\ stage = [e \in Elements |-> "none"]
    /\ typeOf = [e \in Elements |-> Prop]
    /\ idOf = [e \in Elements |-> InvalidId]
    /\ isMirror = [e \in Elements |-> FALSE]
    /\ ownerSlot = [e \in Elements |-> NoSlot]

(* Registry::SetLocalPeerBand, called once AssignPeerSlot tells a client   *)
(* its slot; the host never calls it, and a second call changes nothing.   *)
SetLocalPeerBand ==
    /\ ~ IsHost /\ activeBand # me /\ GtFree
    /\ activeBand' = me
    /\ localFree' = DescendingStack(BandBase(me), BandEnd(me))
    /\ UNCHANGED <<me, byId, hostFree, owner, elementVars>>

-----------------------------------------------------------------------------
(* Elements this process is the authority of.                              *)

PopFreeStack ==
    IF IsHost THEN hostFree' = Front(hostFree) /\ UNCHANGED localFree
              ELSE localFree' = Front(localFree) /\ UNCHANGED hostFree

(* MirrorManager::AllocAndInstall up to the Registry: pop an id and bind   *)
(* it, or drop it (and the element) when its table slot is occupied.  Npc  *)
(* elements are minted by the host only.                                   *)
Alloc(e, t) ==
    /\ stage[e] = "none" /\ FreeStack # <<>>
    /\ t = Npc => IsHost
    /\ PopFreeStack
    /\ LET id == Last(FreeStack) IN
       IF byId[id] = Null
       THEN /\ byId' = [byId EXCEPT ![id] = e]
            /\ stage' = [stage EXCEPT ![e] = "minted"]
            /\ typeOf' = [typeOf EXCEPT ![e] = t]
            /\ idOf' = [idOf EXCEPT ![e] = id]
       ELSE UNCHANGED <<byId, stage, typeOf, idOf>>
    /\ UNCHANGED <<me, activeBand, owner, isMirror, ownerSlot>>

(* The rest of AllocAndInstall: an id that is already in the owner map     *)
(* costs the new element its life.                                         *)
Emplace(e) ==
    /\ stage[e] = "minted"
    /\ IF Owned(typeOf[e], idOf[e])
       THEN stage' = [stage EXCEPT ![e] = "doomed"] /\ UNCHANGED owner
       ELSE /\ stage' = [stage EXCEPT ![e] = "owned"]
            /\ owner' = [owner EXCEPT ![typeOf[e]][idOf[e]] = e]
    /\ UNCHANGED <<me, registryVars, typeOf, idOf, isMirror, ownerSlot>>

-----------------------------------------------------------------------------
(* Mirrors of elements another process is the authority of.                *)

(* MirrorManager::Install up to the duplicate check and the emplacement.   *)
(* An id that is already mirrored is left alone.                           *)
PlaceMirror(e, t, id) ==
    /\ GtFree /\ stage[e] = "none"
    /\ id \in WireIds /\ ~ Owned(t, id)
    /\ t = Npc => ~ IsHost /\ IsHostId(id)
    /\ owner' = [owner EXCEPT ![t][id] = e]
    /\ stage' = [stage EXCEPT ![e] = "placed"]
    /\ typeOf' = [typeOf EXCEPT ![e] = t]
    /\ ownerSlot' = [ownerSlot EXCEPT ![e] = IF t = Prop THEN Origin(id) ELSE NoSlot]
    /\ UNCHANGED <<me, registryVars, idOf, isMirror>>

(* Mutant: the occupied slot is overwritten.                               *)
RegisterMirrorClobbers(e, id) ==
    /\ stage[e] = "placed" /\ HeldUnder(e, id)
    /\ byId' = [byId EXCEPT ![id] = e]
    /\ idOf' = [idOf EXCEPT ![e] = id]
    /\ isMirror' = [isMirror EXCEPT ![e] = TRUE]
    /\ stage' = [stage EXCEPT ![e] = "owned"]
    /\ UNCHANGED <<me, hostFree, localFree, activeBand, owner, typeOf, ownerSlot>>

(* Registry::RegisterMirror refuses an occupied id.                        *)
RegisterMirror(e, id) ==
    /\ stage[e] = "placed" /\ HeldUnder(e, id)
    /\ IF byId[id] = Null
       THEN /\ byId' = [byId EXCEPT ![id] = e]
            /\ idOf' = [idOf EXCEPT ![e] = id]
            /\ isMirror' = [isMirror EXCEPT ![e] = TRUE]
            /\ stage' = [stage EXCEPT ![e] = "owned"]
       ELSE /\ stage' = [stage EXCEPT ![e] = "losing"]
            /\ UNCHANGED <<byId, idOf, isMirror>>
    /\ UNCHANGED <<me, hostFree, localFree, activeBand, owner, typeOf, ownerSlot>>

RollBackInstall(e, id) ==
    /\ stage[e] = "losing" /\ HeldUnder(e, id)
    /\ owner' = [owner EXCEPT ![typeOf[e]][id] = Null]
    /\ stage' = [stage EXCEPT ![e] = "doomed"]
    /\ UNCHANGED <<me, registryVars, typeOf, idOf, isMirror, ownerSlot>>

-----------------------------------------------------------------------------
(* Leaving the owner map.                                                  *)

(* Take on a wire id, destroyed on the spot (UnregisterPropMirror,         *)
(* npc_mirror::OnEntityDestroy).                                           *)
TakeInline(t, id) ==
    /\ GtFree /\ id \in WireIds /\ Owned(t, id)
    /\ owner' = [owner EXCEPT ![t][id] = Null]
    /\ stage' = [stage EXCEPT ![owner[t][id]] = "doomed"]
    /\ UNCHANGED <<me, registryVars, typeOf, idOf, isMirror, ownerSlot>>

(* ElementDeleter::Enqueue(Take(eid)) on an id of this process's own: the  *)
(* prop tracker's unmark, losing racer and reaper, npc_sync's destroy.     *)
TakeDeferred(t, id) ==
    /\ id \in OwnIds /\ Owned(t, id)
    /\ owner' = [owner EXCEPT ![t][id] = Null]
    /\ stage' = [stage EXCEPT ![owner[t][id]] = "queued"]
    /\ UNCHANGED <<me, registryVars, typeOf, idOf, isMirror, ownerSlot>>

(* A drain moves the chosen elements out under the mutex; their            *)
(* destructors run after it.                                               *)
Drain(t, Chosen(_)) ==
    LET out == {e \in Elements : (\E id \in Ids : owner[t][id] = e) /\ Chosen(e)} IN
    /\ GtFree /\ out # {}
    /\ owner' = [owner EXCEPT ![t] =
                    [id \in Ids |-> IF owner[t][id] \in out THEN Null ELSE owner[t][id]]]
    /\ stage' = [e \in Elements |-> IF e \in out THEN "doomed" ELSE stage[e]]
    /\ UNCHANGED <<me, registryVars, typeOf, idOf, isMirror, ownerSlot>>

DrainMirrorsOnly == Drain(Prop, LAMBDA e : isMirror[e])
DrainMirrorsForSlot(s) ==
    Drain(Prop, LAMBDA e : isMirror[e] /\ ownerSlot[e] = s)
DrainAll == Drain(Npc, LAMBDA e : TRUE)

(* Mutant: a queue of one element counts as empty.                         *)
FlushLeavesOne ==
    /\ GtFree
    /\ \E d, e \in Elements : d # e /\ stage[d] = "queued" /\ stage[e] = "queued"
    /\ stage' = [e \in Elements |-> IF stage[e] = "queued" THEN "doomed" ELSE stage[e]]
    /\ UNCHANGED <<me, registryVars, owner, typeOf, idOf, isMirror, ownerSlot>>

(* ElementDeleter::Flush takes the whole queue, then lets it destruct.     *)
Flush ==
    /\ GtFree /\ \E e \in Elements : stage[e] = "queued"
    /\ stage' = [e \in Elements |-> IF stage[e] = "queued" THEN "doomed" ELSE stage[e]]
    /\ UNCHANGED <<me, registryVars, owner, typeOf, idOf, isMirror, ownerSlot>>

(* Mutant: the freed id is not pushed back.                                *)
FreeIdForgets(id) ==
    /\ byId' = [byId EXCEPT ![id] = Null]
    /\ UNCHANGED <<hostFree, localFree>>

(* Registry::FreeId: only an id that resolves to something is recycled.    *)
FreeId(id) ==
    IF byId[id] = Null
    THEN UNCHANGED <<byId, hostFree, localFree>>
    ELSE /\ byId' = [byId EXCEPT ![id] = Null]
         /\ IF IsHostId(id)
            THEN hostFree' = Append(hostFree, id) /\ UNCHANGED localFree
            ELSE localFree' = Append(localFree, id) /\ UNCHANGED hostFree

(* Mutants: the borrowed id keeps resolving; the borrowed id is recycled.  *)
UnregisterMirrorKeepsSlot(id) == UNCHANGED <<byId, hostFree, localFree>>
UnregisterMirrorRecycles(id) == FreeId(id)

(* Registry::UnregisterMirror: a borrowed id goes on no free stack.        *)
UnregisterMirror(id) ==
    /\ byId' = [byId EXCEPT ![id] = Null]
    /\ UNCHANGED <<hostFree, localFree>>

(* Element::~Element.                                                      *)
Destroy(e) ==
    /\ stage[e] = "doomed"
    /\ CASE idOf[e] = InvalidId -> UNCHANGED <<byId, hostFree, localFree>>
         [] idOf[e] # InvalidId /\ isMirror[e] -> UnregisterMirror(idOf[e])
         [] idOf[e] # InvalidId /\ ~ isMirror[e] -> FreeId(idOf[e])
    /\ stage' = [stage EXCEPT ![e] = "none"]
    /\ typeOf' = [typeOf EXCEPT ![e] = Prop]
    /\ idOf' = [idOf EXCEPT ![e] = InvalidId]
    /\ isMirror' = [isMirror EXCEPT ![e] = FALSE]
    /\ ownerSlot' = [ownerSlot EXCEPT ![e] = NoSlot]
    /\ UNCHANGED <<me, activeBand, owner>>

-----------------------------------------------------------------------------
Next ==
    \/ SetLocalPeerBand
    \/ \E e \in Elements, t \in Types : Alloc(e, t)
    \/ \E e \in Elements : Emplace(e)
    \/ \E e \in Elements, t \in Types, id \in Ids : PlaceMirror(e, t, id)
    \/ \E e \in Elements, id \in Ids : RegisterMirror(e, id)
    \/ \E e \in Elements, id \in Ids : RollBackInstall(e, id)
    \/ \E t \in Types, id \in Ids : TakeInline(t, id)
    \/ \E t \in Types, id \in Ids : TakeDeferred(t, id)
    \/ DrainMirrorsOnly
    \/ \E s \in PeerSlotIds : DrainMirrorsForSlot(s)
    \/ DrainAll
    \/ Flush
    \/ \E e \in Elements : Destroy(e)

(* An operation that is under way goes on.  net_pump::Tick flushes first   *)
(* thing in every tick, whatever else the game thread does between two     *)
(* ticks: strong fairness, because those operations take GtFree away again *)
(* and again.                                                              *)
Fairness ==
    /\ SF_vars(Flush)
    /\ WF_vars(\E e \in Elements, id \in Ids : RegisterMirror(e, id))
    /\ WF_vars(\E e \in Elements, id \in Ids : RollBackInstall(e, id))
    /\ \A e \in Elements : WF_vars(Emplace(e)) /\ WF_vars(Destroy(e))

Spec == Init /\ [][Next]_vars
FairSpec == Spec /\ Fairness

-----------------------------------------------------------------------------
TypeOK ==
    /\ me \in PeerSlotIds
    /\ byId \in [Ids -> Elements \cup {Null}]
    /\ hostFree \in Seq(Ids)
    /\ localFree \in Seq(Ids)
    /\ activeBand \in PeerSlotIds
    /\ owner \in [Types -> [Ids -> Elements \cup {Null}]]
    /\ stage \in [Elements -> Stages]
    /\ typeOf \in [Elements -> Types]
    /\ idOf \in [Elements -> Ids \cup {InvalidId}]
    /\ isMirror \in [Elements -> BOOLEAN]
    /\ ownerSlot \in [Elements -> PeerSlotIds \cup {NoSlot}]

(* Registry::Get never hands out a destroyed element, nor one that goes by *)
(* another id (registry.cpp:229 with element.cpp:45).                      *)
ResolvesToLiveElement ==
    \A id \in Ids : byId[id] # Null =>
        /\ stage[byId[id]] \in {"minted", "owned", "queued", "doomed"}
        /\ idOf[byId[id]] = id

(* An element reached through an owner map is the one its id resolves to,  *)
(* once Install or AllocAndInstall has returned.                           *)
OwnerMapsAgree ==
    \A t \in Types, id \in Ids : Owned(t, id) =>
        /\ typeOf[owner[t][id]] = t
        /\ stage[owner[t][id]] \in {"placed", "losing", "owned"}
        /\ stage[owner[t][id]] = "owned" => byId[id] = owner[t][id]

(* The ids that wait to be minted are this process's own, each waits once, *)
(* and none is in use: the divergence branch of AllocHostId, AllocLocalId  *)
(* and AllocAndInstall "NEVER fires in correct operation"                  *)
(* (registry.cpp:142, mirror_manager.h:207).                               *)
FreeIdsUnused ==
    /\ ToSet(FreeStack) \subseteq OwnIds
    /\ IsInjective(FreeStack)
    /\ \A id \in ToSet(FreeStack) :
          byId[id] = Null /\ \A t \in Types : ~ Owned(t, id)

-----------------------------------------------------------------------------
(* The inductive invariant behind the safety properties.                   *)

(* The ids this process may have minted so far. *)
MintedIds == IF IsHost THEN HostMintIds ELSE Band(0) \cup Band(activeBand)

(* An element has an id exactly while the table resolves that id to it; a  *)
(* mirror's id was minted elsewhere, any other here.                       *)
IdsConsistent ==
    /\ activeBand \in {0, me}
    /\ \A e \in Elements : idOf[e] # InvalidId =>
          /\ byId[idOf[e]] = e
          /\ idOf[e] \in (IF isMirror[e] THEN WireIds ELSE MintedIds)
    /\ \A id \in Ids : byId[id] # Null => idOf[byId[id]] = id

(* What the stage of an element says of its id. *)
StagesConsistent ==
    \A e \in Elements :
        /\ stage[e] \in {"none", "placed", "losing"} => idOf[e] = InvalidId
        /\ stage[e] \in {"minted", "owned", "queued"} => idOf[e] # InvalidId
        /\ stage[e] = "minted" => ~ isMirror[e]
        /\ idOf[e] = InvalidId => ~ isMirror[e]

(* An owner map holds an element of its type under one id, its own id or,  *)
(* before it is registered, the wire id it asks for.                       *)
OwnersConsistent ==
    /\ \A t \in Types, id \in Ids : Owned(t, id) =>
          /\ typeOf[owner[t][id]] = t
          /\ stage[owner[t][id]] \in {"placed", "losing", "owned"}
          /\ stage[owner[t][id]] = "owned" => idOf[owner[t][id]] = id
          /\ stage[owner[t][id]] # "owned" => id \in WireIds
    /\ \A t \in Types, i, j \in Ids :
          Owned(t, i) /\ owner[t][i] = owner[t][j] => i = j

(* The free stack in use holds, each once, ids of this process that resolve*)
(* to nothing, and no unused id of the active area is missing.             *)
StackConsistent ==
    /\ IsInjective(FreeStack)
    /\ \A id \in ToSet(FreeStack) : id \in MintedIds /\ byId[id] = Null
    /\ \A id \in (IF IsHost THEN HostMintIds ELSE Band(activeBand)) :
          byId[id] = Null => id \in ToSet(FreeStack)

IInv ==
    TypeOK /\ IdsConsistent /\ StagesConsistent /\ OwnersConsistent /\ StackConsistent

-----------------------------------------------------------------------------
MintArea == IF IsHost THEN HostMintIds ELSE Band(activeBand)

(* No id of the active mint area leaks: it is in use or can be minted, in  *)
(* spite of drains, rollbacks, deferred destruction and the band switch.   *)
NoIdLeak ==
    \A id \in MintArea : byId[id] = Null => id \in ToSet(FreeStack)

(* A disconnect drain leaves no wire mirror of a prop behind, not even one *)
(* whose Install is half done (mirror_manager.h:297-315).                  *)
NoMirrorOutlivesDrain ==
    [][DrainMirrorsOnly => \A id \in WireIds : ~ Owned(Prop, id)']_vars

(* What the registry promises: ids are never rebound over a living element.*)
Table == INSTANCE IdTable WITH table <- byId, avail <- ToSet(FreeStack)
ImplementsIdTable == Table!Spec

(* Every element handed to the ElementDeleter gets destroyed.              *)
QueuedEventuallyDestroyed ==
    \A e \in Elements : stage[e] = "queued" ~> stage[e] = "none"
=============================================================================
