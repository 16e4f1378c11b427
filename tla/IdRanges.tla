------------------------------ MODULE IdRanges ------------------------------
(***************************************************************************)
(* The ElementId space of coop/element/{element.h,registry.h,registry.cpp}.*)
(*                                                                         *)
(* Ids 0 .. HostRangeSize-1 are minted by the host and the rest, the peer  *)
(* range, by the clients.  The peer range is cut into PeerBandCount bands: *)
(* band 0 serves a client that does not know its slot yet, band s the      *)
(* client that holds slot s.  Id 0 never names an element.                 *)
(***************************************************************************)
EXTENDS Integers, SequencesExt

CONSTANTS
    HostRangeSize,      \* kHostRangeSize, 32768 in the build
    MaxElements,        \* kMaxElements, 65536 in the build
    PeerBandCount       \* kPeerBandCount = kMaxPeers, 4 in the build

ASSUME IdRangesAssumption ==
    /\ HostRangeSize \in Nat \ {0, 1}
    /\ PeerBandCount \in Nat \ {0, 1}
    /\ MaxElements \in Nat
    /\ MaxElements >= HostRangeSize + PeerBandCount

HostSlot == 0
PeerSlotIds == 0 .. PeerBandCount - 1
ClientSlotIds == PeerSlotIds \ {HostSlot}

Ids == 0 .. MaxElements - 1
InvalidId == -1                     \* kInvalidId: no index of the table

IsHostId(id) == id < HostRangeSize
HostMintIds == 1 .. HostRangeSize - 1

SlotBandSize == (MaxElements - HostRangeSize) \div PeerBandCount
BandBase(band) == HostRangeSize + band * SlotBandSize

(* The last band absorbs the remainder of the division. *)
BandEnd(band) ==
    IF band + 1 = PeerBandCount THEN MaxElements ELSE BandBase(band) + SlotBandSize

Band(band) == BandBase(band) .. BandEnd(band) - 1

(* Mutant: starts one id too high.                                         *)
DescendingStackOffByOne(lo, hi) == [i \in 1 .. hi - lo |-> hi - i + 1]

(* The ids lo .. hi-1 pushed in descending order: the last one, which is   *)
(* the first to be popped, is the lowest.                                  *)
DescendingStack(lo, hi) == [i \in 1 .. hi - lo |-> hi - i]

(* IsAllowedSenderEid: what a receiver lets through, given who sent it.    *)
IsAllowedHostAllocatedEid(id) == id \in Ids /\ id >= 1 /\ IsHostId(id)
IsAllowedPeerAllocatedEid(id) == id \in Ids /\ ~ IsHostId(id)
IsAllowedSenderEid(senderIsHost, id) ==
    IF senderIsHost THEN IsAllowedHostAllocatedEid(id)
                    ELSE IsAllowedPeerAllocatedEid(id)
=============================================================================
