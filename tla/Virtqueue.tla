----------------------------- MODULE Virtqueue -----------------------------
(***************************************************************************)
(* The split virtqueue of the virtio transports: the descriptor table with *)
(* its free list threaded through the "next" fields, the available ring    *)
(* the driver fills and the used ring the device fills.  AddBuf and GetBuf *)
(* run in the driver, one at a time, while the device takes and finishes   *)
(* chains at its own pace; their steps are the points the device can see.  *)
(***************************************************************************)
EXTENDS Integers, Sequences, FiniteSets, Functions

CONSTANTS
    QueueSize,  \* queue_size_
    IdxMod,     \* ring indices are counted modulo this (2^16 in the code)
    Out,        \* guest-physical request buffers
    In          \* guest-physical response buffers

ASSUME QueueAssumption ==
    /\ QueueSize \in Nat \ {0}
    /\ IdxMod \in Nat /\ IdxMod > QueueSize
    /\ IdxMod % QueueSize = 0       \* the device offers a power of two

VARIABLES
    addr, flags, next,              \* the descriptor table
    freeHead, numFree, lastUsed,    \* free_head_, num_free_, last_used_idx_
    availIdx, availRing,            \* written by the driver, read by the device
    usedIdx, usedRing,              \* written by the device, read by the driver
    devIdx, held,                   \* the device: next available entry, chains taken
    pc, head, cur,                  \* the call in progress and its locals
    ret                             \* what the last finished call returned

descTable == <<addr, flags, next>>
freeList  == <<freeHead, numFree>>
device    == <<usedIdx, usedRing, devIdx, held>>
vars == <<descTable, freeList, lastUsed, availIdx, availRing, device, pc, head, cur, ret>>

Desc == 0 .. QueueSize - 1
NoAddr == "no address"
ENOSPC == -28
Empty == -1                         \* GetBuf: nothing completed
Success == 0                        \* a head: callers only ask whether it is negative

Slot(idx) == idx % QueueSize
Inc(idx) == (idx + 1) % IdxMod

(* Initialize / InitializeLegacy: zeroed rings, every descriptor free.     *)
InitDescChain ==
    /\ next = [i \in Desc |-> i + 1]
    /\ freeHead = 0
    /\ numFree = QueueSize
    /\ lastUsed = 0

Init ==
    /\ InitDescChain
    /\ addr = [i \in Desc |-> NoAddr]
    /\ flags = [i \in Desc |-> "none"]
    /\ availIdx = 0 /\ availRing = [i \in Desc |-> 0]
    /\ usedIdx = 0 /\ usedRing = [i \in Desc |-> 0]
    /\ devIdx = 0 /\ held = {}
    /\ pc = "idle" /\ head = 0 /\ cur = 0 /\ ret = Success

-----------------------------------------------------------------------------
(* AddBuf.                                                                 *)

AddBufFull ==
    /\ pc = "idle"
    /\ numFree < 2
    /\ ret' = ENOSPC
    /\ UNCHANGED <<descTable, freeList, lastUsed, availIdx, availRing, device, pc, head, cur>>

(* Both descriptors and the ring slot; the device reads none of them until *)
(* the index behind the barrier moves.                                     *)
AddBuf(out, in) ==
    /\ pc = "idle"
    /\ numFree >= 2
    /\ LET first  == freeHead
           second == next[first]
       IN  /\ addr' = [addr EXCEPT ![first] = out, ![second] = in]
           /\ flags' = [flags EXCEPT ![first] = "next", ![second] = "write"]
           /\ next' = [next EXCEPT ![first] = second]
           /\ freeHead' = next[second]
           /\ availRing' = [availRing EXCEPT ![Slot(availIdx)] = first]
           /\ head' = first
    /\ numFree' = numFree - 2
    /\ pc' = "publish"
    /\ UNCHANGED <<lastUsed, availIdx, device, cur, ret>>

(* (Mutant: the index kept in a type wider than the ring's 16 bits.)       *)
AddPublishWide ==
    /\ pc = "publish"
    /\ availIdx' = availIdx + 1
    /\ ret' = Success
    /\ pc' = "idle" /\ head' = 0
    /\ UNCHANGED <<descTable, freeList, lastUsed, availRing, device, cur>>

AddPublish ==
    /\ pc = "publish"
    /\ availIdx' = Inc(availIdx)
    /\ ret' = Success
    /\ pc' = "idle" /\ head' = 0
    /\ UNCHANGED <<descTable, freeList, lastUsed, availRing, device, cur>>

-----------------------------------------------------------------------------
(* GetBuf.                                                                 *)

GetBufEmpty ==
    /\ pc = "idle"
    /\ lastUsed = usedIdx
    /\ ret' = Empty
    /\ UNCHANGED <<descTable, freeList, lastUsed, availIdx, availRing, device, pc, head, cur>>

(* (Mutant: the indices compared by size, which fails when they wrap.)     *)
GetBufBySize ==
    /\ pc = "idle"
    /\ lastUsed < usedIdx
    /\ cur' = usedRing[Slot(lastUsed)]
    /\ pc' = "free"
    /\ UNCHANGED <<descTable, freeList, lastUsed, availIdx, availRing, device, head, ret>>

GetBuf ==
    /\ pc = "idle"
    /\ lastUsed # usedIdx
    /\ cur' = usedRing[Slot(lastUsed)]
    /\ pc' = "free"
    /\ UNCHANGED <<descTable, freeList, lastUsed, availIdx, availRing, device, head, ret>>

(* (Mutant: the link read after it was overwritten.)                       *)
FreeDescriptorLateRead ==
    /\ pc = "free"
    /\ next' = [next EXCEPT ![cur] = freeHead]
    /\ freeHead' = cur
    /\ numFree' = numFree + 1
    /\ IF flags[cur] = "next" /\ next'[cur] \in Desc
       THEN cur' = next'[cur] /\ pc' = "free"
       ELSE cur' = cur /\ pc' = "bump"
    /\ UNCHANGED <<addr, flags, lastUsed, availIdx, availRing, device, head, ret>>

(* (Mutant: only the head of the chain is returned.)                       *)
FreeHeadOnly ==
    /\ pc = "free"
    /\ next' = [next EXCEPT ![cur] = freeHead]
    /\ freeHead' = cur
    /\ numFree' = numFree + 1
    /\ cur' = cur /\ pc' = "bump"
    /\ UNCHANGED <<addr, flags, lastUsed, availIdx, availRing, device, head, ret>>

(* One turn of the loop that returns the chain to the free list.           *)
FreeDescriptor ==
    /\ pc = "free"
    /\ next' = [next EXCEPT ![cur] = freeHead]
    /\ freeHead' = cur
    /\ numFree' = numFree + 1
    /\ IF flags[cur] = "next"
       THEN cur' = next[cur] /\ pc' = "free"
       ELSE cur' = cur /\ pc' = "bump"
    /\ UNCHANGED <<addr, flags, lastUsed, availIdx, availRing, device, head, ret>>

(* (Mutant: last_used_idx_ not advanced.)                                  *)
GetBufReturnSame ==
    /\ pc = "bump"
    /\ ret' = Success
    /\ pc' = "idle" /\ cur' = 0
    /\ UNCHANGED <<lastUsed, descTable, freeList, availIdx, availRing, device, head>>

GetBufReturn ==
    /\ pc = "bump"
    /\ lastUsed' = Inc(lastUsed)
    /\ ret' = Success
    /\ pc' = "idle" /\ cur' = 0
    /\ UNCHANGED <<descTable, freeList, availIdx, availRing, device, head>>

-----------------------------------------------------------------------------
(* The device, from how the driver uses it: chains are taken in ring order *)
(* and finished in any order, the used element before the used index.      *)

DeviceTake ==
    /\ devIdx # availIdx
    /\ held' = held \union {availRing[Slot(devIdx)]}
    /\ devIdx' = Inc(devIdx)
    /\ UNCHANGED <<usedIdx, usedRing>>
    /\ UNCHANGED <<descTable, freeList, lastUsed, availIdx, availRing, pc, head, cur, ret>>

DeviceFinish(h) ==
    /\ h \in held
    /\ held' = held \ {h}
    /\ usedRing' = [usedRing EXCEPT ![Slot(usedIdx)] = h]
    /\ usedIdx' = Inc(usedIdx)
    /\ UNCHANGED devIdx
    /\ UNCHANGED <<descTable, freeList, lastUsed, availIdx, availRing, pc, head, cur, ret>>

-----------------------------------------------------------------------------
AddBufCall == AddBufFull \/ \E out \in Out, in \in In : AddBuf(out, in)
GetBufCall == GetBufEmpty \/ GetBuf
CallStep == AddPublish \/ FreeDescriptor \/ GetBufReturn
Device == DeviceTake \/ \E h \in Desc : DeviceFinish(h)

Next == AddBufCall \/ GetBufCall \/ CallStep \/ Device

(* A call runs to its end, its user keeps asking for completions (the wait *)
(* loops of the transports), and the device answers every chain in time.   *)
Fairness ==
    /\ WF_vars(CallStep)
    /\ WF_vars(GetBuf)
    /\ WF_vars(DeviceTake)
    /\ \A h \in Desc : WF_vars(DeviceFinish(h))

Spec == Init /\ [][Next]_vars
FairSpec == Spec /\ Fairness

-----------------------------------------------------------------------------
(* Where each chain is, read off the two rings.                            *)

(* The entries of a ring from index lo up to, not including, index hi.     *)
RingEntries(ring, lo, hi) ==
    [k \in 1 .. (hi - lo) % IdxMod |-> ring[Slot(lo + k - 1)]]

OfferedHeads == RingEntries(availRing, devIdx, availIdx)

(* GetBuf has the element once it has read it, before it moves the index.  *)
Consumed == IF pc \in {"free", "bump"} THEN Inc(lastUsed) ELSE lastUsed
DoneHeads == RingEntries(usedRing, Consumed, usedIdx)

InUseHeads == Range(OfferedHeads) \union held \union Range(DoneHeads)

Chain(h) == {h, next[h]}

(* Descriptors a call in progress has in its hands: filled but not yet     *)
(* published, or completed and not yet back on the free list.              *)
InHand ==
    IF pc = "publish" THEN Chain(head)
    ELSE IF pc = "free" THEN IF flags[cur] = "next" THEN Chain(cur) ELSE {cur}
    ELSE {}

-----------------------------------------------------------------------------
(* Properties.                                                             *)

(* Types of the ring state; num_free_ never wraps below zero.              *)
QueueTypeOK ==
    /\ addr \in [Desc -> Out \union In \union {NoAddr}]
    /\ flags \in [Desc -> {"none", "next", "write"}]
    /\ next \in [Desc -> 0 .. QueueSize]
    /\ freeHead \in 0 .. QueueSize /\ numFree \in 0 .. QueueSize
    /\ {lastUsed, availIdx, usedIdx, devIdx} \subseteq 0 .. IdxMod - 1
    /\ availRing \in [Desc -> Desc] /\ usedRing \in [Desc -> Desc]
    /\ held \subseteq Desc
    /\ pc \in {"idle", "publish", "free", "bump"}
    /\ head \in Desc /\ cur \in Desc
    /\ ret \in {Success, ENOSPC, Empty}

(* fl spells the free list: following next from free_head_ visits it in    *)
(* order and ends one past the table.                                      *)
SpelledBy(fl) ==
    /\ freeHead = IF fl = <<>> THEN QueueSize ELSE fl[1]
    /\ \A k \in 1 .. Len(fl) :
          next[fl[k]] = IF k = Len(fl) THEN QueueSize ELSE fl[k + 1]

(* The free list AddBuf takes from and GetBuf returns to is a list of      *)
(* exactly num_free_ distinct descriptors, none of them in a chain the     *)
(* device or a call still uses, and no descriptor is anywhere else: none   *)
(* is lost, handed out twice or freed while in use.                        *)
FreeListSound ==
    \E fl \in [1 .. numFree -> Desc] :
        LET chains == UNION {Chain(h) : h \in InUseHeads}
        IN  /\ SpelledBy(fl)
            /\ IsInjective(fl)
            /\ Range(fl) \intersect (chains \union InHand) = {}
            /\ chains \intersect InHand = {}
            /\ Range(fl) \union chains \union InHand = Desc

(* AddBuf reports -ENOSPC only when the chains in use leave fewer than two *)
(* descriptors: whatever was called before, a free pair is always found.   *)
FullOnlyWhenFull ==
    [][AddBufFull => QueueSize - 2 * Cardinality(InUseHeads) < 2]_vars

(* The rings and descriptors implement the buffer queue: every chain the   *)
(* device sees is one AddBuf was given, unchanged, and every chain comes   *)
(* back from GetBuf exactly once and in the order the device finished.     *)
Queue == INSTANCE BufferQueue WITH
    Token <- Desc,
    Pair <- Out \X In,
    Capacity <- QueueSize \div 2,
    offered <- OfferedHeads,
    owned <- held,
    done <- DoneHeads,
    pair <- [h \in InUseHeads |-> <<addr[h], addr[next[h]]>>]

ImplementsBufferQueue == Queue!Spec

(* If the device answers, every chain given to AddBuf comes back from      *)
(* GetBuf, across any number of wraps of the 16-bit indices.               *)
EveryChainReturns == \A h \in Desc : h \in InUseHeads ~> h \notin InUseHeads
=============================================================================
