--------------------------- MODULE VirtqueueProofs ---------------------------
(***************************************************************************)
(* Proofs about Virtqueue.tla, for every queue size, every width of the    *)
(* ring indices and any sets of buffers: the free list is sound, -ENOSPC   *)
(* means full, and the rings and descriptors implement the buffer queue.   *)
(***************************************************************************)
EXTENDS Virtqueue, FiniteSetTheorems, TLAPS

-----------------------------------------------------------------------------
(* Arithmetic of ring indices.                                             *)

\* What a remainder is.
LEMMA DivMod ==
    ASSUME NEW x \in Int, NEW n \in Nat \ {0}
    PROVE  /\ x % n \in 0 .. n - 1
           /\ \E q \in Int : x = q * n + (x % n)
<1>1. x \div n \in Int
  OBVIOUS
<1>2. x % n \in 0 .. n - 1
  OBVIOUS
<1>3. x = n * (x \div n) + (x % n)
  OBVIOUS
<1>4. n * (x \div n) = (x \div n) * n
  BY <1>1
<1> QED
  BY <1>1, <1>2, <1>3, <1>4

\* A remainder is known by one quotient that fits.
LEMMA ModOf ==
    ASSUME NEW x \in Int, NEW n \in Nat \ {0}, NEW q \in Int,
           NEW r \in 0 .. n - 1, x = q * n + r
    PROVE  x % n = r
<1>1. PICK s \in 0 .. n - 1 : s = x % n
  BY DivMod
<1>2. PICK p \in Int : x = p * n + s
  BY <1>1, DivMod
<1>3. (q - p) * n = s - r
  BY <1>2
<1>4. ~(q - p >= 1)
  <2> SUFFICES ASSUME q - p >= 1 PROVE FALSE
    OBVIOUS
  <2>1. (q - p) * n >= n
    OBVIOUS
  <2> QED
    BY <1>3, <2>1
<1>5. ~(q - p <= -1)
  <2> SUFFICES ASSUME q - p <= -1 PROVE FALSE
    OBVIOUS
  <2>1. (q - p) * n <= -n
    OBVIOUS
  <2> QED
    BY <1>3, <2>1
<1>6. q = p
  BY <1>4, <1>5
<1> QED
  BY <1>1, <1>3, <1>6

\* The sizes, without what their remainder says.
LEMMA Sizes == QueueSize \in Nat \ {0} /\ IdxMod \in Nat \ {0} /\ IdxMod > QueueSize
BY QueueAssumption

\* A slot is an index without the turns of the ring.
LEMMA SlotOf ==
    ASSUME NEW x \in Int
    PROVE  /\ Slot(x) \in 0 .. QueueSize - 1
           /\ \E q \in Int : x = q * QueueSize + Slot(x)
BY Sizes, DivMod DEF Slot

\* The index counts whole turns of the ring.
LEMMA TurnsOfRing == \E c \in Int : IdxMod = c * QueueSize
<1>1. ASSUME NEW x \in Int, NEW n \in Nat \ {0}, x % n = 0
      PROVE  \E c \in Int : x = c * n
  <2>1. PICK c \in Int : x = c * n + (x % n)
    BY DivMod
  <2>2. c * n + 0 = c * n
    OBVIOUS
  <2>3. x = c * n
    BY <1>1, <2>1, <2>2
  <2> QED
    BY <2>3
<1>2. IdxMod \in Int /\ QueueSize \in Nat \ {0} /\ IdxMod % QueueSize = 0
  BY QueueAssumption
<1> QED
  BY <1>1, <1>2

\* Slots repeat with every turn of the index, and only so.
LEMMA SlotFacts ==
    ASSUME NEW x \in Nat
    PROVE  /\ Slot(x) \in Desc
           /\ Slot(x + IdxMod) = Slot(x)
           /\ \A y \in Nat : x < y /\ y < x + QueueSize => Slot(x) # Slot(y)
<1>1. Slot(x) \in Desc
  BY SlotOf DEF Desc
<1>2. Slot(x + IdxMod) = Slot(x)
  <2>1. PICK q \in Int : x = q * QueueSize + Slot(x)
    BY SlotOf
  <2>3. PICK c \in Int : IdxMod = c * QueueSize
    BY TurnsOfRing
  <2>4. Slot(x) \in 0 .. QueueSize - 1 /\ Slot(x + IdxMod) \in 0 .. QueueSize - 1
    BY SlotOf, Sizes
  <2>5. (q + c) * QueueSize = q * QueueSize + c * QueueSize /\ q + c \in Int
    BY Sizes
  <2>6. x + IdxMod = (q + c) * QueueSize + Slot(x)
    BY <2>1, <2>3, <2>4, <2>5, Sizes
  <2>7. PICK y \in Int, m \in Int : y = x + IdxMod /\ m = q + c
    BY <2>5, Sizes
  <2>8. y = m * QueueSize + Slot(x)
    BY <2>6, <2>7
  <2>9. y % QueueSize = Slot(x)
    BY <2>4, <2>8, ModOf, Sizes
  <2> QED
    BY <2>7, <2>9 DEF Slot
<1>3. ASSUME NEW y \in Nat, x < y, y < x + QueueSize, Slot(x) = Slot(y)
      PROVE  FALSE
  <2>1. PICK q \in Int : x = q * QueueSize + Slot(x)
    BY SlotOf
  <2>2. PICK p \in Int : y = p * QueueSize + Slot(y)
    BY SlotOf
  <2>3. Slot(x) \in Int /\ q * QueueSize \in Int /\ p * QueueSize \in Int
    BY SlotOf, Sizes
  <2>4. y - x = p * QueueSize - q * QueueSize
    BY <1>3, <2>1, <2>2, <2>3
  <2>5. p * QueueSize - q * QueueSize = (p - q) * QueueSize
    BY Sizes
  <2>6. CASE p - q >= 1
    <3>1. (p - q) * QueueSize >= QueueSize
      BY <2>6, Sizes
    <3> QED
      BY <1>3, <2>4, <2>5, <3>1, Sizes
  <2>7. CASE p - q <= 0
    <3>1. (p - q) * QueueSize <= 0
      BY <2>7, Sizes
    <3> QED
      BY <1>3, <2>4, <2>5, <3>1, Sizes
  <2> QED
    BY <2>6, <2>7
<1> QED
  BY <1>1, <1>2, <1>3

Idx == 0 .. IdxMod - 1

\* How many entries are between two indices.
Ahead(lo, hi) == (hi - lo) % IdxMod

\* Counting with indices that wrap.
LEMMA AheadIs ==
    ASSUME NEW lo \in Idx, NEW hi \in Idx
    PROVE  /\ Ahead(lo, hi) = IF lo <= hi THEN hi - lo ELSE hi - lo + IdxMod
           /\ Inc(hi) = IF hi + 1 = IdxMod THEN 0 ELSE hi + 1
           /\ Inc(hi) \in Idx
<1>1. lo <= hi => Ahead(lo, hi) = hi - lo
  <2> SUFFICES ASSUME lo <= hi PROVE Ahead(lo, hi) = hi - lo
    OBVIOUS
  <2>1. hi - lo \in 0 .. IdxMod - 1 /\ hi - lo = 0 * IdxMod + (hi - lo)
    BY Sizes DEF Idx
  <2> QED
    BY <2>1, ModOf, Sizes DEF Ahead
<1>2. lo > hi => Ahead(lo, hi) = hi - lo + IdxMod
  <2> SUFFICES ASSUME lo > hi PROVE Ahead(lo, hi) = hi - lo + IdxMod
    OBVIOUS
  <2>1. /\ hi - lo + IdxMod \in 0 .. IdxMod - 1 /\ hi - lo \in Int
        /\ hi - lo = (-1) * IdxMod + (hi - lo + IdxMod)
    BY Sizes DEF Idx
  <2> QED
    BY <2>1, ModOf, Sizes DEF Ahead
<1>3. hi + 1 = IdxMod => Inc(hi) = 0
  <2> SUFFICES ASSUME hi + 1 = IdxMod PROVE Inc(hi) = 0
    OBVIOUS
  <2>1. hi + 1 = 1 * IdxMod + 0 /\ 0 \in 0 .. IdxMod - 1 /\ hi + 1 \in Int
    BY Sizes DEF Idx
  <2> QED
    BY <2>1, ModOf, Sizes DEF Inc
<1>4. hi + 1 # IdxMod => Inc(hi) = hi + 1
  <2> SUFFICES ASSUME hi + 1 # IdxMod PROVE Inc(hi) = hi + 1
    OBVIOUS
  <2>1. hi + 1 \in 0 .. IdxMod - 1 /\ hi + 1 = 0 * IdxMod + (hi + 1)
    BY Sizes DEF Idx
  <2> QED
    BY <2>1, ModOf, Sizes DEF Inc
<1>5. lo \in Int /\ hi \in Int /\ Inc(hi) \in Idx
  BY <1>3, <1>4, Sizes DEF Idx
<1> QED
  BY <1>1, <1>2, <1>3, <1>4, <1>5

\* The distance grows and shrinks with the indices.
LEMMA AheadMoves ==
    ASSUME NEW lo \in Idx, NEW hi \in Idx
    PROVE  /\ Ahead(lo, hi) \in Nat
           /\ Ahead(lo, hi) = 0 <=> lo = hi
           /\ Ahead(lo, hi) + 1 < IdxMod => Ahead(lo, Inc(hi)) = Ahead(lo, hi) + 1
           /\ lo # hi => Ahead(Inc(lo), hi) = Ahead(lo, hi) - 1
           /\ Slot(lo + Ahead(lo, hi)) = Slot(hi)
<1>1. Inc(hi) \in Idx /\ Inc(lo) \in Idx
  BY AheadIs
<1>2. /\ Ahead(lo, hi) = IF lo <= hi THEN hi - lo ELSE hi - lo + IdxMod
      /\ Ahead(lo, Inc(hi)) = IF lo <= Inc(hi) THEN Inc(hi) - lo
                              ELSE Inc(hi) - lo + IdxMod
      /\ Ahead(Inc(lo), hi) = IF Inc(lo) <= hi THEN hi - Inc(lo)
                              ELSE hi - Inc(lo) + IdxMod
      /\ Inc(hi) = IF hi + 1 = IdxMod THEN 0 ELSE hi + 1
      /\ Inc(lo) = IF lo + 1 = IdxMod THEN 0 ELSE lo + 1
  BY <1>1, AheadIs
<1>3. lo \in 0 .. IdxMod - 1 /\ hi \in 0 .. IdxMod - 1
  BY DEF Idx
<1>4. Ahead(lo, hi) \in Nat /\ (Ahead(lo, hi) = 0 <=> lo = hi)
  BY <1>2, <1>3, Sizes
<1>5. Ahead(lo, hi) + 1 < IdxMod => Ahead(lo, Inc(hi)) = Ahead(lo, hi) + 1
  BY <1>2, <1>3, Sizes
<1>6. lo # hi => Ahead(Inc(lo), hi) = Ahead(lo, hi) - 1
  BY <1>2, <1>3, Sizes
<1>7. lo + Ahead(lo, hi) = hi \/ lo + Ahead(lo, hi) = hi + IdxMod
  BY <1>2, <1>3, Sizes
<1>8. Slot(lo + Ahead(lo, hi)) = Slot(hi)
  BY <1>3, <1>7, SlotFacts
<1> QED
  BY <1>4, <1>5, <1>6, <1>8

-----------------------------------------------------------------------------
(* What is in a ring between two indices.                                  *)

\* The entries are a sequence.
LEMMA EntriesAre ==
    ASSUME NEW ring \in [Desc -> Desc], NEW lo \in Idx, NEW hi \in Idx
    PROVE  /\ RingEntries(ring, lo, hi) \in [1 .. Ahead(lo, hi) -> Desc]
           /\ \A k \in 1 .. Ahead(lo, hi) :
                RingEntries(ring, lo, hi)[k] = ring[Slot(lo + k - 1)]
<1>1. ASSUME NEW k \in 1 .. Ahead(lo, hi)
      PROVE  Slot(lo + k - 1) \in Desc
  BY AheadMoves, SlotFacts DEF Idx
<1> QED
  BY <1>1 DEF RingEntries, Ahead

\* A slot behind the last entry may be written while the ring is not full.
LEMMA EntriesStay ==
    ASSUME NEW ring \in [Desc -> Desc], NEW lo \in Idx, NEW hi \in Idx,
           NEW h \in Desc, Ahead(lo, hi) < QueueSize
    PROVE  RingEntries([ring EXCEPT ![Slot(hi)] = h], lo, hi) = RingEntries(ring, lo, hi)
<1> DEFINE n == Ahead(lo, hi)
           new == [ring EXCEPT ![Slot(hi)] = h]
<1>1. n \in Nat /\ Slot(lo + n) = Slot(hi)
  BY AheadMoves
<1>2. new \in [Desc -> Desc]
  OBVIOUS
<1>3. ASSUME NEW k \in 1 .. n
      PROVE  new[Slot(lo + k - 1)] = ring[Slot(lo + k - 1)]
  <2>1. lo + k - 1 \in Nat /\ lo + n \in Nat /\ lo + k - 1 < lo + n
        /\ lo + n < lo + k - 1 + QueueSize
    BY <1>1, Sizes DEF Idx
  <2>2. Slot(lo + k - 1) # Slot(hi) /\ Slot(lo + k - 1) \in Desc
    BY <1>1, <2>1, SlotFacts
  <2> QED
    BY <2>2
<1>4. /\ RingEntries(new, lo, hi) = [k \in 1 .. n |-> new[Slot(lo + k - 1)]]
      /\ RingEntries(ring, lo, hi) = [k \in 1 .. n |-> ring[Slot(lo + k - 1)]]
  <2> HIDE DEF new
  <2> QED
    BY DEF RingEntries, Ahead
<1>5. RingEntries(new, lo, hi) = RingEntries(ring, lo, hi)
  <2> HIDE DEF new, n
  <2> QED
    BY <1>3, <1>4
<1> QED
  BY <1>5

\* The index moves on: one entry more at the end.
LEMMA EntriesGrow ==
    ASSUME NEW ring \in [Desc -> Desc], NEW lo \in Idx, NEW hi \in Idx,
           Ahead(lo, hi) < QueueSize
    PROVE  RingEntries(ring, lo, Inc(hi)) =
               [k \in 1 .. Ahead(lo, hi) + 1 |->
                    IF k <= Ahead(lo, hi) THEN RingEntries(ring, lo, hi)[k]
                    ELSE ring[Slot(hi)]]
<1>1. /\ Ahead(lo, Inc(hi)) = Ahead(lo, hi) + 1 /\ Ahead(lo, hi) \in Nat
      /\ Slot(lo + Ahead(lo, hi)) = Slot(hi)
  BY AheadMoves, Sizes
<1>2. ASSUME NEW k \in 1 .. Ahead(lo, hi) + 1
      PROVE  ring[Slot(lo + k - 1)] = IF k <= Ahead(lo, hi)
                                      THEN RingEntries(ring, lo, hi)[k]
                                      ELSE ring[Slot(hi)]
  <2>1. CASE k <= Ahead(lo, hi)
    BY <1>1, <2>1, EntriesAre
  <2>2. CASE k = Ahead(lo, hi) + 1
    BY <1>1, <2>2, lo + k - 1 = lo + Ahead(lo, hi) DEF Idx
  <2> QED
    BY <1>1, <2>1, <2>2
<1> QED
  BY <1>1, <1>2 DEF RingEntries, Ahead

\* The other one moves on: the first entry is gone.
LEMMA EntriesShrink ==
    ASSUME NEW ring \in [Desc -> Desc], NEW lo \in Idx, NEW hi \in Idx, lo # hi
    PROVE  /\ Ahead(lo, hi) >= 1
           /\ RingEntries(ring, lo, hi)[1] = ring[Slot(lo)]
           /\ RingEntries(ring, Inc(lo), hi) =
                 [k \in 1 .. Ahead(lo, hi) - 1 |-> RingEntries(ring, lo, hi)[k + 1]]
<1>1. Ahead(Inc(lo), hi) = Ahead(lo, hi) - 1 /\ Ahead(lo, hi) \in Nat /\ Ahead(lo, hi) # 0
  BY AheadMoves
<1>2. /\ Inc(lo) = IF lo + 1 = IdxMod THEN 0 ELSE lo + 1
      /\ lo \in 0 .. IdxMod - 1
  BY AheadIs DEF Idx
<1>3. ASSUME NEW k \in 1 .. Ahead(lo, hi) - 1
      PROVE  ring[Slot(Inc(lo) + k - 1)] = RingEntries(ring, lo, hi)[k + 1]
  <2>1. Slot(Inc(lo) + k - 1) = Slot(lo + (k + 1) - 1)
    <3>1. CASE lo + 1 = IdxMod
      <4>1. /\ Inc(lo) + k - 1 \in Nat
            /\ lo + (k + 1) - 1 = (Inc(lo) + k - 1) + IdxMod
        BY <1>1, <1>2, <3>1, Sizes
      <4> QED
        BY <4>1, SlotFacts
    <3>2. CASE lo + 1 # IdxMod
      <4>1. Inc(lo) + k - 1 = lo + (k + 1) - 1
        BY <1>1, <1>2, <3>2, Sizes
      <4> QED
        BY <4>1
    <3> QED
      BY <3>1, <3>2
  <2>2. k + 1 \in 1 .. Ahead(lo, hi)
    BY <1>1
  <2> QED
    BY <2>1, <2>2, EntriesAre
<1>4. RingEntries(ring, lo, hi)[1] = ring[Slot(lo)]
  <2>1. 1 \in 1 .. Ahead(lo, hi) /\ lo + 1 - 1 = lo
    BY <1>1, <1>2
  <2> QED
    BY <2>1, EntriesAre
<1>5. RingEntries(ring, Inc(lo), hi) =
          [k \in 1 .. Ahead(Inc(lo), hi) |-> ring[Slot(Inc(lo) + k - 1)]]
  BY DEF RingEntries, Ahead
<1>6. Ahead(lo, hi) >= 1
  BY <1>1
<1> QED
  BY <1>1, <1>3, <1>4, <1>5, <1>6
-----------------------------------------------------------------------------
(* Adding an entry at the end and taking the first one.                    *)

\* One entry more.
LEMMA Grown ==
    ASSUME NEW n \in Nat, NEW S, NEW s \in [1 .. n -> S], NEW h \in S,
           NEW t \in [1 .. n + 1 -> S],
           t[n + 1] = h, \A k \in 1 .. n : t[k] = s[k]
    PROVE  /\ Range(t) = Range(s) \union {h}
           /\ IsInjective(s) /\ h \notin Range(s) => IsInjective(t)
<1>1. DOMAIN s = 1 .. n /\ DOMAIN t = 1 .. n + 1
  OBVIOUS
<1>2. t[n + 1] = h /\ \A k \in 1 .. n : t[k] = s[k]
  OBVIOUS
<1>3. 1 .. n + 1 = (1 .. n) \union {n + 1}
  OBVIOUS
<1>4. Range(t) = Range(s) \union {h}
  BY <1>1, <1>2, <1>3 DEF Range
<1>5. ASSUME IsInjective(s), h \notin Range(s), NEW j \in 1 .. n + 1,
             NEW k \in 1 .. n + 1, t[j] = t[k]
      PROVE  j = k
  <2>1. \A i \in 1 .. n : s[i] # h
    BY <1>1, <1>5 DEF Range
  <2> QED
    BY <1>1, <1>2, <1>3, <1>5, <2>1 DEF IsInjective
<1> QED
  BY <1>1, <1>4, <1>5 DEF IsInjective

\* The first one gone.
LEMMA Shrunk ==
    ASSUME NEW n \in Nat \ {0}, NEW S, NEW s \in [1 .. n -> S],
           NEW t \in [1 .. n - 1 -> S], \A k \in 1 .. n - 1 : t[k] = s[k + 1]
    PROVE  /\ Range(s) = Range(t) \union {s[1]}
           /\ IsInjective(s) => IsInjective(t) /\ s[1] \notin Range(t)
<1>1. DOMAIN s = 1 .. n /\ DOMAIN t = 1 .. n - 1
  OBVIOUS
<1>2. \A k \in 1 .. n - 1 : t[k] = s[k + 1] /\ k + 1 \in 1 .. n
  OBVIOUS
<1>3. \A j \in 1 .. n : j # 1 => j - 1 \in 1 .. n - 1 /\ t[j - 1] = s[j]
  OBVIOUS
<1>4. Range(s) = Range(t) \union {s[1]}
  <2>1. ASSUME NEW x \in Range(s) PROVE x \in Range(t) \union {s[1]}
    <3>1. PICK j \in 1 .. n : x = s[j]
      BY <1>1, <2>1 DEF Range
    <3> QED
      BY <1>1, <1>3, <3>1 DEF Range
  <2>2. ASSUME NEW x \in Range(t) PROVE x \in Range(s)
    BY <1>1, <1>2, <2>2 DEF Range
  <2>3. s[1] \in Range(s)
    BY <1>1 DEF Range
  <2> QED
    BY <2>1, <2>2, <2>3
<1>5. ASSUME IsInjective(s) PROVE IsInjective(t) /\ s[1] \notin Range(t)
  <2>1. ASSUME NEW j \in 1 .. n - 1, NEW k \in 1 .. n - 1, t[j] = t[k] PROVE j = k
    <3>1. j + 1 = k + 1
      BY <1>1, <1>2, <1>5, <2>1 DEF IsInjective
    <3> QED
      BY <3>1
  <2>2. ASSUME NEW k \in 1 .. n - 1, t[k] = s[1] PROVE FALSE
    <3>1. k + 1 = 1
      BY <1>1, <1>2, <1>5, <2>2 DEF IsInjective
    <3> QED
      BY <3>1
  <2> QED
    BY <1>1, <2>1, <2>2 DEF IsInjective, Range
<1> QED
  BY <1>4, <1>5

-----------------------------------------------------------------------------
(* The inductive invariant.                                                *)

\* Heads of the chains that exist: the device's, or in the hands of a call.
HandHeads == IF pc = "publish" THEN {head}
             ELSE IF pc = "free" /\ flags[cur] = "next" THEN {cur} ELSE {}
Heads == InUseHeads \union HandHeads

\* The second half of a chain whose first is free again.
Remnant == IF pc = "free" /\ flags[cur] # "next" THEN {cur} ELSE {}

Busy == {d \in Desc : d \in Remnant \/ \E h \in Heads : d = h \/ d = next[h]}

\* Every chain is as AddBuf made it.
Whole(h) == /\ h \in Desc /\ flags[h] = "next" /\ addr[h] \in Out
            /\ next[h] \in Desc /\ flags[next[h]] = "write"
            /\ addr[next[h]] \in In
ChainsWhole == /\ \A h \in Heads : Whole(h)
               /\ \A d \in Remnant : d \in Desc /\ flags[d] = "write"

\* No descriptor is in two chains.
ChainsApart == /\ \A g \in Heads, h \in Heads : next[g] = next[h] => g = h
               /\ \A d \in Remnant, h \in Heads : next[h] # d
               /\ HandHeads \intersect InUseHeads = {}

\* No head is in two places.
Once == /\ IsInjective(OfferedHeads) /\ IsInjective(DoneHeads)
        /\ Range(OfferedHeads) \intersect held = {}
        /\ Range(OfferedHeads) \intersect Range(DoneHeads) = {}
        /\ held \intersect Range(DoneHeads) = {}

\* The free list, entry by entry.
FreeList(fl) ==
    /\ freeHead = IF numFree = 0 THEN QueueSize ELSE fl[1]
    /\ \A k \in 1 .. numFree :
          next[fl[k]] = IF k = numFree THEN QueueSize ELSE fl[k + 1]
    /\ \A j \in 1 .. numFree, k \in 1 .. numFree : fl[j] = fl[k] => j = k
    /\ \A k \in 1 .. numFree : fl[k] \notin Busy
    /\ \A d \in Desc : d \in Busy \/ \E k \in 1 .. numFree : fl[k] = d
FreeListIs == \E fl \in [1 .. numFree -> Desc] : FreeList(fl)

\* Every descriptor is counted, a chain's head for two.
Offered == Ahead(devIdx, availIdx)
Done    == Ahead(Consumed, usedIdx)
InHandCount == IF pc = "publish" THEN 2
               ELSE IF pc = "free" THEN IF flags[cur] = "next" THEN 2 ELSE 1
               ELSE 0
Counted == 2 * (Offered + Cardinality(held) + Done) + InHandCount + numFree
               = QueueSize

\* Where the calls in progress are.
CallsFit == /\ pc = "publish" => availRing[Slot(availIdx)] = head
            /\ pc \in {"free", "bump"} => lastUsed # usedIdx

QueueInv == /\ QueueTypeOK /\ ChainsWhole /\ ChainsApart /\ Once /\ FreeListIs
            /\ Counted /\ CallsFit

-----------------------------------------------------------------------------
(* What follows from the invariant at once.                                *)

\* Types of what is read off the rings.
LEMMA RingTypes ==
    ASSUME QueueTypeOK
    PROVE  /\ devIdx \in Idx /\ availIdx \in Idx /\ usedIdx \in Idx
           /\ lastUsed \in Idx /\ Consumed \in Idx
           /\ Offered \in Nat /\ Done \in Nat /\ Cardinality(held) \in Nat
           /\ IsFiniteSet(held) /\ numFree \in Nat
           /\ OfferedHeads \in [1 .. Offered -> Desc]
           /\ DoneHeads \in [1 .. Done -> Desc]
           /\ InUseHeads \subseteq Desc /\ Heads \subseteq Desc
<1>1. /\ devIdx \in Idx /\ availIdx \in Idx /\ usedIdx \in Idx /\ lastUsed \in Idx
      /\ numFree \in Nat
  BY Sizes DEF QueueTypeOK, Idx
<1>2. Consumed \in Idx
  BY <1>1, AheadIs DEF Consumed
<1>3. Offered \in Nat /\ Done \in Nat
  BY <1>1, <1>2, AheadMoves DEF Offered, Done
<1>4. IsFiniteSet(Desc)
  BY Sizes, FS_Interval DEF Desc
<1>5. IsFiniteSet(held)
  BY <1>4, FS_Subset DEF QueueTypeOK
<1>6. Cardinality(held) \in Nat
  BY <1>5, FS_CardinalityType
<1>7. availRing \in [Desc -> Desc] /\ usedRing \in [Desc -> Desc]
  BY DEF QueueTypeOK
<1>8. /\ OfferedHeads \in [1 .. Offered -> Desc]
      /\ DoneHeads \in [1 .. Done -> Desc]
  BY <1>1, <1>2, <1>7, EntriesAre DEF OfferedHeads, DoneHeads, Offered, Done
<1>9. Range(OfferedHeads) \subseteq Desc /\ Range(DoneHeads) \subseteq Desc
  BY <1>8 DEF Range
<1>10. InUseHeads \subseteq Desc
  BY <1>9 DEF InUseHeads, QueueTypeOK
<1>11. Heads \subseteq Desc
  BY <1>10 DEF Heads, HandHeads, QueueTypeOK
<1> QED
  BY <1>1, <1>2, <1>3, <1>5, <1>6, <1>8, <1>10, <1>11

\* No window of a ring is full, and nothing is counted beyond the table.
LEMMA Room ==
    ASSUME QueueInv
    PROVE  /\ numFree + InHandCount <= QueueSize
           /\ Offered < QueueSize /\ Done < QueueSize
           /\ Cardinality(held) > 0 => 2 * Done + 2 <= QueueSize
           /\ pc = "publish" => 2 * Offered + 2 <= QueueSize
<1>1. /\ Offered \in Nat /\ Done \in Nat /\ Cardinality(held) \in Nat
      /\ numFree \in Nat
  BY RingTypes DEF QueueInv
<1>2. InHandCount \in Nat /\ (pc = "publish" => InHandCount = 2)
  BY DEF InHandCount
<1>3. 2 * (Offered + Cardinality(held) + Done) + InHandCount + numFree = QueueSize
  BY DEF QueueInv, Counted
<1> QED
  BY <1>1, <1>2, <1>3, Sizes

\* What does not touch descriptors or move chains keeps the lists.
LEMMA ListsKept ==
    ASSUME QueueInv, Heads' = Heads, Remnant' = Remnant,
           HandHeads' \intersect InUseHeads' = {},
           addr' = addr, flags' = flags, next' = next,
           freeHead' = freeHead, numFree' = numFree
    PROVE  ChainsWhole' /\ ChainsApart' /\ FreeListIs'
<1>1. ChainsWhole'
  BY DEF QueueInv, ChainsWhole, Whole
<1>2. ChainsApart'
  BY DEF QueueInv, ChainsApart
<1>3. Busy' = Busy
  BY DEF Busy
<1>4. FreeListIs'
  BY <1>3 DEF QueueInv, FreeListIs, FreeList
<1> QED
  BY <1>1, <1>2, <1>4

-----------------------------------------------------------------------------
(* The steps that change nothing the invariant looks at.                   *)

\* The zeroed rings and the fresh free list.
LEMMA InitQueueInv == Init => QueueInv
<1> SUFFICES ASSUME Init PROVE QueueInv
  OBVIOUS
<1> USE DEF Init, InitDescChain
<1>1. 0 \in Desc /\ 0 \in Idx /\ 0 \in 0 .. QueueSize
  BY Sizes DEF Desc, Idx
<1>2. QueueTypeOK
  BY <1>1, Sizes DEF QueueTypeOK, Desc, Idx
<1>3. Consumed = 0 /\ Ahead(0, 0) = 0
  BY <1>1, AheadMoves DEF Consumed
<1>4. Offered = 0 /\ Done = 0 /\ Cardinality(held) = 0 /\ InHandCount = 0
  BY <1>3, FS_EmptySet DEF Offered, Done, InHandCount
<1>5. OfferedHeads \in [1 .. 0 -> Desc] /\ DoneHeads \in [1 .. 0 -> Desc]
  BY <1>2, <1>4, RingTypes
<1>6. Range(OfferedHeads) = {} /\ Range(DoneHeads) = {}
  BY <1>5 DEF Range
<1>7. Heads = {} /\ Remnant = {} /\ Busy = {} /\ HandHeads = {}
  BY <1>6 DEF Heads, HandHeads, InUseHeads, Remnant, Busy
<1>8. ChainsWhole /\ ChainsApart
  BY <1>7 DEF ChainsWhole, ChainsApart
<1>9. Once
  BY <1>5, <1>6 DEF Once, IsInjective
<1>10. FreeListIs
  <2> DEFINE fl == [k \in 1 .. numFree |-> k - 1]
  <2>1. fl \in [1 .. numFree -> Desc]
    BY Sizes DEF Desc
  <2>2. \A d \in Desc : d + 1 \in 1 .. numFree /\ fl[d + 1] = d
    BY Sizes DEF Desc
  <2>3. \A k \in 1 .. numFree : next[fl[k]] = k /\ fl[k] = k - 1
    BY Sizes DEF Desc
  <2>4. numFree = QueueSize /\ freeHead = 0 /\ fl[1] = 0
    BY Sizes
  <2>5. FreeList(fl)
    <3> HIDE DEF fl, Init, InitDescChain
    <3>1. freeHead = IF numFree = 0 THEN QueueSize ELSE fl[1]
      BY <2>4, Sizes
    <3>2. ASSUME NEW k \in 1 .. numFree
          PROVE  next[fl[k]] = IF k = numFree THEN QueueSize ELSE fl[k + 1]
      <4>1. CASE k = numFree
        BY <2>3, <2>4, <4>1
      <4>2. CASE k # numFree
        <5>1. k + 1 \in 1 .. numFree /\ (k + 1) - 1 = k
          BY <2>4, <4>2, Sizes
        <5>2. fl[k + 1] = k
          BY <2>3, <5>1
        <5> QED
          BY <2>3, <4>2, <5>2
      <4> QED
        BY <4>1, <4>2
    <3>3. \A j \in 1 .. numFree, k \in 1 .. numFree : fl[j] = fl[k] => j = k
      <4>1. ASSUME NEW j \in 1 .. numFree, NEW k \in 1 .. numFree, fl[j] = fl[k]
            PROVE  j = k
        <5>1. j - 1 = k - 1
          BY <2>3, <4>1
        <5> QED
          BY <5>1
      <4> QED
        BY <4>1
    <3> QED
      BY <1>7, <2>2, <3>1, <3>2, <3>3 DEF FreeList
  <2> HIDE DEF fl
  <2> QED
    BY <2>1, <2>5 DEF FreeListIs
<1>11. Counted
  BY <1>4, Sizes DEF Counted
<1>12. CallsFit
  BY DEF CallsFit
<1> QED
  BY <1>2, <1>8, <1>9, <1>10, <1>11, <1>12 DEF QueueInv

\* A call that finds nothing to do, and a stutter.
LEMMA NothingKeeps ==
    ASSUME QueueInv, ret' \in {Success, ENOSPC, Empty},
           UNCHANGED <<addr, flags, next, freeHead, numFree, lastUsed, availIdx,
                       availRing, usedIdx, usedRing, devIdx, held, pc, head, cur>>
    PROVE  /\ QueueInv'
           /\ OfferedHeads' = OfferedHeads /\ DoneHeads' = DoneHeads
           /\ InUseHeads' = InUseHeads
<1>1. QueueTypeOK'
  BY DEF QueueInv, QueueTypeOK
<1>2. Consumed' = Consumed
  BY DEF Consumed
<1>3. OfferedHeads' = OfferedHeads /\ DoneHeads' = DoneHeads
  BY <1>2 DEF OfferedHeads, DoneHeads, RingEntries
<1>4. InUseHeads' = InUseHeads
  BY <1>3 DEF InUseHeads
<1>5. HandHeads' = HandHeads /\ Remnant' = Remnant
  BY DEF HandHeads, Remnant
<1>6. Heads' = Heads
  BY <1>4, <1>5 DEF Heads
<1>7. HandHeads' \intersect InUseHeads' = {}
  BY <1>4, <1>5 DEF QueueInv, ChainsApart
<1>8. ChainsWhole' /\ ChainsApart' /\ FreeListIs'
  BY <1>5, <1>6, <1>7, ListsKept
<1>9. Once'
  BY <1>3 DEF QueueInv, Once
<1>10. Offered' = Offered /\ Done' = Done /\ InHandCount' = InHandCount
  BY <1>2 DEF Offered, Done, InHandCount, Ahead
<1>11. Counted'
  BY <1>10 DEF QueueInv, Counted
<1>12. CallsFit'
  BY DEF QueueInv, CallsFit, Slot
<1> QED
  BY <1>1, <1>3, <1>4, <1>8, <1>9, <1>11, <1>12 DEF QueueInv

-----------------------------------------------------------------------------
(* AddBuf.                                                                 *)

\* Two descriptors leave the free list and become a chain in the call's hands.
LEMMA AddBufKeeps ==
    ASSUME QueueInv, NEW out \in Out, NEW in \in In, AddBuf(out, in)
    PROVE  /\ QueueInv'
           /\ OfferedHeads' = OfferedHeads /\ DoneHeads' = DoneHeads
           /\ InUseHeads' = InUseHeads
           /\ \A h \in InUseHeads :
                addr'[h] = addr[h] /\ addr'[next'[h]] = addr[next[h]]
<1>1. PICK fl \in [1 .. numFree -> Desc] : FreeList(fl)
  BY DEF QueueInv, FreeListIs
<1>2. pc = "idle" /\ numFree >= 2 /\ numFree \in Nat
  BY RingTypes DEF AddBuf, QueueInv
<1>3. PICK first \in Desc, second \in Desc :
        /\ first = freeHead /\ second = next[freeHead]
        /\ first = fl[1] /\ second = fl[2]
        /\ first # second /\ first \notin Busy /\ second \notin Busy
        /\ next[second] = IF numFree = 2 THEN QueueSize ELSE fl[3]
  <2>1. 1 \in 1 .. numFree /\ 2 \in 1 .. numFree /\ numFree # 0 /\ 1 # numFree
        /\ 1 + 1 = 2 /\ 2 + 1 = 3
    BY <1>2
  <2>2. freeHead = fl[1]
    BY <1>1, <2>1 DEF FreeList
  <2>3. next[fl[1]] = fl[2]
    BY <1>1, <2>1 DEF FreeList
  <2>4. next[fl[2]] = IF numFree = 2 THEN QueueSize ELSE fl[3]
    BY <1>1, <2>1 DEF FreeList
  <2>5. fl[1] # fl[2] /\ fl[1] \notin Busy /\ fl[2] \notin Busy
    BY <1>1, <2>1 DEF FreeList
  <2> QED
    BY <2>1, <2>2, <2>3, <2>4, <2>5
<1>4. next \in [Desc -> 0 .. QueueSize] /\ flags \in [Desc -> {"none", "next", "write"}]
      /\ addr \in [Desc -> Out \union In \union {NoAddr}]
  BY DEF QueueInv, QueueTypeOK
<1>5. next' = next
  BY <1>3, <1>4 DEF AddBuf
<1>6. /\ flags' = [flags EXCEPT ![first] = "next", ![second] = "write"]
      /\ addr' = [addr EXCEPT ![first] = out, ![second] = in]
      /\ freeHead' = next[second] /\ numFree' = numFree - 2
      /\ availRing' = [availRing EXCEPT ![Slot(availIdx)] = first]
      /\ head' = first /\ pc' = "publish"
      /\ UNCHANGED <<lastUsed, availIdx, usedIdx, usedRing, devIdx, held, cur, ret>>
  BY <1>3 DEF AddBuf, device
<1>7. /\ flags'[first] = "next" /\ flags'[second] = "write"
      /\ addr'[first] = out /\ addr'[second] = in
      /\ \A d \in Desc : d # first /\ d # second =>
            flags'[d] = flags[d] /\ addr'[d] = addr[d]
  BY <1>3, <1>4, <1>6
<1>8. /\ devIdx \in Idx /\ availIdx \in Idx /\ lastUsed \in Idx
      /\ availRing \in [Desc -> Desc] /\ Slot(availIdx) \in Desc
  BY RingTypes, SlotFacts DEF QueueInv, QueueTypeOK, Idx
<1>9. Consumed' = Consumed
  BY <1>2, <1>6 DEF Consumed
<1>10. /\ OfferedHeads' = OfferedHeads /\ DoneHeads' = DoneHeads
       /\ Offered' = Offered /\ Done' = Done
  <2>1. Ahead(devIdx, availIdx) < QueueSize
    BY Room DEF Offered
  <2>2. OfferedHeads' = OfferedHeads
    BY <1>3, <1>6, <1>8, <2>1, EntriesStay DEF OfferedHeads
  <2>3. DoneHeads' = DoneHeads
    BY <1>6, <1>9 DEF DoneHeads, RingEntries
  <2> QED
    BY <1>6, <1>9, <2>2, <2>3 DEF Offered, Done, Ahead
<1>11. InUseHeads' = InUseHeads
  BY <1>6, <1>10 DEF InUseHeads
<1>12. /\ HandHeads = {} /\ Remnant = {} /\ Heads = InUseHeads
       /\ HandHeads' = {first} /\ Remnant' = {} /\ Heads' = Heads \union {first}
  BY <1>2, <1>6, <1>11 DEF HandHeads, Remnant, Heads
<1>13. \A h \in Heads : /\ h \in Desc /\ next[h] \in Desc
                        /\ h # first /\ h # second
                        /\ next[h] # first /\ next[h] # second
  <2>1. \A h \in Heads : h \in Desc /\ next[h] \in Desc
    BY DEF QueueInv, ChainsWhole, Whole
  <2>2. \A h \in Heads : h \in Busy /\ next[h] \in Busy
    BY <2>1 DEF Busy
  <2> QED
    BY <1>3, <2>1, <2>2
<1>14. next[first] = second
  BY <1>3
<1>15. ChainsWhole'
  <2>1. ASSUME NEW h \in Heads PROVE Whole(h)'
    <3>1. Whole(h)
      BY <2>1 DEF QueueInv, ChainsWhole
    <3> QED
      BY <1>5, <1>7, <1>13, <2>1, <3>1 DEF Whole
  <2>2. Whole(first)'
    BY <1>3, <1>5, <1>7, <1>14 DEF Whole
  <2> QED
    BY <1>12, <2>1, <2>2 DEF ChainsWhole
<1>16. ChainsApart'
  <2>1. \A g \in Heads, h \in Heads : next[g] = next[h] => g = h
    BY DEF QueueInv, ChainsApart
  <2>2. \A g \in Heads' , h \in Heads' : next'[g] = next'[h] => g = h
    BY <1>5, <1>12, <1>13, <1>14, <2>1
  <2>3. HandHeads' \intersect InUseHeads' = {}
    BY <1>11, <1>12, <1>13
  <2> QED
    BY <1>12, <2>2, <2>3 DEF ChainsApart
<1>17. Busy' = Busy \union {first, second}
  BY <1>3, <1>5, <1>12, <1>14 DEF Busy
<1>18. FreeListIs'
  <2>1. numFree - 2 \in Nat /\ numFree' = numFree - 2
    BY <1>2, <1>6
  <2>2. PICK gl \in [1 .. numFree - 2 -> Desc] :
          \A k \in 1 .. numFree - 2 : k + 2 \in 1 .. numFree /\ gl[k] = fl[k + 2]
    <3>1. \A k \in 1 .. numFree - 2 : k + 2 \in 1 .. numFree
      BY <1>2
    <3>2. [k \in 1 .. numFree - 2 |-> fl[k + 2]] \in [1 .. numFree - 2 -> Desc]
      BY <3>1
    <3> QED
      BY <3>1, <3>2
  <2>3. gl \in [1 .. numFree' -> Desc]
    BY <2>1, <2>2
  <2>4. freeHead' = IF numFree' = 0 THEN QueueSize ELSE gl[1]
    <3>1. CASE numFree = 2
      BY <1>3, <1>6, <2>1, <3>1
    <3>2. CASE numFree # 2
      <4>1. 1 \in 1 .. numFree - 2 /\ 1 + 2 = 3 /\ numFree' # 0
        BY <1>2, <2>1, <3>2
      <4> QED
        BY <1>3, <1>6, <2>2, <3>2, <4>1
    <3> QED
      BY <3>1, <3>2
  <2>5. ASSUME NEW k \in 1 .. numFree'
        PROVE  next'[gl[k]] = IF k = numFree' THEN QueueSize ELSE gl[k + 1]
    <3>1. k \in 1 .. numFree - 2 /\ k + 2 \in 1 .. numFree /\ gl[k] = fl[k + 2]
      BY <2>1, <2>2
    <3>2. next[fl[k + 2]] = IF k + 2 = numFree THEN QueueSize ELSE fl[(k + 2) + 1]
      BY <1>1, <3>1 DEF FreeList
    <3>3. CASE k = numFree'
      <4>1. k + 2 = numFree
        BY <1>2, <2>1, <3>3
      <4> QED
        BY <1>5, <3>1, <3>2, <3>3, <4>1
    <3>4. CASE k # numFree'
      <4>1. k + 2 # numFree /\ k + 1 \in 1 .. numFree - 2
            /\ (k + 1) + 2 = (k + 2) + 1
        BY <1>2, <2>1, <3>1, <3>4
      <4>2. gl[k + 1] = fl[(k + 2) + 1]
        BY <2>2, <4>1
      <4> QED
        BY <1>5, <3>1, <3>2, <3>4, <4>1, <4>2
    <3> QED
      BY <3>3, <3>4
  <2>6. ASSUME NEW j \in 1 .. numFree', NEW k \in 1 .. numFree', gl[j] = gl[k]
        PROVE  j = k
    <3>1. /\ j + 2 \in 1 .. numFree /\ k + 2 \in 1 .. numFree
          /\ fl[j + 2] = fl[k + 2]
      BY <2>1, <2>2, <2>6
    <3>2. j + 2 = k + 2
      BY <1>1, <3>1 DEF FreeList
    <3> QED
      BY <2>1, <3>2
  <2>7. ASSUME NEW k \in 1 .. numFree' PROVE gl[k] \notin Busy'
    <3>1. k + 2 \in 1 .. numFree /\ gl[k] = fl[k + 2] /\ k + 2 # 1 /\ k + 2 # 2
      BY <2>1, <2>2
    <3>2. fl[k + 2] \notin Busy
      BY <1>1, <3>1 DEF FreeList
    <3>3. 1 \in 1 .. numFree /\ 2 \in 1 .. numFree
      BY <1>2
    <3>4. fl[k + 2] # fl[1] /\ fl[k + 2] # fl[2]
      BY <1>1, <3>1, <3>3 DEF FreeList
    <3> QED
      BY <1>3, <1>17, <3>1, <3>2, <3>4
  <2>8. ASSUME NEW d \in Desc, d \notin Busy'
        PROVE  \E k \in 1 .. numFree' : gl[k] = d
    <3>1. d \notin Busy /\ d # first /\ d # second
      BY <1>17, <2>8
    <3>2. PICK i \in 1 .. numFree : fl[i] = d
      BY <1>1, <3>1 DEF FreeList
    <3>3. i # 1 /\ i # 2
      BY <1>3, <3>1, <3>2
    <3>4. i - 2 \in 1 .. numFree - 2 /\ (i - 2) + 2 = i
      BY <1>2, <3>3
    <3>5. gl[i - 2] = d
      BY <2>2, <3>2, <3>4
    <3> QED
      BY <2>1, <3>4, <3>5
  <2>9. FreeList(gl)'
    BY <2>4, <2>5, <2>6, <2>7, <2>8 DEF FreeList
  <2> QED
    BY <2>3, <2>9 DEF FreeListIs
<1>19. Once'
  BY <1>6, <1>10 DEF QueueInv, Once
<1>20. Counted'
  <2>1. InHandCount = 0 /\ InHandCount' = 2
    BY <1>2, <1>6 DEF InHandCount
  <2>2. Offered \in Nat /\ Done \in Nat /\ Cardinality(held) \in Nat
    BY RingTypes DEF QueueInv
  <2>3. 2 * (Offered + Cardinality(held) + Done) + InHandCount + numFree = QueueSize
    BY DEF QueueInv, Counted
  <2>4. 2 * (Offered + Cardinality(held) + Done) + 2 + (numFree - 2) = QueueSize
    BY <1>2, <2>1, <2>2, <2>3, Sizes
  <2> QED
    BY <1>6, <1>10, <2>1, <2>4 DEF Counted
<1>21. CallsFit'
  <2>1. availRing'[Slot(availIdx)] = first
    BY <1>6, <1>8
  <2> QED
    BY <1>6, <2>1 DEF CallsFit, Slot
<1>22. QueueTypeOK'
  <2>1. flags' \in [Desc -> {"none", "next", "write"}]
    BY <1>4, <1>6
  <2>2. addr' \in [Desc -> Out \union In \union {NoAddr}]
    BY <1>4, <1>6
  <2>3. availRing' \in [Desc -> Desc]
    BY <1>3, <1>6, <1>8
  <2>4. freeHead' \in 0 .. QueueSize
    BY <1>3, <1>4, <1>6
  <2>5. numFree' \in 0 .. QueueSize
    BY <1>2, <1>6, Sizes DEF QueueInv, QueueTypeOK
  <2>6. next' \in [Desc -> 0 .. QueueSize]
    BY <1>4, <1>5
  <2> QED
    BY <1>3, <1>6, <2>1, <2>2, <2>3, <2>4, <2>5, <2>6 DEF QueueInv, QueueTypeOK
<1>23. \A h \in InUseHeads :
          addr'[h] = addr[h] /\ addr'[next'[h]] = addr[next[h]]
  BY <1>5, <1>7, <1>12, <1>13
<1> QED
  BY <1>10, <1>11, <1>15, <1>16, <1>18, <1>19, <1>20, <1>21, <1>22, <1>23
     DEF QueueInv

\* The index moves: the device sees the chain.
LEMMA AddPublishKeeps ==
    ASSUME QueueInv, AddPublish
    PROVE  /\ QueueInv'
           /\ head \in Desc /\ head \notin InUseHeads
           /\ OfferedHeads' = [k \in 1 .. Offered + 1 |->
                                  IF k <= Offered THEN OfferedHeads[k] ELSE head]
           /\ DoneHeads' = DoneHeads
           /\ InUseHeads' = InUseHeads \union {head}
<1>1. /\ pc = "publish" /\ availIdx' = Inc(availIdx) /\ ret' = Success
      /\ pc' = "idle" /\ head' = 0
      /\ UNCHANGED <<addr, flags, next, freeHead, numFree, lastUsed, availRing,
                     usedIdx, usedRing, devIdx, held, cur>>
  BY DEF AddPublish, descTable, freeList, device
<1>2. /\ devIdx \in Idx /\ availIdx \in Idx /\ availRing \in [Desc -> Desc]
      /\ Offered \in Nat /\ head \in Desc
      /\ OfferedHeads \in [1 .. Offered -> Desc]
  BY RingTypes DEF QueueInv, QueueTypeOK
<1>3. Offered < QueueSize
  BY Room
<1>4. Offered' = Offered + 1
  BY <1>1, <1>2, <1>3, Sizes, AheadMoves DEF Offered
<1>5. availRing[Slot(availIdx)] = head
  BY <1>1 DEF QueueInv, CallsFit
<1>6. OfferedHeads' = [k \in 1 .. Offered + 1 |->
                          IF k <= Offered THEN OfferedHeads[k] ELSE head]
  BY <1>1, <1>2, <1>3, <1>5, EntriesGrow DEF OfferedHeads, Offered
<1>7. Consumed' = Consumed
  BY <1>1 DEF Consumed
<1>8. DoneHeads' = DoneHeads /\ Done' = Done
  BY <1>1, <1>7 DEF DoneHeads, RingEntries, Done, Ahead
<1>9. HandHeads = {head} /\ HandHeads' = {} /\ Remnant' = Remnant
  BY <1>1 DEF HandHeads, Remnant
<1>10. head \notin InUseHeads
  BY <1>9 DEF QueueInv, ChainsApart
<1>11. /\ Range(OfferedHeads') = Range(OfferedHeads) \union {head}
       /\ IsInjective(OfferedHeads')
  <2>1. head \notin Range(OfferedHeads) /\ IsInjective(OfferedHeads)
    BY <1>10 DEF InUseHeads, QueueInv, Once
  <2>2. PICK n \in Nat, h \in Desc : n = Offered /\ h = head
    BY <1>2
  <2>3. PICK s \in [1 .. n -> Desc] : s = OfferedHeads
    BY <1>2, <2>2
  <2>4. PICK u \in [1 .. n + 1 -> Desc] :
          u = OfferedHeads' /\ u[n + 1] = h /\ \A k \in 1 .. n : u[k] = s[k]
    <3>1. \A k \in 1 .. n : s[k] \in Desc
      OBVIOUS
    <3>2. [k \in 1 .. n + 1 |-> IF k <= n THEN s[k] ELSE h] \in [1 .. n + 1 -> Desc]
      BY <2>2, <3>1
    <3>3. OfferedHeads' = [k \in 1 .. n + 1 |-> IF k <= n THEN s[k] ELSE h]
      BY <1>6, <2>2, <2>3
    <3> QED
      BY <3>2, <3>3
  <2>5. Range(u) = Range(s) \union {h} /\ (IsInjective(s) /\ h \notin Range(s) => IsInjective(u))
    BY <2>4, Grown
  <2> QED
    BY <2>1, <2>2, <2>3, <2>4, <2>5
<1>12. InUseHeads' = InUseHeads \union {head}
  BY <1>1, <1>8, <1>11 DEF InUseHeads
<1>13. Heads' = Heads
  BY <1>9, <1>12 DEF Heads
<1>14. ChainsWhole' /\ ChainsApart' /\ FreeListIs'
  BY <1>1, <1>9, <1>13, ListsKept
<1>15. Once'
  BY <1>1, <1>8, <1>10, <1>11 DEF QueueInv, Once, InUseHeads
<1>16. Counted'
  <2>1. InHandCount = 2 /\ InHandCount' = 0
    BY <1>1 DEF InHandCount
  <2>2. Done \in Nat /\ Cardinality(held) \in Nat /\ numFree \in Nat
    BY RingTypes DEF QueueInv
  <2>3. 2 * (Offered + Cardinality(held) + Done) + InHandCount + numFree = QueueSize
    BY DEF QueueInv, Counted
  <2>4. 2 * ((Offered + 1) + Cardinality(held) + Done) + 0 + numFree = QueueSize
    BY <1>2, <2>1, <2>2, <2>3, Sizes
  <2> QED
    BY <1>1, <1>4, <1>8, <2>1, <2>4 DEF Counted
<1>17. CallsFit'
  BY <1>1 DEF CallsFit
<1>18. QueueTypeOK'
  <2>1. availIdx' \in 0 .. IdxMod - 1
    BY <1>1, <1>2, AheadIs DEF Idx
  <2>2. 0 \in Desc
    BY Sizes DEF Desc
  <2> QED
    BY <1>1, <2>1, <2>2 DEF QueueInv, QueueTypeOK
<1> QED
  BY <1>2, <1>6, <1>8, <1>10, <1>12, <1>14, <1>15, <1>16, <1>17, <1>18
     DEF QueueInv

-----------------------------------------------------------------------------
(* GetBuf.                                                                 *)

\* The first finished chain passes into the call's hands.
LEMMA GetBufKeeps ==
    ASSUME QueueInv, GetBuf
    PROVE  /\ QueueInv'
           /\ Done \in Nat \ {0} /\ DoneHeads[1] \in InUseHeads
           /\ DoneHeads' = [k \in 1 .. Done - 1 |-> DoneHeads[k + 1]]
           /\ OfferedHeads' = OfferedHeads
           /\ InUseHeads' = InUseHeads \ {DoneHeads[1]}
<1>1. /\ pc = "idle" /\ lastUsed # usedIdx /\ cur' = usedRing[Slot(lastUsed)]
      /\ pc' = "free"
      /\ UNCHANGED <<addr, flags, next, freeHead, numFree, lastUsed, availIdx,
                     availRing, usedIdx, usedRing, devIdx, held, head, ret>>
  BY DEF GetBuf, descTable, freeList, device
<1>2. /\ lastUsed \in Idx /\ usedIdx \in Idx /\ usedRing \in [Desc -> Desc]
      /\ Done \in Nat /\ DoneHeads \in [1 .. Done -> Desc]
      /\ Slot(lastUsed) \in Desc
  <2>1. lastUsed \in Idx /\ lastUsed \in Nat
    BY RingTypes DEF QueueInv, Idx
  <2>2. Slot(lastUsed) \in Desc
    BY <2>1, SlotFacts
  <2> QED
    BY <2>1, <2>2, RingTypes DEF QueueInv, QueueTypeOK
<1>3. Consumed = lastUsed /\ Consumed' = Inc(lastUsed)
  BY <1>1 DEF Consumed, Inc
<1>4. /\ Done >= 1 /\ DoneHeads[1] = usedRing[Slot(lastUsed)]
      /\ RingEntries(usedRing, Inc(lastUsed), usedIdx) =
            [k \in 1 .. Done - 1 |-> DoneHeads[k + 1]]
  BY <1>1, <1>2, <1>3, EntriesShrink DEF Done, DoneHeads
<1>5. DoneHeads' = [k \in 1 .. Done - 1 |-> DoneHeads[k + 1]]
  BY <1>1, <1>3, <1>4 DEF DoneHeads, RingEntries
<1>6. Done' = Done - 1
  BY <1>1, <1>2, <1>3, AheadMoves DEF Done, Ahead
<1>7. PICK c \in Desc : c = cur' /\ c = DoneHeads[1]
  BY <1>1, <1>2, <1>4
<1>8. /\ Range(DoneHeads) = Range(DoneHeads') \union {c}
      /\ IsInjective(DoneHeads') /\ c \notin Range(DoneHeads')
  <2>1. PICK n \in Nat \ {0} : n = Done
    BY <1>2, <1>4
  <2>2. PICK s \in [1 .. n -> Desc] : s = DoneHeads
    BY <1>2, <2>1
  <2>3. PICK u \in [1 .. n - 1 -> Desc] :
          u = DoneHeads' /\ \A k \in 1 .. n - 1 : u[k] = s[k + 1]
    <3>1. \A k \in 1 .. n - 1 : s[k + 1] \in Desc
      OBVIOUS
    <3>2. [k \in 1 .. n - 1 |-> s[k + 1]] \in [1 .. n - 1 -> Desc]
      BY <3>1
    <3>3. DoneHeads' = [k \in 1 .. n - 1 |-> s[k + 1]]
      BY <1>5, <2>1, <2>2
    <3> QED
      BY <3>2, <3>3
  <2>4. Range(s) = Range(u) \union {s[1]} /\ (IsInjective(s) => IsInjective(u) /\ s[1] \notin Range(u))
    <3>1. n \in Nat \ {0} /\ s \in [1 .. n -> Desc] /\ u \in [1 .. n - 1 -> Desc]
      OBVIOUS
    <3>2. \A k \in 1 .. n - 1 : u[k] = s[k + 1]
      BY <2>3
    <3> QED
      BY <3>1, <3>2, Shrunk
  <2>5. IsInjective(s)
    BY <2>2 DEF QueueInv, Once
  <2> QED
    BY <1>7, <2>2, <2>3, <2>4, <2>5
<1>9. OfferedHeads' = OfferedHeads /\ Offered' = Offered
  BY <1>1 DEF OfferedHeads, RingEntries, Offered, Ahead
<1>10. c \in InUseHeads /\ InUseHeads' = InUseHeads \ {c}
  BY <1>1, <1>8, <1>9 DEF InUseHeads, QueueInv, Once
<1>11. /\ HandHeads = {} /\ Remnant = {} /\ Heads = InUseHeads
       /\ flags[c] = "next"
  <2>1. HandHeads = {} /\ Remnant = {}
    BY <1>1 DEF HandHeads, Remnant
  <2>2. Heads = InUseHeads
    BY <2>1 DEF Heads
  <2>3. Whole(c)
    BY <1>10, <2>2 DEF QueueInv, ChainsWhole
  <2> QED
    BY <2>1, <2>2, <2>3 DEF Whole
<1>12. HandHeads' = {c} /\ Remnant' = {}
  BY <1>1, <1>7, <1>11 DEF HandHeads, Remnant
<1>13. Heads' = Heads /\ HandHeads' \intersect InUseHeads' = {}
  BY <1>10, <1>11, <1>12 DEF Heads
<1>14. ChainsWhole' /\ ChainsApart' /\ FreeListIs'
  BY <1>1, <1>11, <1>12, <1>13, ListsKept
<1>15. Once'
  BY <1>1, <1>8, <1>9 DEF QueueInv, Once
<1>16. Counted'
  <2>1. InHandCount = 0 /\ InHandCount' = 2
    BY <1>1, <1>7, <1>11 DEF InHandCount
  <2>2. Offered \in Nat /\ Cardinality(held) \in Nat /\ numFree \in Nat
    BY RingTypes DEF QueueInv
  <2>3. 2 * (Offered + Cardinality(held) + Done) + InHandCount + numFree = QueueSize
    BY DEF QueueInv, Counted
  <2>4. 2 * (Offered + Cardinality(held) + (Done - 1)) + 2 + numFree = QueueSize
    BY <1>2, <2>1, <2>2, <2>3, Sizes
  <2> QED
    BY <1>1, <1>6, <1>9, <2>1, <2>4 DEF Counted
<1>17. CallsFit'
  BY <1>1 DEF CallsFit
<1>18. QueueTypeOK'
  BY <1>1, <1>7 DEF QueueInv, QueueTypeOK
<1>19. Done \in Nat \ {0}
  BY <1>2, <1>4
<1> QED
  BY <1>5, <1>7, <1>9, <1>10, <1>14, <1>15, <1>16, <1>17, <1>18, <1>19 DEF QueueInv

\* One descriptor of the chain goes back to the head of the free list.
LEMMA FreeDescriptorKeeps ==
    ASSUME QueueInv, FreeDescriptor
    PROVE  /\ QueueInv'
           /\ OfferedHeads' = OfferedHeads /\ DoneHeads' = DoneHeads
           /\ InUseHeads' = InUseHeads
           /\ \A h \in InUseHeads :
                addr'[h] = addr[h] /\ addr'[next'[h]] = addr[next[h]]
<1>1. /\ pc = "free" /\ freeHead' = cur /\ numFree' = numFree + 1
      /\ next' = [next EXCEPT ![cur] = freeHead]
      /\ UNCHANGED <<addr, flags, lastUsed, availIdx, availRing, usedIdx,
                     usedRing, devIdx, held, head, ret>>
  BY DEF FreeDescriptor, device
<1>2. /\ flags[cur] = "next" => cur' = next[cur] /\ pc' = "free"
      /\ flags[cur] # "next" => cur' = cur /\ pc' = "bump"
  BY DEF FreeDescriptor
<1>3. PICK c \in Desc : c = cur
  BY DEF QueueInv, QueueTypeOK
<1>4. next \in [Desc -> 0 .. QueueSize] /\ numFree \in Nat
  BY RingTypes DEF QueueInv, QueueTypeOK
<1>5. next'[c] = freeHead /\ \A d \in Desc : d # c => next'[d] = next[d]
  BY <1>1, <1>3, <1>4
<1>6. Consumed' = Consumed
  BY <1>1, <1>2 DEF Consumed, Inc
<1>7. /\ OfferedHeads' = OfferedHeads /\ DoneHeads' = DoneHeads
      /\ Offered' = Offered /\ Done' = Done
  BY <1>1, <1>6 DEF OfferedHeads, DoneHeads, RingEntries, Offered, Done, Ahead
<1>8. InUseHeads' = InUseHeads
  BY <1>1, <1>7 DEF InUseHeads
<1>9. ASSUME NEW h \in InUseHeads
      PROVE  /\ Whole(h) /\ h \in Heads /\ h # c /\ next[h] # c
             /\ next'[h] = next[h]
  <2>1. h \in Heads /\ Whole(h)
    BY DEF Heads, QueueInv, ChainsWhole
  <2>2. h # c /\ next[h] # c
    <3>1. CASE flags[c] = "next"
      <4>1. HandHeads = {c}
        BY <1>1, <1>3, <3>1 DEF HandHeads
      <4>2. h # c
        BY <4>1 DEF QueueInv, ChainsApart
      <4>3. next[h] # c
        BY <2>1, <3>1 DEF Whole
      <4> QED
        BY <4>2, <4>3
    <3>2. CASE flags[c] # "next"
      <4>1. Remnant = {c}
        BY <1>1, <1>3, <3>2 DEF Remnant
      <4>2. next[h] # c
        BY <2>1, <4>1 DEF QueueInv, ChainsApart
      <4>3. h # c
        BY <2>1, <3>2 DEF Whole
      <4> QED
        BY <4>2, <4>3
    <3> QED
      BY <3>1, <3>2
  <2> QED
    BY <1>5, <2>1, <2>2 DEF Whole
<1>10. /\ c \in Busy /\ Heads' = InUseHeads
       /\ ChainsWhole' /\ ChainsApart'
       /\ Busy' = Busy \ {c}
       /\ cur' \in Desc /\ pc' \in {"free", "bump"}
       /\ InHandCount \in Nat /\ InHandCount' = InHandCount - 1
  <2>1. CASE flags[c] = "next"
    <3>1. HandHeads = {c} /\ Remnant = {} /\ Heads = InUseHeads \union {c}
      BY <1>1, <1>3, <2>1 DEF HandHeads, Remnant, Heads
    <3>2. Whole(c)
      BY <3>1 DEF QueueInv, ChainsWhole
    <3>3. PICK d \in Desc : d = next[c] /\ flags[d] = "write" /\ d # c
      BY <2>1, <3>2 DEF Whole
    <3>4. cur' = d /\ pc' = "free" /\ flags'[d] = "write"
      BY <1>1, <1>2, <1>3, <2>1, <3>3
    <3>5. HandHeads' = {} /\ Remnant' = {d} /\ Heads' = InUseHeads
      BY <1>8, <3>4 DEF HandHeads, Remnant, Heads
    <3>6. ChainsWhole'
      <4>1. ASSUME NEW h \in InUseHeads PROVE Whole(h)'
        BY <1>1, <1>9 DEF Whole
      <4> QED
        BY <3>4, <3>5, <4>1 DEF ChainsWhole
    <3>7. ChainsApart'
      <4>1. \A g \in Heads, h \in Heads : next[g] = next[h] => g = h
        BY DEF QueueInv, ChainsApart
      <4>2. \A h \in InUseHeads : next'[h] # d
        BY <1>9, <3>1, <3>3, <4>1
      <4>3. \A g \in InUseHeads, h \in InUseHeads : next'[g] = next'[h] => g = h
        BY <1>9, <4>1
      <4> QED
        BY <3>5, <4>2, <4>3 DEF ChainsApart
    <3>8. Busy' = Busy \ {c}
      <4>1. \A x \in Desc : x \in Busy <=>
               x = c \/ x = d \/ \E h \in InUseHeads : x = h \/ x = next[h]
        BY <3>1, <3>3 DEF Busy
      <4>2. \A x \in Desc : x \in Busy' <=>
               x = d \/ \E h \in InUseHeads : x = h \/ x = next[h]
        BY <1>9, <3>5 DEF Busy
      <4>3. c # d /\ \A h \in InUseHeads : c # h /\ c # next[h]
        BY <1>9, <3>3
      <4>4. Busy \subseteq Desc /\ Busy' \subseteq Desc
        BY DEF Busy
      <4> QED
        BY <4>1, <4>2, <4>3, <4>4
    <3>9. c \in Busy
      BY <3>1 DEF Busy
    <3>10. InHandCount = 2 /\ InHandCount' = 1
      BY <1>1, <1>3, <2>1, <3>4 DEF InHandCount
    <3>11. cur' \in Desc /\ pc' \in {"free", "bump"}
      BY <3>4
    <3>12. InHandCount \in Nat /\ InHandCount' = InHandCount - 1
      BY <3>10
    <3> QED
      BY <3>5, <3>6, <3>7, <3>8, <3>9, <3>11, <3>12
  <2>2. CASE flags[c] # "next"
    <3>1. HandHeads = {} /\ Remnant = {c} /\ Heads = InUseHeads
      BY <1>1, <1>3, <2>2 DEF HandHeads, Remnant, Heads
    <3>2. cur' = c /\ pc' = "bump"
      BY <1>2, <1>3, <2>2
    <3>3. HandHeads' = {} /\ Remnant' = {} /\ Heads' = InUseHeads
      BY <1>8, <3>2 DEF HandHeads, Remnant, Heads
    <3>4. ChainsWhole'
      <4>1. ASSUME NEW h \in InUseHeads PROVE Whole(h)'
        BY <1>1, <1>9 DEF Whole
      <4> QED
        BY <3>3, <4>1 DEF ChainsWhole
    <3>5. ChainsApart'
      <4>1. \A g \in Heads, h \in Heads : next[g] = next[h] => g = h
        BY DEF QueueInv, ChainsApart
      <4>2. \A g \in InUseHeads, h \in InUseHeads : next'[g] = next'[h] => g = h
        BY <1>9, <4>1
      <4> QED
        BY <3>3, <4>2 DEF ChainsApart
    <3>6. Busy' = Busy \ {c}
      <4>1. \A x \in Desc : x \in Busy <=>
               x = c \/ \E h \in InUseHeads : x = h \/ x = next[h]
        BY <3>1 DEF Busy
      <4>2. \A x \in Desc : x \in Busy' <=>
               \E h \in InUseHeads : x = h \/ x = next[h]
        BY <1>9, <3>3 DEF Busy
      <4>3. \A h \in InUseHeads : c # h /\ c # next[h]
        BY <1>9
      <4>4. Busy \subseteq Desc /\ Busy' \subseteq Desc
        BY DEF Busy
      <4> QED
        BY <4>1, <4>2, <4>3, <4>4
    <3>7. c \in Busy
      BY <3>1 DEF Busy
    <3>8. InHandCount = 1 /\ InHandCount' = 0
      BY <1>1, <1>3, <2>2, <3>2 DEF InHandCount
    <3>9. cur' \in Desc /\ pc' \in {"free", "bump"}
      BY <3>2
    <3>10. InHandCount \in Nat /\ InHandCount' = InHandCount - 1
      BY <3>8
    <3> QED
      BY <3>3, <3>4, <3>5, <3>6, <3>7, <3>9, <3>10
  <2> QED
    BY <2>1, <2>2
<1>11. FreeListIs'
  <2>1. PICK fl \in [1 .. numFree -> Desc] : FreeList(fl)
    BY DEF QueueInv, FreeListIs
  <2>2. numFree' = numFree + 1 /\ numFree' # 0 /\ freeHead' = c
    BY <1>1, <1>3, <1>4
  <2>3. PICK gl \in [1 .. numFree + 1 -> Desc] :
          gl[1] = c /\ \A k \in 1 .. numFree : k + 1 \in 1 .. numFree + 1 /\ gl[k + 1] = fl[k]
    <3> DEFINE g == [k \in 1 .. numFree + 1 |-> IF k = 1 THEN c ELSE fl[k - 1]]
    <3>1. \A k \in 1 .. numFree + 1 : k # 1 => k - 1 \in 1 .. numFree
      BY <1>4
    <3>2. g \in [1 .. numFree + 1 -> Desc]
      BY <3>1
    <3>3. ASSUME NEW k \in 1 .. numFree
          PROVE  k + 1 \in 1 .. numFree + 1 /\ g[k + 1] = fl[k]
      <4>1. k + 1 \in 1 .. numFree + 1 /\ k + 1 # 1 /\ (k + 1) - 1 = k
        BY <1>4
      <4> QED
        BY <4>1
    <3>4. g[1] = c
      BY <1>4
    <3> HIDE DEF g
    <3> QED
      BY <3>2, <3>3, <3>4
  <2>4. \A k \in 1 .. numFree + 1 :
           k = 1 \/ (k - 1 \in 1 .. numFree /\ k = (k - 1) + 1 /\ gl[k] = fl[k - 1])
    <3>1. \A k \in 1 .. numFree + 1 :
             k = 1 \/ (k - 1 \in 1 .. numFree /\ k = (k - 1) + 1)
      BY <1>4
    <3> QED
      BY <2>3, <3>1
  <2>5. \A k \in 1 .. numFree : fl[k] \in Desc /\ fl[k] # c
    BY <1>10, <2>1 DEF FreeList
  <2>6. ASSUME NEW k \in 1 .. numFree + 1
        PROVE  next'[gl[k]] = IF k = numFree + 1 THEN QueueSize ELSE gl[k + 1]
    <3>1. CASE k = 1
      <4>1. next'[gl[k]] = freeHead
        BY <1>5, <2>3, <3>1
      <4>2. freeHead = IF numFree = 0 THEN QueueSize ELSE fl[1]
        BY <2>1 DEF FreeList
      <4>3. CASE numFree = 0
        BY <3>1, <4>1, <4>2, <4>3
      <4>4. CASE numFree # 0
        <5>1. 1 \in 1 .. numFree /\ k # numFree + 1
          BY <1>4, <3>1, <4>4
        <5> QED
          BY <2>3, <3>1, <4>1, <4>2, <4>4, <5>1
      <4> QED
        BY <4>3, <4>4
    <3>2. CASE k # 1
      <4>1. PICK i \in 1 .. numFree : i = k - 1 /\ k = i + 1 /\ gl[k] = fl[i]
        BY <2>4, <3>2
      <4>2. next'[gl[k]] = next[fl[i]]
        BY <1>5, <2>5, <4>1
      <4>3. next[fl[i]] = IF i = numFree THEN QueueSize ELSE fl[i + 1]
        BY <2>1 DEF FreeList
      <4>4. CASE i = numFree
        BY <1>4, <4>1, <4>2, <4>3, <4>4
      <4>5. CASE i # numFree
        <5>1. i + 1 \in 1 .. numFree /\ k # numFree + 1
          BY <1>4, <4>1, <4>5
        <5>2. gl[(i + 1) + 1] = fl[i + 1]
          BY <2>3, <5>1
        <5> QED
          BY <4>1, <4>2, <4>3, <4>5, <5>1, <5>2
      <4> QED
        BY <4>4, <4>5
    <3> QED
      BY <3>1, <3>2
  <2>7. ASSUME NEW j \in 1 .. numFree + 1, NEW k \in 1 .. numFree + 1, gl[j] = gl[k]
        PROVE  j = k
    <3>1. CASE j = 1
      BY <2>3, <2>4, <2>5, <2>7, <3>1
    <3>2. CASE k = 1
      BY <2>3, <2>4, <2>5, <2>7, <3>2
    <3>3. CASE j # 1 /\ k # 1
      <4>1. /\ j - 1 \in 1 .. numFree /\ k - 1 \in 1 .. numFree
            /\ fl[j - 1] = fl[k - 1]
        BY <2>4, <2>7, <3>3
      <4>2. j - 1 = k - 1
        BY <2>1, <4>1 DEF FreeList
      <4> QED
        BY <1>4, <4>2
    <3> QED
      BY <3>1, <3>2, <3>3
  <2>8. ASSUME NEW k \in 1 .. numFree + 1 PROVE gl[k] \notin Busy'
    <3>1. CASE k = 1
      BY <1>10, <2>3, <3>1
    <3>2. CASE k # 1
      <4>1. k - 1 \in 1 .. numFree /\ gl[k] = fl[k - 1]
        BY <2>4, <3>2
      <4>2. fl[k - 1] \notin Busy
        BY <2>1, <4>1 DEF FreeList
      <4> QED
        BY <1>10, <4>1, <4>2
    <3> QED
      BY <3>1, <3>2
  <2>9. ASSUME NEW d \in Desc, d \notin Busy'
        PROVE  \E k \in 1 .. numFree + 1 : gl[k] = d
    <3>1. CASE d = c
      <4>1. 1 \in 1 .. numFree + 1
        BY <1>4
      <4> QED
        BY <2>3, <3>1, <4>1
    <3>2. CASE d # c
      <4>1. d \notin Busy
        BY <1>10, <2>9, <3>2
      <4>2. PICK i \in 1 .. numFree : fl[i] = d
        BY <2>1, <4>1 DEF FreeList
      <4> QED
        BY <2>3, <4>2
    <3> QED
      BY <3>1, <3>2
  <2>10. freeHead' = IF numFree' = 0 THEN QueueSize ELSE gl[1]
    BY <2>2, <2>3
  <2>11. FreeList(gl)'
    BY <2>2, <2>6, <2>7, <2>8, <2>9, <2>10 DEF FreeList
  <2> QED
    BY <2>2, <2>11 DEF FreeListIs
<1>12. Once'
  BY <1>1, <1>7 DEF QueueInv, Once
<1>13. Counted'
  <2>1. Offered \in Nat /\ Done \in Nat /\ Cardinality(held) \in Nat
    BY RingTypes DEF QueueInv
  <2>2. 2 * (Offered + Cardinality(held) + Done) + InHandCount + numFree = QueueSize
    BY DEF QueueInv, Counted
  <2>3. 2 * (Offered + Cardinality(held) + Done) + (InHandCount - 1) + (numFree + 1)
            = QueueSize
    BY <1>4, <1>10, <2>1, <2>2, Sizes
  <2> QED
    BY <1>1, <1>7, <1>10, <2>3 DEF Counted
<1>14. CallsFit'
  BY <1>1, <1>10 DEF QueueInv, CallsFit
<1>15. QueueTypeOK'
  <2>1. next' \in [Desc -> 0 .. QueueSize]
    BY <1>1, <1>3, <1>4 DEF QueueInv, QueueTypeOK
  <2>2. freeHead' \in 0 .. QueueSize
    BY <1>1, <1>3, Sizes DEF Desc
  <2>3. numFree' \in 0 .. QueueSize
    <3>1. numFree + InHandCount <= QueueSize /\ InHandCount >= 1
      <4>1. InHandCount >= 1
        BY <1>1 DEF InHandCount
      <4> QED
        BY <4>1, Room
    <3> QED
      BY <1>1, <1>4, <1>10, <3>1, Sizes
  <2>4. pc' \in {"idle", "publish", "free", "bump"}
    BY <1>10
  <2> QED
    BY <1>1, <1>10, <2>1, <2>2, <2>3, <2>4 DEF QueueInv, QueueTypeOK
<1>16. \A h \in InUseHeads :
          addr'[h] = addr[h] /\ addr'[next'[h]] = addr[next[h]]
  BY <1>1, <1>9
<1> QED
  BY <1>7, <1>8, <1>10, <1>11, <1>12, <1>13, <1>14, <1>15, <1>16 DEF QueueInv

\* The call returns: the used index it had in mind is now in last_used_idx_.
LEMMA GetBufReturnKeeps ==
    ASSUME QueueInv, GetBufReturn
    PROVE  /\ QueueInv'
           /\ OfferedHeads' = OfferedHeads /\ DoneHeads' = DoneHeads
           /\ InUseHeads' = InUseHeads
<1>1. /\ pc = "bump" /\ lastUsed' = Inc(lastUsed) /\ ret' = Success
      /\ pc' = "idle" /\ cur' = 0
      /\ UNCHANGED <<addr, flags, next, freeHead, numFree, availIdx, availRing,
                     usedIdx, usedRing, devIdx, held, head>>
  BY DEF GetBufReturn, descTable, freeList, device
<1>2. Consumed' = Consumed
  BY <1>1 DEF Consumed
<1>3. /\ OfferedHeads' = OfferedHeads /\ DoneHeads' = DoneHeads
      /\ Offered' = Offered /\ Done' = Done
  BY <1>1, <1>2 DEF OfferedHeads, DoneHeads, RingEntries, Offered, Done, Ahead
<1>4. InUseHeads' = InUseHeads
  BY <1>1, <1>3 DEF InUseHeads
<1>5. /\ HandHeads = {} /\ HandHeads' = {} /\ Remnant = {} /\ Remnant' = {}
      /\ InHandCount' = InHandCount
  BY <1>1 DEF HandHeads, Remnant, InHandCount
<1>6. Heads' = Heads
  BY <1>4, <1>5 DEF Heads
<1>7. ChainsWhole' /\ ChainsApart' /\ FreeListIs'
  BY <1>1, <1>5, <1>6, ListsKept
<1>8. Once'
  BY <1>1, <1>3 DEF QueueInv, Once
<1>9. Counted'
  BY <1>1, <1>3, <1>5 DEF QueueInv, Counted
<1>10. CallsFit'
  BY <1>1 DEF CallsFit
<1>11. QueueTypeOK'
  <2>1. lastUsed' \in 0 .. IdxMod - 1
    BY <1>1, RingTypes, AheadIs DEF QueueInv, Idx
  <2>2. 0 \in Desc
    BY Sizes DEF Desc
  <2> QED
    BY <1>1, <2>1, <2>2 DEF QueueInv, QueueTypeOK
<1> QED
  BY <1>3, <1>4, <1>7, <1>8, <1>9, <1>10, <1>11 DEF QueueInv

-----------------------------------------------------------------------------
(* The device.                                                             *)

\* The oldest chain on offer is now the device's.
LEMMA DeviceTakeKeeps ==
    ASSUME QueueInv, DeviceTake
    PROVE  /\ QueueInv'
           /\ Offered \in Nat \ {0}
           /\ OfferedHeads' = [k \in 1 .. Offered - 1 |-> OfferedHeads[k + 1]]
           /\ held' = held \union {OfferedHeads[1]}
           /\ DoneHeads' = DoneHeads /\ InUseHeads' = InUseHeads
<1>1. /\ devIdx # availIdx /\ held' = held \union {availRing[Slot(devIdx)]}
      /\ devIdx' = Inc(devIdx)
      /\ UNCHANGED <<addr, flags, next, freeHead, numFree, lastUsed, availIdx,
                     availRing, usedIdx, usedRing, pc, head, cur, ret>>
  BY DEF DeviceTake, descTable, freeList
<1>2. /\ devIdx \in Idx /\ availIdx \in Idx /\ availRing \in [Desc -> Desc]
      /\ Offered \in Nat /\ OfferedHeads \in [1 .. Offered -> Desc]
      /\ IsFiniteSet(held) /\ Cardinality(held) \in Nat
  BY RingTypes DEF QueueInv, QueueTypeOK
<1>3. /\ Offered >= 1 /\ OfferedHeads[1] = availRing[Slot(devIdx)]
      /\ RingEntries(availRing, Inc(devIdx), availIdx) =
            [k \in 1 .. Offered - 1 |-> OfferedHeads[k + 1]]
  BY <1>1, <1>2, EntriesShrink DEF Offered, OfferedHeads
<1>4. OfferedHeads' = [k \in 1 .. Offered - 1 |-> OfferedHeads[k + 1]]
  BY <1>1, <1>3 DEF OfferedHeads, RingEntries
<1>5. Offered' = Offered - 1
  BY <1>1, <1>2, AheadMoves DEF Offered, Ahead
<1>6. PICK c \in Desc : c = OfferedHeads[1]
  <2>1. 1 \in 1 .. Offered
    BY <1>2, <1>3
  <2> QED
    BY <1>2, <2>1
<1>7. held' = held \union {c}
  BY <1>1, <1>3, <1>6
<1>8. /\ Range(OfferedHeads) = Range(OfferedHeads') \union {c}
      /\ IsInjective(OfferedHeads') /\ c \notin Range(OfferedHeads')
  <2>1. PICK n \in Nat \ {0} : n = Offered
    BY <1>2, <1>3
  <2>2. PICK s \in [1 .. n -> Desc] : s = OfferedHeads
    BY <1>2, <2>1
  <2>3. PICK u \in [1 .. n - 1 -> Desc] :
          u = OfferedHeads' /\ \A k \in 1 .. n - 1 : u[k] = s[k + 1]
    <3>1. \A k \in 1 .. n - 1 : s[k + 1] \in Desc
      OBVIOUS
    <3>2. [k \in 1 .. n - 1 |-> s[k + 1]] \in [1 .. n - 1 -> Desc]
      BY <3>1
    <3>3. OfferedHeads' = [k \in 1 .. n - 1 |-> s[k + 1]]
      BY <1>4, <2>1, <2>2
    <3> QED
      BY <3>2, <3>3
  <2>4. Range(s) = Range(u) \union {s[1]} /\ (IsInjective(s) => IsInjective(u) /\ s[1] \notin Range(u))
    <3>1. n \in Nat \ {0} /\ s \in [1 .. n -> Desc] /\ u \in [1 .. n - 1 -> Desc]
      OBVIOUS
    <3>2. \A k \in 1 .. n - 1 : u[k] = s[k + 1]
      BY <2>3
    <3> QED
      BY <3>1, <3>2, Shrunk
  <2>5. IsInjective(s)
    BY <2>2 DEF QueueInv, Once
  <2> QED
    BY <1>6, <2>2, <2>3, <2>4, <2>5
<1>9. Consumed' = Consumed
  BY <1>1 DEF Consumed
<1>10. DoneHeads' = DoneHeads /\ Done' = Done
  BY <1>1, <1>9 DEF DoneHeads, RingEntries, Done, Ahead
<1>11. InUseHeads' = InUseHeads
  BY <1>7, <1>8, <1>10 DEF InUseHeads
<1>12. HandHeads' = HandHeads /\ Remnant' = Remnant /\ InHandCount' = InHandCount
  BY <1>1 DEF HandHeads, Remnant, InHandCount
<1>13. Heads' = Heads /\ HandHeads' \intersect InUseHeads' = {}
  BY <1>11, <1>12 DEF Heads, QueueInv, ChainsApart
<1>14. ChainsWhole' /\ ChainsApart' /\ FreeListIs'
  BY <1>1, <1>12, <1>13, ListsKept
<1>15. c \notin held /\ c \notin Range(DoneHeads)
  BY <1>8 DEF QueueInv, Once
<1>16. Once'
  BY <1>7, <1>8, <1>10, <1>15 DEF QueueInv, Once
<1>17. Counted'
  <2>1. Cardinality(held') = Cardinality(held) + 1
    BY <1>2, <1>7, <1>15, FS_AddElement
  <2>2. Done \in Nat /\ numFree \in Nat /\ InHandCount \in Nat
    BY RingTypes DEF QueueInv, InHandCount
  <2>3. 2 * (Offered + Cardinality(held) + Done) + InHandCount + numFree = QueueSize
    BY DEF QueueInv, Counted
  <2>4. 2 * ((Offered - 1) + (Cardinality(held) + 1) + Done) + InHandCount + numFree
            = QueueSize
    BY <1>2, <2>2, <2>3, Sizes
  <2> QED
    BY <1>1, <1>5, <1>10, <1>12, <2>1, <2>4 DEF Counted
<1>18. CallsFit'
  BY <1>1 DEF QueueInv, CallsFit, Slot
<1>19. QueueTypeOK'
  <2>1. devIdx' \in 0 .. IdxMod - 1
    BY <1>1, <1>2, AheadIs DEF Idx
  <2>2. held' \subseteq Desc
    BY <1>7 DEF QueueInv, QueueTypeOK
  <2> QED
    BY <1>1, <2>1, <2>2 DEF QueueInv, QueueTypeOK
<1>20. Offered \in Nat \ {0}
  BY <1>2, <1>3
<1> QED
  BY <1>4, <1>6, <1>7, <1>10, <1>11, <1>14, <1>16, <1>17, <1>18, <1>19, <1>20
     DEF QueueInv

\* A chain of the device's goes into the used ring.
LEMMA DeviceFinishKeeps ==
    ASSUME QueueInv, NEW h \in Desc, DeviceFinish(h)
    PROVE  /\ QueueInv'
           /\ DoneHeads' = [k \in 1 .. Done + 1 |->
                               IF k <= Done THEN DoneHeads[k] ELSE h]
           /\ OfferedHeads' = OfferedHeads /\ InUseHeads' = InUseHeads
<1>1. /\ h \in held /\ held' = held \ {h}
      /\ usedRing' = [usedRing EXCEPT ![Slot(usedIdx)] = h]
      /\ usedIdx' = Inc(usedIdx)
      /\ UNCHANGED <<addr, flags, next, freeHead, numFree, lastUsed, availIdx,
                     availRing, devIdx, pc, head, cur, ret>>
  BY DEF DeviceFinish, descTable, freeList
<1>2. /\ Consumed \in Idx /\ usedIdx \in Idx /\ lastUsed \in Idx
      /\ usedRing \in [Desc -> Desc]
      /\ Done \in Nat /\ DoneHeads \in [1 .. Done -> Desc]
      /\ IsFiniteSet(held) /\ Cardinality(held) \in Nat
  BY RingTypes DEF QueueInv, QueueTypeOK
<1>3. Cardinality(held) > 0
  BY <1>1, <1>2, FS_EmptySet
<1>4. Done < QueueSize /\ 2 * Done + 2 <= QueueSize
  BY <1>3, Room
<1>5. Slot(usedIdx) \in Desc
  BY <1>2, SlotFacts DEF Idx
<1>6. Consumed' = Consumed
  BY <1>1 DEF Consumed
<1>7. usedRing' \in [Desc -> Desc] /\ usedRing'[Slot(usedIdx)] = h
  BY <1>1, <1>2, <1>5
<1>8. RingEntries(usedRing', Consumed, usedIdx) = DoneHeads
  <2>1. Ahead(Consumed, usedIdx) < QueueSize
    BY <1>4 DEF Done
  <2>2. RingEntries([usedRing EXCEPT ![Slot(usedIdx)] = h], Consumed, usedIdx)
            = RingEntries(usedRing, Consumed, usedIdx)
    BY <1>2, <2>1, EntriesStay
  <2> QED
    BY <1>1, <2>2 DEF DoneHeads
<1>9. RingEntries(usedRing', Consumed, Inc(usedIdx)) =
          [k \in 1 .. Done + 1 |-> IF k <= Done THEN DoneHeads[k] ELSE h]
  BY <1>2, <1>4, <1>7, <1>8, EntriesGrow DEF Done
<1>10. DoneHeads' = [k \in 1 .. Done + 1 |-> IF k <= Done THEN DoneHeads[k] ELSE h]
  BY <1>1, <1>6, <1>7, <1>9 DEF DoneHeads, RingEntries
<1>11. Done' = Done + 1
  BY <1>1, <1>2, <1>4, <1>6, Sizes, AheadMoves DEF Done, Ahead
<1>12. OfferedHeads' = OfferedHeads /\ Offered' = Offered
  BY <1>1 DEF OfferedHeads, RingEntries, Offered, Ahead
<1>13. /\ Range(DoneHeads') = Range(DoneHeads) \union {h}
       /\ IsInjective(DoneHeads')
  <2>1. h \notin Range(DoneHeads) /\ IsInjective(DoneHeads)
    BY <1>1 DEF QueueInv, Once
  <2>2. PICK n \in Nat : n = Done
    BY <1>2
  <2>3. PICK s \in [1 .. n -> Desc] : s = DoneHeads
    BY <1>2, <2>2
  <2>4. PICK u \in [1 .. n + 1 -> Desc] :
          u = DoneHeads' /\ u[n + 1] = h /\ \A k \in 1 .. n : u[k] = s[k]
    <3>1. \A k \in 1 .. n : s[k] \in Desc
      OBVIOUS
    <3>2. [k \in 1 .. n + 1 |-> IF k <= n THEN s[k] ELSE h] \in [1 .. n + 1 -> Desc]
      BY <2>2, <3>1
    <3>3. DoneHeads' = [k \in 1 .. n + 1 |-> IF k <= n THEN s[k] ELSE h]
      BY <1>10, <2>2, <2>3
    <3> QED
      BY <3>2, <3>3
  <2>5. Range(u) = Range(s) \union {h} /\ (IsInjective(s) /\ h \notin Range(s) => IsInjective(u))
    BY <2>4, Grown
  <2> QED
    BY <2>1, <2>2, <2>3, <2>4, <2>5
<1>14. InUseHeads' = InUseHeads
  BY <1>1, <1>12, <1>13 DEF InUseHeads
<1>15. HandHeads' = HandHeads /\ Remnant' = Remnant /\ InHandCount' = InHandCount
  BY <1>1 DEF HandHeads, Remnant, InHandCount
<1>16. Heads' = Heads /\ HandHeads' \intersect InUseHeads' = {}
  BY <1>14, <1>15 DEF Heads, QueueInv, ChainsApart
<1>17. ChainsWhole' /\ ChainsApart' /\ FreeListIs'
  BY <1>1, <1>15, <1>16, ListsKept
<1>18. Once'
  BY <1>1, <1>12, <1>13 DEF QueueInv, Once
<1>19. Counted'
  <2>1. Cardinality(held') = Cardinality(held) - 1
    BY <1>1, <1>2, FS_RemoveElement
  <2>2. Offered \in Nat /\ numFree \in Nat /\ InHandCount \in Nat
    BY RingTypes DEF QueueInv, InHandCount
  <2>3. 2 * (Offered + Cardinality(held) + Done) + InHandCount + numFree = QueueSize
    BY DEF QueueInv, Counted
  <2>4. Offered + (Cardinality(held) - 1) + (Done + 1)
            = Offered + Cardinality(held) + Done
    BY <1>2, <2>2
  <2>5. Offered' + Cardinality(held') + Done' = Offered + Cardinality(held) + Done
    BY <1>11, <1>12, <2>1, <2>4
  <2> QED
    BY <1>1, <1>15, <2>3, <2>5 DEF Counted
<1>20. CallsFit'
  <2>1. pc = "publish" => availRing'[Slot(availIdx')] = head'
    BY <1>1 DEF QueueInv, CallsFit, Slot
  <2>2. ASSUME pc \in {"free", "bump"} PROVE lastUsed' # usedIdx'
    <3>1. lastUsed # usedIdx /\ Consumed = Inc(lastUsed)
      BY <2>2 DEF QueueInv, CallsFit, Consumed
    <3>2. Done = Ahead(lastUsed, usedIdx) - 1
      BY <1>2, <3>1, AheadMoves DEF Done
    <3>3. Ahead(lastUsed, usedIdx) \in Nat
      BY <1>2, AheadMoves
    <3>4. Ahead(lastUsed, usedIdx) + 1 < IdxMod
      BY <1>2, <1>4, <3>2, <3>3, Sizes
    <3>5. Ahead(lastUsed, Inc(usedIdx)) = Ahead(lastUsed, usedIdx) + 1
      BY <1>2, <3>4, AheadMoves
    <3>6. Inc(usedIdx) \in Idx
      BY <1>2, AheadIs
    <3>7. lastUsed # Inc(usedIdx)
      BY <1>2, <3>3, <3>5, <3>6, AheadMoves
    <3> QED
      BY <1>1, <3>7
  <2> QED
    BY <1>1, <2>1, <2>2 DEF CallsFit
<1>21. QueueTypeOK'
  <2>1. usedIdx' \in 0 .. IdxMod - 1
    BY <1>1, <1>2, AheadIs DEF Idx
  <2>2. held' \subseteq Desc
    BY <1>1 DEF QueueInv, QueueTypeOK
  <2>3. usedRing' \in [Desc -> Desc]
    BY <1>7
  <2> QED
    BY <1>1, <2>1, <2>2, <2>3 DEF QueueInv, QueueTypeOK
<1> QED
  BY <1>10, <1>12, <1>14, <1>17, <1>18, <1>19, <1>20, <1>21 DEF QueueInv

-----------------------------------------------------------------------------
(* The invariant, and what it says of the properties.                      *)

\* Every step keeps the invariant.
LEMMA QueueStepKeeps == QueueInv /\ [Next]_vars => QueueInv'
<1> SUFFICES ASSUME QueueInv, [Next]_vars PROVE QueueInv'
  OBVIOUS
<1>1. CASE AddBufFull
  BY <1>1, NothingKeeps DEF AddBufFull, descTable, freeList, device
<1>2. ASSUME NEW out \in Out, NEW in \in In, AddBuf(out, in) PROVE QueueInv'
  BY <1>2, AddBufKeeps
<1>3. CASE GetBufEmpty
  BY <1>3, NothingKeeps DEF GetBufEmpty, descTable, freeList, device
<1>4. CASE GetBuf
  BY <1>4, GetBufKeeps
<1>5. CASE AddPublish
  BY <1>5, AddPublishKeeps
<1>6. CASE FreeDescriptor
  BY <1>6, FreeDescriptorKeeps
<1>7. CASE GetBufReturn
  BY <1>7, GetBufReturnKeeps
<1>8. CASE DeviceTake
  BY <1>8, DeviceTakeKeeps
<1>9. ASSUME NEW h \in Desc, DeviceFinish(h) PROVE QueueInv'
  BY <1>9, DeviceFinishKeeps
<1>10. CASE UNCHANGED vars
  <2>1. ret \in {Success, ENOSPC, Empty}
    BY DEF QueueInv, QueueTypeOK
  <2> QED
    BY <1>10, <2>1, NothingKeeps DEF vars, descTable, freeList, device
<1> QED
  BY <1>1, <1>2, <1>3, <1>4, <1>5, <1>6, <1>7, <1>8, <1>9, <1>10
     DEF Next, AddBufCall, GetBufCall, CallStep, Device

\* The inductive invariant: chains, free list, rings and counts agree at
\* every step of driver and device, for every size and width of index.
THEOREM QueueInvariant == Spec => []QueueInv
BY InitQueueInv, QueueStepKeeps, PTL DEF Spec

\* Types of the ring state; num_free_ stays within the table.
THEOREM QueueTypeCorrect == Spec => []QueueTypeOK
<1>1. QueueInv => QueueTypeOK
  BY DEF QueueInv
<1> QED
  BY <1>1, QueueInvariant, PTL

\* The entry-by-entry free list is the one FreeListSound speaks of.
LEMMA InvGivesSound == QueueInv => FreeListSound
<1> SUFFICES ASSUME QueueInv PROVE FreeListSound
  OBVIOUS
<1> DEFINE chains == UNION {Chain(h) : h \in InUseHeads}
<1>1. PICK fl \in [1 .. numFree -> Desc] : FreeList(fl)
  BY DEF QueueInv, FreeListIs
<1>2. numFree \in Nat /\ InUseHeads \subseteq Desc /\ head \in Desc /\ cur \in Desc
  BY RingTypes DEF QueueInv, QueueTypeOK
<1>3. DOMAIN fl = 1 .. numFree /\ Len(fl) = numFree /\ (fl = <<>> <=> numFree = 0)
  <2>1. DOMAIN fl = 1 .. numFree /\ fl \in Seq(Desc)
    BY <1>2
  <2>2. Len(fl) = numFree
    BY <1>2, <2>1
  <2> QED
    BY <1>2, <2>1, <2>2
<1>4. SpelledBy(fl)
  BY <1>1, <1>3 DEF SpelledBy, FreeList
<1>5. IsInjective(fl)
  BY <1>1, <1>3 DEF IsInjective, FreeList
<1>6. Range(fl) \intersect Busy = {} /\ Desc \subseteq Range(fl) \union Busy
  BY <1>1, <1>3 DEF Range, FreeList
<1>7. Range(fl) \subseteq Desc
  BY <1>3 DEF Range
<1>8. \A h \in Heads : h \in Desc /\ next[h] \in Desc /\ flags[h] = "next"
                       /\ flags[next[h]] = "write"
  BY DEF QueueInv, ChainsWhole, Whole
<1>9. \A d : d \in InHand <=> d \in Remnant \/ \E h \in HandHeads : d = h \/ d = next[h]
  BY DEF InHand, Remnant, HandHeads, Chain
<1>10. \A d : d \in chains <=> \E h \in InUseHeads : d = h \/ d = next[h]
  BY DEF Chain
<1> HIDE DEF chains
<1>11. chains \union InHand = Busy
  <2>1. \A d \in Remnant : d \in Desc
    BY <1>2 DEF Remnant
  <2> QED
    BY <1>8, <1>9, <1>10, <2>1 DEF Busy, Heads
<1>12. chains \intersect InHand = {}
  <2>1. ASSUME NEW g \in InUseHeads, NEW h \in HandHeads
        PROVE  g # h /\ g # next[h] /\ next[g] # h /\ next[g] # next[h]
    <3>1. g \in Heads /\ h \in Heads
      BY DEF Heads
    <3>2. g # h
      BY DEF QueueInv, ChainsApart
    <3> QED
      BY <1>8, <3>1, <3>2 DEF QueueInv, ChainsApart
  <2>2. ASSUME NEW g \in InUseHeads, NEW d \in Remnant
        PROVE  g # d /\ next[g] # d
    <3>1. g \in Heads
      BY DEF Heads
    <3> QED
      BY <1>8, <3>1 DEF QueueInv, ChainsApart, ChainsWhole
  <2> QED
    BY <1>9, <1>10, <2>1, <2>2
<1>13. /\ Range(fl) \intersect (chains \union InHand) = {}
       /\ Range(fl) \union chains \union InHand = Desc
  <2>1. Busy \subseteq Desc
    BY DEF Busy
  <2> QED
    BY <1>6, <1>7, <1>11, <2>1
<1> QED
  BY <1>4, <1>5, <1>12, <1>13 DEF FreeListSound, chains

\* No descriptor is lost, handed out twice or freed while in use.
THEOREM FreeListAlwaysSound == Spec => []FreeListSound
BY InvGivesSound, QueueInvariant, PTL

-----------------------------------------------------------------------------
(* A queue that says it is full.                                           *)

\* As many heads in a window as the window is long.
LEMMA RangeCount ==
    ASSUME NEW n \in Nat, NEW S, NEW s \in [1 .. n -> S], IsInjective(s)
    PROVE  IsFiniteSet(Range(s)) /\ Cardinality(Range(s)) = n
<1>1. s \in Bijection(1 .. n, Range(s))
  BY DEF Bijection, Injection, Surjection, IsInjective, Range
<1>2. ExistsBijection(1 .. n, Range(s))
  BY <1>1 DEF ExistsBijection
<1>3. IsFiniteSet(1 .. n) /\ Cardinality(1 .. n) = n
  BY FS_Interval
<1> QED
  BY <1>2, <1>3, FS_Bijection

\* Disjoint sets together.
LEMMA DisjointCount ==
    ASSUME NEW S, NEW T, IsFiniteSet(S), IsFiniteSet(T), S \intersect T = {}
    PROVE  /\ IsFiniteSet(S \union T)
           /\ Cardinality(S \union T) = Cardinality(S) + Cardinality(T)
<1>1. Cardinality(S) \in Nat /\ Cardinality(T) \in Nat
  BY FS_CardinalityType
<1>2. /\ IsFiniteSet(S \union T)
      /\ Cardinality(S \union T)
            = Cardinality(S) + Cardinality(T) - Cardinality(S \intersect T)
  BY FS_Union
<1>3. Cardinality(S \intersect T) = 0
  BY FS_EmptySet
<1>4. PICK a \in Nat : a = Cardinality(S)
  BY <1>1
<1>5. PICK b \in Nat : b = Cardinality(T)
  BY <1>1
<1>6. a + b - 0 = a + b
  OBVIOUS
<1> QED
  BY <1>2, <1>3, <1>4, <1>5, <1>6

\* Heads in use, counted.
LEMMA HeadCount ==
    ASSUME QueueInv
    PROVE  /\ IsFiniteSet(InUseHeads)
           /\ Cardinality(InUseHeads) = Offered + Cardinality(held) + Done
<1>1. /\ Offered \in Nat /\ Done \in Nat /\ Cardinality(held) \in Nat
      /\ OfferedHeads \in [1 .. Offered -> Desc] /\ DoneHeads \in [1 .. Done -> Desc]
      /\ IsFiniteSet(held)
  BY RingTypes DEF QueueInv
<1>2. IsFiniteSet(Range(OfferedHeads)) /\ Cardinality(Range(OfferedHeads)) = Offered
  BY <1>1, RangeCount DEF QueueInv, Once
<1>3. IsFiniteSet(Range(DoneHeads)) /\ Cardinality(Range(DoneHeads)) = Done
  BY <1>1, RangeCount DEF QueueInv, Once
<1>4. /\ Range(OfferedHeads) \intersect held = {}
      /\ (Range(OfferedHeads) \union held) \intersect Range(DoneHeads) = {}
  BY DEF QueueInv, Once
<1>5. /\ IsFiniteSet(Range(OfferedHeads) \union held)
      /\ Cardinality(Range(OfferedHeads) \union held) = Offered + Cardinality(held)
  BY <1>1, <1>2, <1>4, DisjointCount
<1>6. /\ IsFiniteSet((Range(OfferedHeads) \union held) \union Range(DoneHeads))
      /\ Cardinality((Range(OfferedHeads) \union held) \union Range(DoneHeads))
            = Offered + Cardinality(held) + Done
  BY <1>1, <1>3, <1>4, <1>5, DisjointCount
<1> QED
  BY <1>6 DEF InUseHeads

\* AddBuf reports -ENOSPC only when fewer than two descriptors are left.
THEOREM FullMeansFull == Spec => FullOnlyWhenFull
<1>1. QueueInv /\ AddBufFull => QueueSize - 2 * Cardinality(InUseHeads) < 2
  <2> SUFFICES ASSUME QueueInv, AddBufFull
               PROVE  QueueSize - 2 * Cardinality(InUseHeads) < 2
    OBVIOUS
  <2>1. numFree < 2 /\ InHandCount = 0
    BY DEF AddBufFull, InHandCount
  <2>2. /\ Offered \in Nat /\ Done \in Nat /\ Cardinality(held) \in Nat
        /\ numFree \in Nat
    BY RingTypes DEF QueueInv
  <2>3. 2 * (Offered + Cardinality(held) + Done) + InHandCount + numFree = QueueSize
    BY DEF QueueInv, Counted
  <2>4. Cardinality(InUseHeads) = Offered + Cardinality(held) + Done
    BY HeadCount
  <2> QED
    BY <2>1, <2>2, <2>3, <2>4, Sizes
<1>2. QueueInv /\ [Next]_vars =>
         [AddBufFull => QueueSize - 2 * Cardinality(InUseHeads) < 2]_vars
  BY <1>1
<1> QED
  BY <1>2, QueueInvariant, PTL DEF Spec, FullOnlyWhenFull

-----------------------------------------------------------------------------
(* The refinement.                                                         *)

\* A sequence is a function on its positions.
LEMMA AsFunction ==
    ASSUME NEW S, NEW s \in Seq(S)
    PROVE  s \in [1 .. Len(s) -> S]
OBVIOUS

\* A window as a sequence: one entry more, and the first one gone.
LEMMA WindowIsSequence ==
    ASSUME NEW n \in Nat, NEW S, NEW s \in [1 .. n -> S]
    PROVE  /\ \A h \in S : Append(s, h) =
                  [k \in 1 .. n + 1 |-> IF k <= n THEN s[k] ELSE h]
           /\ n # 0 => /\ s # <<>> /\ Head(s) = s[1]
                       /\ Tail(s) = [k \in 1 .. n - 1 |-> s[k + 1]]
           /\ n = 0 => s = <<>>
<1>1. s \in Seq(S) /\ Len(s) = n
  OBVIOUS
<1>2. ASSUME NEW h \in S
      PROVE  Append(s, h) = [k \in 1 .. n + 1 |-> IF k <= n THEN s[k] ELSE h]
  <2>1. /\ Append(s, h) \in Seq(S) /\ Len(Append(s, h)) = n + 1
        /\ \A k \in 1 .. n : Append(s, h)[k] = s[k]
        /\ Append(s, h)[n + 1] = h
    BY <1>1
  <2>2. PICK t : t = Append(s, h)
    OBVIOUS
  <2>3. t \in [1 .. n + 1 -> S]
    BY <2>1, <2>2, AsFunction
  <2>4. \A k \in 1 .. n + 1 : t[k] = IF k <= n THEN s[k] ELSE h
    BY <2>1, <2>2
  <2>5. t = [k \in 1 .. n + 1 |-> IF k <= n THEN s[k] ELSE h]
    BY <2>3, <2>4
  <2> QED
    BY <2>2, <2>5
<1>3. ASSUME n # 0
      PROVE  /\ s # <<>> /\ Head(s) = s[1]
             /\ Tail(s) = [k \in 1 .. n - 1 |-> s[k + 1]]
  <2>1. s # <<>> /\ Head(s) = s[1]
    BY <1>1, <1>3
  <2>2. /\ Tail(s) \in Seq(S) /\ Len(Tail(s)) = n - 1
        /\ \A k \in 1 .. n - 1 : Tail(s)[k] = s[k + 1]
    BY <1>1, <1>3, <2>1
  <2>3. PICK t : t = Tail(s)
    OBVIOUS
  <2>4. t \in [1 .. n - 1 -> S]
    BY <1>3, <2>2, <2>3, AsFunction
  <2>5. \A k \in 1 .. n - 1 : t[k] = s[k + 1]
    BY <2>2, <2>3
  <2>6. t = [k \in 1 .. n - 1 |-> s[k + 1]]
    BY <2>4, <2>5
  <2> QED
    BY <2>1, <2>3, <2>6
<1>4. n = 0 => s = <<>>
  BY <1>1
<1> QED
  BY <1>2, <1>3, <1>4

\* The pairs that the refinement reads off the descriptor table.
Pairs == [h \in InUseHeads |-> <<addr[h], addr[next[h]]>>]

\* A step that changes no window and no chain is none of the buffer queue's.
LEMMA QueueStutters ==
    ASSUME OfferedHeads' = OfferedHeads, DoneHeads' = DoneHeads, held' = held,
           InUseHeads' = InUseHeads,
           \A h \in InUseHeads :
              addr'[h] = addr[h] /\ addr'[next'[h]] = addr[next[h]]
    PROVE  UNCHANGED Queue!vars
<1>1. Pairs' = Pairs
  BY DEF Pairs
<1> QED
  BY <1>1 DEF Queue!vars, Pairs

\* Every step is one of the buffer queue's, or none.
LEMMA QueueStepImplements ==
    QueueInv /\ [Next]_vars => [Queue!Next]_(Queue!vars)
<1> SUFFICES ASSUME QueueInv, [Next]_vars PROVE Queue!Next \/ UNCHANGED Queue!vars
  OBVIOUS
<1> DEFINE Calm == \A h \in InUseHeads :
                      addr'[h] = addr[h] /\ addr'[next'[h]] = addr[next[h]]
<1>0. /\ Offered \in Nat /\ Done \in Nat /\ held \subseteq Desc
      /\ OfferedHeads \in [1 .. Offered -> Desc] /\ DoneHeads \in [1 .. Done -> Desc]
      /\ ret \in {Success, ENOSPC, Empty}
  BY RingTypes DEF QueueInv, QueueTypeOK
<1>1. CASE AddBufFull \/ GetBufEmpty \/ UNCHANGED vars
  <2>1. /\ ret' \in {Success, ENOSPC, Empty}
        /\ UNCHANGED <<addr, flags, next, freeHead, numFree, lastUsed, availIdx,
                       availRing, usedIdx, usedRing, devIdx, held, pc, head, cur>>
    BY <1>0, <1>1 DEF AddBufFull, GetBufEmpty, vars, descTable, freeList, device
  <2>2. /\ OfferedHeads' = OfferedHeads /\ DoneHeads' = DoneHeads
        /\ InUseHeads' = InUseHeads
    BY <2>1, NothingKeeps
  <2>3. held' = held /\ Calm
    BY <2>1
  <2> QED
    BY <2>2, <2>3, QueueStutters
<1>2. ASSUME NEW out \in Out, NEW in \in In, AddBuf(out, in)
      PROVE  UNCHANGED Queue!vars
  <2>1. held' = held
    BY <1>2 DEF AddBuf, device
  <2> QED
    BY <1>2, <2>1, AddBufKeeps, QueueStutters
<1>3. CASE FreeDescriptor
  <2>1. held' = held
    BY <1>3 DEF FreeDescriptor, device
  <2> QED
    BY <1>3, <2>1, FreeDescriptorKeeps, QueueStutters
<1>4. CASE GetBufReturn
  <2>1. held' = held /\ addr' = addr /\ next' = next
    BY <1>4 DEF GetBufReturn, device, descTable
  <2> QED
    BY <1>4, <2>1, GetBufReturnKeeps, QueueStutters
<1>5. CASE AddPublish
  <2>1. /\ pc = "publish" /\ held' = held /\ addr' = addr /\ next' = next
    BY <1>5 DEF AddPublish, device, descTable
  <2>2. PICK t \in Desc : t = head
    BY <1>5, AddPublishKeeps
  <2>3. /\ t \notin InUseHeads /\ DoneHeads' = DoneHeads
        /\ InUseHeads' = InUseHeads \union {t}
        /\ OfferedHeads' = Append(OfferedHeads, t)
    BY <1>0, <1>5, <2>2, AddPublishKeeps, WindowIsSequence
  <2>4. t \in Heads
    BY <2>1, <2>2 DEF Heads, HandHeads
  <2>5. PICK p \in Out \X In : p = <<addr[t], addr[next[t]]>>
    BY <2>4 DEF QueueInv, ChainsWhole, Whole
  <2>6. Pairs' = [u \in InUseHeads \union {t} |-> IF u = t THEN p ELSE Pairs[u]]
    BY <2>1, <2>3, <2>5 DEF Pairs
  <2>7. Cardinality(InUseHeads) < QueueSize \div 2
    <3>1. InHandCount = 2 /\ numFree \in Nat /\ Cardinality(held) \in Nat
      BY <2>1, RingTypes DEF InHandCount, QueueInv
    <3>2. 2 * (Offered + Cardinality(held) + Done) + InHandCount + numFree = QueueSize
      BY DEF QueueInv, Counted
    <3>3. Cardinality(InUseHeads) = Offered + Cardinality(held) + Done
      BY HeadCount
    <3>4. /\ Cardinality(InUseHeads) \in Nat
          /\ 2 * (Cardinality(InUseHeads) + 1) <= QueueSize
      BY <1>0, <3>1, <3>2, <3>3, Sizes
    <3> QED
      BY <3>4, Sizes
  <2>8. DOMAIN Pairs = InUseHeads
    BY DEF Pairs
  <2>9. Queue!Post(t, p)
    <3>1. /\ t \notin DOMAIN Pairs
          /\ Cardinality(DOMAIN Pairs) < QueueSize \div 2
      BY <2>3, <2>7, <2>8
    <3>2. Pairs' = [u \in DOMAIN Pairs \union {t} |-> IF u = t THEN p ELSE Pairs[u]]
      BY <2>6, <2>8
    <3>3. OfferedHeads' = Append(OfferedHeads, t) /\ UNCHANGED <<held, DoneHeads>>
      BY <2>1, <2>3
    <3>4. \A S : Queue!Cardinality(S) = Cardinality(S)
      BY Zenon DEF Queue!Cardinality, Cardinality, Queue!IsFiniteSet, IsFiniteSet
    <3> QED
      BY <3>1, <3>2, <3>3, <3>4, Zenon DEF Queue!Post, Queue!InUse, Pairs
  <2> QED
    BY <2>9 DEF Queue!Next
<1>6. CASE GetBuf
  <2>1. held' = held /\ addr' = addr /\ next' = next
    BY <1>6 DEF GetBuf, device, descTable
  <2>2. /\ DoneHeads # <<>> /\ DoneHeads' = Tail(DoneHeads)
        /\ OfferedHeads' = OfferedHeads
        /\ InUseHeads' = InUseHeads \ {Head(DoneHeads)}
    BY <1>0, <1>6, GetBufKeeps, WindowIsSequence
  <2>3. Pairs' = [u \in InUseHeads \ {Head(DoneHeads)} |-> Pairs[u]]
    BY <2>1, <2>2 DEF Pairs
  <2>4. Queue!Reap
    BY <2>1, <2>2, <2>3 DEF Queue!Reap, Queue!InUse, Pairs
  <2> QED
    BY <2>4 DEF Queue!Next
<1>7. CASE DeviceTake
  <2>1. addr' = addr /\ next' = next
    BY <1>7 DEF DeviceTake, descTable
  <2>2. /\ OfferedHeads # <<>> /\ OfferedHeads' = Tail(OfferedHeads)
        /\ held' = held \union {Head(OfferedHeads)}
        /\ DoneHeads' = DoneHeads /\ InUseHeads' = InUseHeads
    BY <1>0, <1>7, DeviceTakeKeeps, WindowIsSequence
  <2>3. Pairs' = Pairs
    BY <2>1, <2>2 DEF Pairs
  <2>4. Queue!Take
    BY <2>2, <2>3 DEF Queue!Take, Pairs
  <2> QED
    BY <2>4 DEF Queue!Next
<1>8. ASSUME NEW t \in Desc, DeviceFinish(t) PROVE Queue!Next
  <2>1. addr' = addr /\ next' = next /\ t \in held /\ held' = held \ {t}
    BY <1>8 DEF DeviceFinish, descTable
  <2>2. /\ DoneHeads' = Append(DoneHeads, t)
        /\ OfferedHeads' = OfferedHeads /\ InUseHeads' = InUseHeads
    BY <1>0, <1>8, DeviceFinishKeeps, WindowIsSequence
  <2>3. Pairs' = Pairs
    BY <2>1, <2>2 DEF Pairs
  <2>4. Queue!Finish(t)
    BY <2>1, <2>2, <2>3 DEF Queue!Finish, Pairs
  <2> QED
    BY <2>4 DEF Queue!Next
<1> QED
  BY <1>1, <1>2, <1>3, <1>4, <1>5, <1>6, <1>7, <1>8
     DEF Next, AddBufCall, GetBufCall, CallStep, Device

\* The rings and descriptors implement the buffer queue: every chain is
\* offered once, served whole and unchanged, and comes back once, in the
\* order in which the device finished.
THEOREM QueueImplementsBufferQueue == Spec => ImplementsBufferQueue
<1>1. Init => Queue!Init
  <2> SUFFICES ASSUME Init PROVE Queue!Init
    OBVIOUS
  <2>1. QueueInv /\ held = {}
    BY InitQueueInv DEF Init
  <2>2. Offered = 0 /\ Done = 0
    <3>1. 0 \in Idx /\ Consumed = 0
      BY Sizes DEF Init, InitDescChain, Idx, Consumed
    <3> QED
      BY <3>1, AheadMoves DEF Init, InitDescChain, Offered, Done
  <2>3. OfferedHeads = <<>> /\ DoneHeads = <<>>
    BY <2>1, <2>2, RingTypes, WindowIsSequence DEF QueueInv
  <2>4. InUseHeads = {}
    BY <2>1, <2>3 DEF InUseHeads, Range
  <2> QED
    BY <2>1, <2>3, <2>4 DEF Queue!Init
<1>2. QueueInv /\ [Next]_vars => [Queue!Next]_(Queue!vars)
  BY QueueStepImplements
<1> QED
  BY <1>1, <1>2, QueueInvariant, PTL DEF Spec, ImplementsBufferQueue, Queue!Spec
=============================================================================
