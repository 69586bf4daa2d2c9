--------------------------- MODULE DataPathProofs ---------------------------
(***************************************************************************)
(* The data path of the handlers, for every number of open files, every    *)
(* data, buffer sizes, chunk sizes, modes and listing: types, listings and *)
(* access modes, and that the handlers implement the file of ByteFile.tla. *)
(***************************************************************************)
EXTENDS DataPath, TLAPS

-----------------------------------------------------------------------------
(* Sequences of bytes.                                                     *)

\* A part of a sequence.
LEMMA PartOf ==
    ASSUME NEW S, NEW s \in Seq(S), NEW m \in Nat, NEW n \in Nat,
           m <= n, n <= Len(s)
    PROVE  /\ SubSeq(s, m + 1, n) \in Seq(S)
           /\ Len(SubSeq(s, m + 1, n)) = n - m
           /\ \A i \in 1..n - m : SubSeq(s, m + 1, n)[i] = s[m + i]
OBVIOUS

\* Two sequences of the same length and elements are the same.
LEMMA SameSeq ==
    ASSUME NEW S, NEW s \in Seq(S), NEW t \in Seq(S), Len(s) = Len(t),
           \A i \in 1..Len(s) : s[i] = t[i]
    PROVE  s = t
<1>1. /\ s \in [1..Len(s) -> S] /\ t \in [1..Len(t) -> S]
  OBVIOUS
<1> QED
  BY <1>1

\* Byte i of a file c after d was stored at a position.
StoredByte(c, at, d, i) == IF i \in at + 1..at + Len(d) THEN d[i - at]
                           ELSE IF i <= Len(c) THEN c[i] ELSE Zero

\* One sequence after another.
LEMMA Joined ==
    ASSUME NEW S, NEW s \in Seq(S), NEW t \in Seq(S)
    PROVE  /\ s \o t \in Seq(S)
           /\ Len(s \o t) = Len(s) + Len(t)
           /\ \A i \in 1..Len(s) : (s \o t)[i] = s[i]
           /\ \A i \in Len(s) + 1..Len(s) + Len(t) : (s \o t)[i] = t[i - Len(s)]
OBVIOUS

\* What is stored at a position makes a sequence of bytes again, and where
\* its bytes are.
LEMMA StoreType ==
    ASSUME NEW S, Zero \in S, NEW c \in Seq(S), NEW d \in Seq(S), NEW at \in Nat
    PROVE  /\ Store(c, at, d) \in Seq(S)
           /\ d # << >> =>
                /\ Len(Store(c, at, d)) = LargerOf(Len(c), at + Len(d))
                /\ \A i \in 1..Len(Store(c, at, d)) :
                     Store(c, at, d)[i] = StoredByte(c, at, d, i)
<1>1. CASE d = << >>
  BY <1>1 DEF Store
<1>2. CASE d # << >>
  <2> DEFINE n == LargerOf(Len(c), at + Len(d))
             e == [i \in 1..n |-> IF i \in at + 1..at + Len(d) THEN d[i - at]
                                  ELSE IF i <= Len(c) THEN c[i] ELSE Zero]
  <2>1. n \in Nat /\ Store(c, at, d) = e
    BY <1>2 DEF Store, LargerOf
  <2>2. ASSUME NEW i \in 1..n PROVE e[i] \in S
    <3>1. i \in at + 1..at + Len(d) => i - at \in 1..Len(d)
      BY <2>1
    <3>2. i <= Len(c) => i \in 1..Len(c)
      BY <2>1
    <3> QED
      BY <3>1, <3>2
  <2>3. e \in [1..n -> S]
    BY <2>2
  <2> HIDE DEF e
  <2>4. e \in Seq(S) /\ Len(e) = n
    BY <2>1, <2>3
  <2>5. \A i \in 1..n : e[i] = StoredByte(c, at, d, i)
    BY DEF e, StoredByte
  <2> QED
    BY <1>2, <2>1, <2>4, <2>5
<1> QED
  BY <1>1, <1>2

\* A sum over one entry is that entry's room.
LEMMA SumOfOne ==
    ASSUME NEW x \in Nat, NameLen[x] \in Nat
    PROVE  /\ WireRoom(x, x) = Wire(x) /\ RecRoom(x, x) = Rec(x)
           /\ Wire(x) \in Nat /\ Rec(x) \in Nat
<1>1. x..x = {x} /\ Wire(x) \in Nat /\ Rec(x) \in Nat
  BY DEF Wire, Rec
<1> DEFINE pick(s) == CHOOSE y \in s : TRUE
<1>2. \A s \in SUBSET {x} : s = {} \/ s = {x}
  OBVIOUS
<1>3. pick({x}) = x /\ {x} \ {x} = {}
  OBVIOUS
<1>4. WireRoom(x, x) = Wire(x)
  <2> DEFINE Eq(f) == f = [s \in SUBSET {x} |-> IF s = {} THEN 0
                          ELSE Wire(pick(s)) + f[s \ {pick(s)}]]
             iter == CHOOSE f : Eq(f)
             g == [s \in SUBSET {x} |-> IF s = {} THEN 0 ELSE Wire(x)]
  <2>1. WireRoom(x, x) = iter[{x}]
    BY <1>1 DEF WireRoom, MapThenSumSet, MapThenFoldSet
  <2>2. g[{}] = 0 /\ g[{x}] = Wire(x)
    OBVIOUS
  <2>3. \A s \in SUBSET {x} :
           g[s] = IF s = {} THEN 0 ELSE Wire(pick(s)) + g[s \ {pick(s)}]
    <3> HIDE DEF g, pick
    <3> SUFFICES ASSUME NEW s \in SUBSET {x}, s # {}
                 PROVE  g[s] = Wire(pick(s)) + g[s \ {pick(s)}]
      BY <2>2
    <3>1. s = {x}
      BY <1>2
    <3>2. pick(s) = x /\ s \ {pick(s)} = {}
      BY <1>3, <3>1
    <3> QED
      BY <1>1, <2>2, <3>1, <3>2
  <2>4. g = [s \in SUBSET {x} |-> g[s]]
    OBVIOUS
  <2>5. Eq(g)
    <3> HIDE DEF g, pick
    <3> QED
      BY <2>3, <2>4
  <2>6. Eq(iter)
    <3> HIDE DEF Eq, g
    <3> QED
      BY <2>5
  <2> HIDE DEF iter
  <2>7. iter[{}] = 0 /\ iter[{x}] = Wire(x) + iter[{}]
    <3>1. {} \in SUBSET {x} /\ {x} \in SUBSET {x} /\ {x} # {}
      OBVIOUS
    <3>2. \A s \in SUBSET {x} :
             iter[s] = IF s = {} THEN 0 ELSE Wire(pick(s)) + iter[s \ {pick(s)}]
      <4> HIDE DEF pick
      <4> QED
        BY <2>6, Zenon
    <3> HIDE DEF pick
    <3> QED
      BY <1>3, <3>1, <3>2, Zenon
  <2> QED
    BY <1>1, <2>1, <2>7
<1>5. RecRoom(x, x) = Rec(x)
  <2> DEFINE Eq(f) == f = [s \in SUBSET {x} |-> IF s = {} THEN 0
                          ELSE Rec(pick(s)) + f[s \ {pick(s)}]]
             iter == CHOOSE f : Eq(f)
             g == [s \in SUBSET {x} |-> IF s = {} THEN 0 ELSE Rec(x)]
  <2>1. RecRoom(x, x) = iter[{x}]
    BY <1>1 DEF RecRoom, MapThenSumSet, MapThenFoldSet
  <2>2. g[{}] = 0 /\ g[{x}] = Rec(x)
    OBVIOUS
  <2>3. \A s \in SUBSET {x} :
           g[s] = IF s = {} THEN 0 ELSE Rec(pick(s)) + g[s \ {pick(s)}]
    <3> HIDE DEF g, pick
    <3> SUFFICES ASSUME NEW s \in SUBSET {x}, s # {}
                 PROVE  g[s] = Rec(pick(s)) + g[s \ {pick(s)}]
      BY <2>2
    <3>1. s = {x}
      BY <1>2
    <3>2. pick(s) = x /\ s \ {pick(s)} = {}
      BY <1>3, <3>1
    <3> QED
      BY <1>1, <2>2, <3>1, <3>2
  <2>4. g = [s \in SUBSET {x} |-> g[s]]
    OBVIOUS
  <2>5. Eq(g)
    <3> HIDE DEF g, pick
    <3> QED
      BY <2>3, <2>4
  <2>6. Eq(iter)
    <3> HIDE DEF Eq, g
    <3> QED
      BY <2>5
  <2> HIDE DEF iter
  <2>7. iter[{}] = 0 /\ iter[{x}] = Rec(x) + iter[{}]
    <3>1. {} \in SUBSET {x} /\ {x} \in SUBSET {x} /\ {x} # {}
      OBVIOUS
    <3>2. \A s \in SUBSET {x} :
             iter[s] = IF s = {} THEN 0 ELSE Rec(pick(s)) + iter[s \ {pick(s)}]
      <4> HIDE DEF pick
      <4> QED
        BY <2>6, Zenon
    <3> HIDE DEF pick
    <3> QED
      BY <1>3, <3>1, <3>2, Zenon
  <2> QED
    BY <1>1, <2>1, <2>7
<1> QED
  BY <1>1, <1>4, <1>5

-----------------------------------------------------------------------------
(* Types.                                                                  *)

OcbStates == [kind : {"closed", "file", "dir"}, isDir : BOOLEAN,
              acc : SUBSET {"rd", "wr"}, mode : LinuxModes, append : BOOLEAN,
              iounit : Nat, offset : Nat, seen : Seq(Nat)]
Locs == [ocb : Ocb, data : Contents, start : Nat, moves : BOOLEAN,
         inline : Nat, total : Nat, turn : BOOLEAN, before : Contents]

\* Only a directory says it is one; while chunks are sent there is a byte
\* left to send, to a file.
TypeInv ==
    /\ file \in Contents
    /\ ocb \in [Ocb -> OcbStates]
    /\ pc \in {"idle", "Write"}
    /\ loc \in Locs
    /\ \A o \in Ocb : ocb[o].isDir => ocb[o].kind = "dir"
    /\ pc = "Write" => loc.total < Len(loc.data) /\ ocb[loc.ocb].kind = "file"

\* The constants that records start from.
LEMMA StartTypes ==
    /\ NoLoc \in Locs /\ Closed \in OcbStates /\ << >> \in Contents
    /\ Closed.isDir = FALSE /\ Closed.kind = "closed" /\ Zero \in ByteSet
<1>1. << >> \in Contents /\ Zero \in ByteSet
  <2>1. << >> \in Contents
    BY DEF Contents
  <2>2. Zero \in ByteSet
    BY DEF ByteSet
  <2> QED
    BY <2>1, <2>2
<1>2. NoOcb \in Ocb
  BY OcbAssumption DEF NoOcb
<1>3. NoLoc \in Locs
  BY <1>1, <1>2 DEF NoLoc, Locs
<1>4. Closed \in OcbStates /\ Closed.isDir = FALSE /\ Closed.kind = "closed"
  <2>1. << >> \in Seq(Nat)
    OBVIOUS
  <2> QED
    BY <2>1 DEF Closed, OcbStates, LinuxModes
<1> QED
  BY <1>1, <1>3, <1>4

\* Storing a piece and then the piece after it, is to store both at once.
LEMMA StoreStore ==
    ASSUME NEW c \in Contents, NEW d \in Contents, NEW e \in Contents,
           NEW at \in Nat
    PROVE  Store(Store(c, at, d), at + Len(d), e) = Store(c, at, d \o e)
<1> DEFINE S == ByteSet
<1>0. Zero \in S /\ c \in Seq(S) /\ d \in Seq(S) /\ e \in Seq(S)
  BY StartTypes DEF Contents
<1> HIDE DEF S
<1>1. CASE d = << >>
  <2>1. d \o e = e /\ Len(d) = 0
    BY <1>1
  <2> QED
    BY <1>1, <2>1 DEF Store
<1>2. CASE e = << >>
  BY <1>2 DEF Store
<1>3. CASE d # << >> /\ e # << >>
  <2>1. /\ d \o e \in Seq(S) /\ Len(d \o e) = Len(d) + Len(e)
        /\ Len(d) \in Nat \ {0} /\ Len(e) \in Nat \ {0} /\ Len(c) \in Nat
        /\ d \o e # << >>
    BY <1>0, <1>3
  <2> DEFINE b == Store(c, at, d)
             l == Store(b, at + Len(d), e)
             r == Store(c, at, d \o e)
  <2>2. /\ b \in Seq(S) /\ Len(b) = LargerOf(Len(c), at + Len(d))
        /\ \A i \in 1..Len(b) :
             b[i] = StoredByte(c, at, d, i)
    BY <1>0, <1>3, StoreType
  <2>3. /\ l \in Seq(S) /\ Len(l) = LargerOf(Len(b), at + Len(d) + Len(e))
        /\ \A i \in 1..Len(l) :
             l[i] = StoredByte(b, at + Len(d), e, i)
    <3> HIDE DEF b
    <3>1. b \in Seq(S) /\ at + Len(d) \in Nat /\ e \in Seq(S) /\ e # << >>
      BY <1>3, <2>1, <2>2
    <3>2. LET y == at + Len(d)
          IN  /\ Store(b, y, e) \in Seq(S)
              /\ Len(Store(b, y, e)) = LargerOf(Len(b), y + Len(e))
              /\ \A i \in 1..Len(Store(b, y, e)) :
                   Store(b, y, e)[i] = StoredByte(b, y, e, i)
      BY <1>0, <3>1, StoreType
    <3> QED
      BY <3>1, <3>2
  <2>4. /\ r \in Seq(S) /\ Len(r) = LargerOf(Len(c), at + (Len(d) + Len(e)))
        /\ \A i \in 1..Len(r) :
             r[i] = StoredByte(c, at, d \o e, i)
    <3> DEFINE f == d \o e
    <3>1. f \in Seq(S) /\ f # << >> /\ Len(f) = Len(d) + Len(e)
      BY <2>1
    <3> HIDE DEF f
    <3>2. /\ Store(c, at, f) \in Seq(S)
          /\ Len(Store(c, at, f)) = LargerOf(Len(c), at + Len(f))
          /\ \A i \in 1..Len(Store(c, at, f)) :
               Store(c, at, f)[i] = StoredByte(c, at, f, i)
      BY <1>0, <3>1, StoreType
    <3> QED
      BY <3>1, <3>2 DEF f
  <2> HIDE DEF b, l, r
  <2>5. Len(l) = Len(r) /\ Len(b) <= Len(l) /\ Len(l) \in Nat
    BY <2>1, <2>2, <2>3, <2>4 DEF LargerOf
  <2>6. ASSUME NEW i \in 1..Len(l) PROVE l[i] = r[i]
    <3>1. CASE i \in at + Len(d) + 1..at + Len(d) + Len(e)
      <4>1. (d \o e)[i - at] = e[i - at - Len(d)]
        BY <2>1, <3>1
      <4> QED
        BY <2>1, <2>3, <2>4, <2>5, <3>1, <4>1 DEF StoredByte
    <3>2. CASE i \in at + 1..at + Len(d)
      <4>1. (d \o e)[i - at] = d[i - at]
        BY <2>1, <3>2
      <4>2. i \in 1..Len(b)
        BY <2>1, <2>2, <3>2 DEF LargerOf
      <4> QED
        BY <2>1, <2>2, <2>3, <2>4, <2>5, <3>2, <4>1, <4>2 DEF StoredByte
    <3>3. CASE i <= at \/ i > at + Len(d) + Len(e)
      <4>1. r[i] = IF i <= Len(c) THEN c[i] ELSE Zero
        BY <2>1, <2>4, <2>5, <3>3 DEF StoredByte
      <4>2. l[i] = IF i <= Len(b) THEN b[i] ELSE Zero
        BY <2>1, <2>3, <3>3 DEF StoredByte
      <4>3. i <= Len(b) => b[i] = IF i <= Len(c) THEN c[i] ELSE Zero
        BY <2>1, <2>2, <3>3 DEF StoredByte
      <4>4. i <= Len(c) => i <= Len(b)
        BY <2>1, <2>2 DEF LargerOf
      <4> QED
        BY <2>1, <4>1, <4>2, <4>3, <4>4
    <3> QED
      BY <2>1, <3>1, <3>2, <3>3
  <2>7. l = r
    BY <2>3, <2>4, <2>5, <2>6, SameSeq
  <2> QED
    BY <2>7 DEF b, l, r
<1> QED
  BY <1>1, <1>2, <1>3

\* A chunk is the next part of the client's data, wherever the bytes came
\* from, and its beginnings continue what was stored before.
LEMMA ChunkIsNext ==
    ASSUME TypeInv, pc = "Write"
    PROVE  /\ Len(Chunk) \in 1..Len(loc.data) - loc.total
           /\ 0 \in 0..Len(Chunk) /\ 1..Len(Chunk) \subseteq 0..Len(Chunk)
           /\ SubSeq(Chunk, 1, 0) = << >>
           /\ \A k \in 0..Len(Chunk) :
                /\ SubSeq(Chunk, 1, k) \in Contents
                /\ SubSeq(Chunk, 1, k) =
                     SubSeq(loc.data, loc.total + 1, loc.total + k)
                /\ SubSeq(loc.data, 1, loc.total) \o SubSeq(Chunk, 1, k) =
                     SubSeq(loc.data, 1, loc.total + k)
                /\ SubSeq(loc.data, 1, loc.total + k) \in Contents
                /\ Len(SubSeq(loc.data, 1, loc.total)) = loc.total
<1> DEFINE data == loc.data
           t == loc.total
<1>1. /\ data \in Seq(ByteSet) /\ t \in Nat /\ t < Len(data) /\ Len(data) \in Nat
      /\ loc.inline \in Nat /\ ocb[loc.ocb].iounit \in Nat
  BY DEF TypeInv, Locs, Contents, OcbStates
<1>2. ChunkSize \in Nat \ {0}
  BY <1>1, ChunkAssumption DEF ChunkSize
<1>3. ToWrite \in 1..Len(data) - t
  BY <1>1, <1>2 DEF ToWrite, SmallerOf
<1>4. Copied \in 0..ToWrite
  BY <1>1, <1>3 DEF Copied, SmallerOf
<1> DEFINE a == SubSeq(data, t + 1, t + Copied)
           b == SubSeq(data, t + Copied + 1, t + ToWrite)
<1>5. Chunk = a \o b
  <2>1. t + Copied + (ToWrite - Copied) = t + ToWrite
    BY <1>1, <1>3, <1>4
  <2> QED
    BY <2>1 DEF Chunk, MsgRead
<1> HIDE DEF data, t
<1>6. /\ a \in Seq(ByteSet) /\ Len(a) = Copied
      /\ \A i \in 1..Copied : a[i] = data[t + i]
  BY <1>1, <1>3, <1>4, PartOf
<1>7. /\ b \in Seq(ByteSet) /\ Len(b) = ToWrite - Copied
      /\ \A i \in 1..ToWrite - Copied : b[i] = data[t + Copied + i]
  <2> DEFINE m == t + Copied
             n == t + ToWrite
  <2>1. m \in Nat /\ n \in Nat /\ m <= n /\ n <= Len(data)
        /\ n - m = ToWrite - Copied
    BY <1>1, <1>3, <1>4
  <2> HIDE DEF m, n
  <2>2. /\ SubSeq(data, m + 1, n) \in Seq(ByteSet)
        /\ Len(SubSeq(data, m + 1, n)) = n - m
        /\ \A i \in 1..n - m : SubSeq(data, m + 1, n)[i] = data[m + i]
    BY <1>1, <2>1, PartOf
  <2> QED
    BY <2>1, <2>2 DEF m, n
<1> HIDE DEF a, b
<1>8. /\ Chunk \in Seq(ByteSet) /\ Len(Chunk) = ToWrite
      /\ \A i \in 1..ToWrite : Chunk[i] = data[t + i]
  <2>1. Chunk \in Seq(ByteSet) /\ Len(Chunk) = ToWrite
    BY <1>3, <1>4, <1>5, <1>6, <1>7
  <2>2. ASSUME NEW i \in 1..ToWrite PROVE Chunk[i] = data[t + i]
    <3>1. CASE i <= Copied
      BY <1>3, <1>4, <1>5, <1>6, <1>7, <3>1
    <3>2. CASE i > Copied
      <4>1. Chunk[i] = b[i - Copied] /\ i - Copied \in 1..ToWrite - Copied
        BY <1>3, <1>4, <1>5, <1>6, <1>7, <3>2
      <4>2. t + Copied + (i - Copied) = t + i
        BY <1>1, <1>3, <1>4
      <4> QED
        BY <1>7, <4>1, <4>2
    <3> QED
      BY <1>3, <1>4, <3>1, <3>2
  <2> QED
    BY <2>1, <2>2
<1>9. ASSUME NEW k \in 0..ToWrite
      PROVE  /\ SubSeq(Chunk, 1, k) \in Seq(ByteSet)
             /\ SubSeq(Chunk, 1, k) = SubSeq(data, t + 1, t + k)
             /\ SubSeq(data, 1, t) \o SubSeq(Chunk, 1, k) = SubSeq(data, 1, t + k)
             /\ SubSeq(data, 1, t + k) \in Seq(ByteSet)
             /\ Len(SubSeq(data, 1, t)) = t
  <2>1. /\ SubSeq(Chunk, 1, k) \in Seq(ByteSet) /\ Len(SubSeq(Chunk, 1, k)) = k
        /\ \A i \in 1..k : SubSeq(Chunk, 1, k)[i] = data[t + i]
    BY <1>3, <1>8
  <2>2. /\ SubSeq(data, t + 1, t + k) \in Seq(ByteSet)
        /\ Len(SubSeq(data, t + 1, t + k)) = k
        /\ \A i \in 1..k : SubSeq(data, t + 1, t + k)[i] = data[t + i]
    BY <1>1, <1>3, PartOf
  <2>3. SubSeq(Chunk, 1, k) = SubSeq(data, t + 1, t + k)
    BY <2>1, <2>2, SameSeq
  <2>4. /\ SubSeq(data, 1, t) \in Seq(ByteSet) /\ Len(SubSeq(data, 1, t)) = t
        /\ \A i \in 1..t : SubSeq(data, 1, t)[i] = data[i]
    BY <1>1
  <2>5. /\ SubSeq(data, 1, t + k) \in Seq(ByteSet)
        /\ Len(SubSeq(data, 1, t + k)) = t + k
        /\ \A i \in 1..t + k : SubSeq(data, 1, t + k)[i] = data[i]
    BY <1>1, <1>3
  <2> DEFINE p == SubSeq(data, 1, t)
             q == SubSeq(Chunk, 1, k)
             r == SubSeq(data, 1, t + k)
  <2> HIDE DEF p, q, r
  <2>6. p \o q \in Seq(ByteSet) /\ Len(p \o q) = t + k
    BY <1>1, <2>1, <2>4 DEF p, q
  <2>7. ASSUME NEW i \in 1..t + k PROVE (p \o q)[i] = r[i]
    <3>1. CASE i <= t
      <4>1. (p \o q)[i] = p[i]
        BY <1>1, <2>1, <2>4, <3>1 DEF p, q
      <4> QED
        BY <1>1, <2>4, <2>5, <3>1, <4>1 DEF p, r
    <3>2. CASE i > t
      <4>1. (p \o q)[i] = q[i - t] /\ i - t \in 1..k /\ t + (i - t) = i
        BY <1>1, <2>1, <2>4, <3>2 DEF p, q
      <4> QED
        BY <1>1, <2>1, <2>5, <3>2, <4>1 DEF q, r
    <3>3. i <= t \/ i > t
      BY <1>1, <1>3
    <3> QED
      BY <3>1, <3>2, <3>3
  <2>8. p \o q = r
    BY <1>1, <2>5, <2>6, <2>7, SameSeq DEF r
  <2> QED
    BY <2>1, <2>3, <2>4, <2>5, <2>8 DEF p, q, r
<1>10. /\ SubSeq(Chunk, 1, 0) = << >> /\ 0 \in 0..Len(Chunk)
       /\ 1..Len(Chunk) \subseteq 0..Len(Chunk)
  BY <1>3, <1>8
<1> QED
  BY <1>3, <1>8, <1>9, <1>10 DEF data, t, Contents

\* What the server makes of the file with the beginning of a chunk.
LEMMA StoredType ==
    ASSUME TypeInv, pc = "Write", NEW k \in 0..Len(Chunk)
    PROVE  Store(file, ChunkPlace, SubSeq(Chunk, 1, k)) \in Contents
<1>1. SubSeq(Chunk, 1, k) \in Contents
  BY ChunkIsNext
<1>2. ChunkPlace \in Nat /\ file \in Contents
  BY DEF ChunkPlace, TypeInv, Locs, Contents
<1> QED
  BY <1>1, <1>2, StartTypes, StoreType DEF Contents

\* Every step keeps the types.
LEMMA TypeStep ==
    ASSUME TypeInv, [Next]_vars
    PROVE  TypeInv'
<1>1. /\ file \in Contents /\ ocb \in [Ocb -> OcbStates] /\ loc \in Locs
      /\ \A o \in Ocb : ocb[o].isDir => ocb[o].kind = "dir"
  BY DEF TypeInv
<1>2. CASE UNCHANGED vars
  BY <1>2 DEF vars, TypeInv
<1>3. ASSUME NEW o \in Ocb, NEW how \in Opens, ConnectOpen(o, how)
      PROVE  TypeInv'
  <2>1. /\ how.acc \in SUBSET {"rd", "wr"} /\ how.append \in BOOLEAN
        /\ how.iounit \in Nat
    BY OpensAssumption
  <2> DEFINE s == [Closed EXCEPT !.kind = "file", !.acc = how.acc,
                                 !.mode = TranslateQnxToLinuxFlags(how.acc),
                                 !.append = how.append, !.iounit = how.iounit]
  <2>2. s \in OcbStates /\ s.isDir = FALSE
    BY <2>1, StartTypes
       DEF OcbStates, TranslateQnxToLinuxFlags, LinuxModes
  <2>3. /\ file' \in Contents /\ pc = "idle" /\ pc' = pc /\ loc' = loc
        /\ ocb' = [ocb EXCEPT ![o] = s]
    BY <1>1, <1>3, StartTypes DEF ConnectOpen, Begin
  <2> HIDE DEF s
  <2> QED
    BY <1>1, <2>2, <2>3 DEF TypeInv
<1>4. ASSUME NEW o \in Ocb, ConnectOpenDir(o) PROVE TypeInv'
  <2>1. PICK gotAttr \in BOOLEAN :
           ocb' = [ocb EXCEPT ![o] = [Closed EXCEPT !.kind = "dir",
                                           !.isDir = gotAttr, !.acc = {"rd"}]]
    BY <1>4 DEF ConnectOpenDir
  <2> DEFINE s == [Closed EXCEPT !.kind = "dir", !.isDir = gotAttr,
                                 !.acc = {"rd"}]
  <2>2. s \in OcbStates /\ s.kind = "dir"
    BY StartTypes DEF OcbStates
  <2>3. file' = file /\ pc = "idle" /\ pc' = pc /\ loc' = loc
    BY <1>4 DEF ConnectOpenDir, Begin
  <2>4. ocb' = [ocb EXCEPT ![o] = s]
    BY <2>1
  <2> HIDE DEF s
  <2> QED
    BY <1>1, <2>2, <2>3, <2>4 DEF TypeInv
<1>5. ASSUME NEW o \in Ocb, IoCloseOcb(o) PROVE TypeInv'
  BY <1>1, <1>5, StartTypes DEF IoCloseOcb, Begin, TypeInv
<1>6. ASSUME NEW o \in Ocb, IoReadRefused(o) \/ IoWriteRefused(o) PROVE TypeInv'
  BY <1>1, <1>6 DEF IoReadRefused, IoWriteRefused, Begin, TypeInv
<1>7. ASSUME NEW o \in Ocb, NEW k \in Nat, file' = file, pc = "idle", pc' = pc,
             loc' = loc, ocb' = [ocb EXCEPT ![o].offset = k]
      PROVE  TypeInv'
  <2> DEFINE s == [ocb[o] EXCEPT !.offset = k]
  <2>1. /\ s \in OcbStates /\ s.isDir = ocb[o].isDir
        /\ s.kind = ocb[o].kind
    BY <1>1 DEF OcbStates
  <2>2. ocb' = [ocb EXCEPT ![o] = s]
    BY <1>7
  <2> HIDE DEF s
  <2> QED
    BY <1>1, <1>7, <2>1, <2>2 DEF TypeInv
<1>8. ASSUME NEW o \in Ocb, NEW n \in Sizes, IoRead(o, n) PROVE TypeInv'
  <2>1. /\ file' = file /\ pc = "idle" /\ pc' = pc /\ loc' = loc
    BY <1>8 DEF IoRead, Begin
  <2>2. CASE ocb' = ocb
    BY <1>1, <2>1, <2>2 DEF TypeInv
  <2>3. ASSUME NEW k \in Nat, Got(o, n, k) PROVE TypeInv'
    <3>1. ocb' = [ocb EXCEPT ![o].offset = ocb[o].offset + k]
      BY <2>3 DEF Got
    <3>2. ocb[o].offset + k \in Nat
      BY <1>1 DEF OcbStates
    <3> QED
      BY <1>7, <2>1, <3>1, <3>2
  <2>4. CASE \E k \in Nat : Got(o, n, k)
    BY <2>3, <2>4
  <2> QED
    BY <1>8, <2>2, <2>4 DEF IoRead, ReadFailed
<1>9. ASSUME NEW o \in Ocb, NEW n \in DirSizes, IoReadDir(o, n) PROVE TypeInv'
  <2>1. file' = file /\ pc = "idle" /\ pc' = pc /\ loc' = loc
    BY <1>9 DEF IoReadDir, Begin
  <2>2. CASE ocb' = ocb
    BY <1>1, <2>1, <2>2 DEF TypeInv
  <2>3. ASSUME NEW kept \in Nat, NEW sent, kept >= ocb[o].offset,
               ocb' = Keep(o, kept, sent)
        PROVE  TypeInv'
    <3> DEFINE from == ocb[o].offset
               more == [i \in 1..kept - from |-> from + i]
               s == [ocb[o] EXCEPT !.offset = kept, !.seen = @ \o more]
    <3>1. from \in Nat /\ ocb[o] \in OcbStates /\ ocb[o].seen \in Seq(Nat)
      BY <1>1 DEF OcbStates
    <3>2. more \in Seq(Nat)
      <4>1. kept - from \in Nat /\ \A i \in 1..kept - from : from + i \in Nat
        BY <2>3, <3>1
      <4> HIDE DEF from
      <4> QED
        BY <4>1
    <3> HIDE DEF more
    <3>3. ocb[o].seen \o more \in Seq(Nat)
      BY <3>1, <3>2
    <3>4. s \in OcbStates /\ s.isDir = ocb[o].isDir /\ s.kind = ocb[o].kind
      BY <2>3, <3>1, <3>3 DEF OcbStates
    <3>5. ocb' = [ocb EXCEPT ![o] = s]
      BY <1>1, <2>3 DEF Keep, more
    <3> HIDE DEF s
    <3> QED
      BY <1>1, <2>1, <3>4, <3>5 DEF TypeInv
  <2>4. CASE \E sent \in Nat, kept \in Nat :
               kept >= ocb[o].offset /\ ocb' = Keep(o, kept, sent)
    BY <2>3, <2>4
  <2>5. ocb[o].offset \in Nat /\ Len(NameLen) \in Nat
    BY <1>1, ListingAssumption DEF OcbStates
  <2>6. CASE ocb' # ocb
    <3>1. PICK sent \in ocb[o].offset..Len(NameLen) :
            \E kept \in ocb[o].offset..sent : ocb' = Keep(o, kept, sent)
      BY <1>9, <2>6 DEF IoReadDir
    <3> QED
      BY <2>4, <2>5, <3>1
  <2> QED
    BY <2>2, <2>6
<1>10. ASSUME NEW o \in Ocb, NEW d \in Data, NEW at \in Nat, NEW m \in BOOLEAN,
              NEW inline \in 0..Len(d), IoWrite(o, d, at, m, inline)
       PROVE  TypeInv'
  <2>1. d \in Contents /\ inline \in Nat
    BY DataAssumption DEF Contents
  <2>2. /\ file' = file /\ ocb' = ocb /\ pc = "idle" /\ ocb[o].kind = "file"
    BY <1>10 DEF IoWrite, Begin
  <2>3. CASE d = << >>
    BY <1>1, <1>10, <2>2, <2>3 DEF IoWrite, TypeInv
  <2>4. CASE d # << >>
    <3>1. /\ pc' = "Write"
          /\ loc' = [ocb |-> o, data |-> d, start |-> at, moves |-> m,
                     inline |-> inline, total |-> 0, turn |-> FALSE,
                     before |-> file]
      BY <1>10, <2>4 DEF IoWrite
    <3>2. 0 < Len(d)
      BY <2>1, <2>4 DEF Contents
    <3> QED
      BY <1>1, <2>1, <2>2, <3>1, <3>2 DEF TypeInv, Locs
  <2> QED
    BY <2>3, <2>4
<1>11. CASE WriteFailed
  <2>1. pc = "Write" /\ ocb' = ocb /\ pc' = "idle" /\ loc' = NoLoc
    BY <1>11 DEF WriteFailed, WriteReply
  <2>2. file' \in Contents
    BY <1>1, <1>11, <2>1, ChunkIsNext, StoredType DEF WriteFailed
  <2> QED
    BY <1>1, <2>1, <2>2, StartTypes DEF TypeInv
<1>12. CASE WriteChunk
  <2>1. PICK k \in 0..Len(Chunk) :
          /\ file' = Store(file, ChunkPlace, SubSeq(Chunk, 1, k))
          /\ IF MoreToWrite(k)
             THEN /\ loc' = [loc EXCEPT !.total = @ + k, !.turn = ~@]
                  /\ UNCHANGED <<ocb, pc, reply>>
             ELSE /\ WriteReply("ok", SubSeq(loc.data, 1, loc.total + k))
                  /\ ocb' = IF loc.moves
                            THEN [ocb EXCEPT ![loc.ocb].offset = @ + loc.total + k]
                            ELSE ocb
    BY <1>12 DEF WriteChunk
  <2>2. pc = "Write" /\ file' \in Contents /\ loc.ocb \in Ocb /\ loc.total \in Nat
    BY <1>1, <1>12, <2>1, StoredType DEF WriteChunk, Locs
  <2>3. k \in Nat /\ k <= Len(loc.data) - loc.total
    BY <2>2, ChunkIsNext
  <2>4. CASE MoreToWrite(k)
    <3>1. loc' \in Locs /\ loc'.total = loc.total + k /\ loc'.data = loc.data
          /\ loc'.ocb = loc.ocb /\ ocb' = ocb /\ pc' = pc
      <4>1. loc.total + k \in Nat /\ loc.turn \in BOOLEAN
        BY <1>1, <2>2, <2>3 DEF Locs
      <4>2. /\ loc' = [loc EXCEPT !.total = loc.total + k, !.turn = ~loc.turn]
            /\ ocb' = ocb /\ pc' = pc
        BY <2>1, <2>4
      <4> QED
        BY <1>1, <4>1, <4>2 DEF Locs
    <3>2. loc.total + k < Len(loc.data)
      BY <2>4 DEF MoreToWrite
    <3> QED
      BY <1>1, <2>2, <3>1, <3>2 DEF TypeInv
  <2>5. CASE ~MoreToWrite(k)
    <3>1. loc' = NoLoc /\ pc' = "idle"
      BY <2>1, <2>5 DEF WriteReply
    <3>2. CASE ocb' = ocb
      BY <1>1, <2>2, <3>1, <3>2, StartTypes DEF TypeInv
    <3>3. CASE ocb' = [ocb EXCEPT ![loc.ocb].offset = @ + loc.total + k]
      <4> DEFINE j == ocb[loc.ocb].offset + loc.total + k
                 s == [ocb[loc.ocb] EXCEPT !.offset = j]
      <4>1. s \in OcbStates /\ s.isDir = ocb[loc.ocb].isDir
            /\ s.kind = ocb[loc.ocb].kind
        <5>1. j \in Nat /\ ocb[loc.ocb] \in OcbStates
          BY <1>1, <2>2, <2>3 DEF OcbStates
        <5> HIDE DEF j
        <5> QED
          BY <5>1 DEF OcbStates
      <4>2. ocb' = [ocb EXCEPT ![loc.ocb] = s]
        BY <1>1, <2>2, <3>3
      <4> HIDE DEF s
      <4> QED
        BY <1>1, <2>2, <3>1, <4>1, <4>2, StartTypes DEF TypeInv
    <3> QED
      BY <2>1, <2>5, <3>2, <3>3
  <2> QED
    BY <2>4, <2>5
<1>13. ASSUME NEW o \in Ocb, NEW d \in Data, NEW inline \in 0..Len(d),
              \/ IoWrite(o, d, ocb[o].offset, TRUE, inline)
              \/ \E at \in 0..MaxLen : IoWrite(o, d, at, FALSE, inline)
       PROVE  TypeInv'
  <2>1. ocb[o].offset \in Nat /\ \A at \in 0..MaxLen : at \in Nat
    BY <1>1, PositionAssumption DEF OcbStates
  <2> QED
    BY <1>10, <1>13, <2>1
<1> QED
  BY <1>2, <1>3, <1>4, <1>5, <1>6, <1>8, <1>9, <1>11, <1>12, <1>13 DEF Next

\* Types at every step.
LEMMA TypeInvariant == Spec => []TypeInv
<1>1. Init => TypeInv
  BY StartTypes DEF Init, TypeInv
<1>2. TypeInv /\ [Next]_vars => TypeInv'
  BY TypeStep
<1> QED
  BY <1>1, <1>2, PTL DEF Spec

(* Every variable has its type, and a chunk loop that goes on has something *)
(* left to send and an open file to send it to.                            *)
THEOREM DataTypeCorrect == Spec => []TypeOK
<1>1. TypeInv => TypeOK
  BY DEF TypeInv, TypeOK, OcbStates, Locs
<1> QED
  BY <1>1, TypeInvariant, PTL

-----------------------------------------------------------------------------
(* Listings.                                                               *)

\* What an open, a close and an answer about bytes leave of a directory's
\* reader.
LEMMA ListStep ==
    ASSUME TypeInv, ListsOnceInOrder, [Next]_vars
    PROVE  ListsOnceInOrder'
<1>1. ocb \in [Ocb -> OcbStates] /\ loc.ocb \in Ocb
  BY DEF TypeInv, Locs
<1>2. \A o \in Ocb : ocb[o].kind = "dir" =>
         ocb[o].seen = [i \in 1..ocb[o].offset |-> i]
  BY DEF ListsOnceInOrder
<1>3. ASSUME NEW o \in Ocb, \A p \in Ocb : p # o => ocb'[p] = ocb[p],
             ocb'[o].kind = "dir" => ocb'[o].seen = [i \in 1..ocb'[o].offset |-> i]
      PROVE  ListsOnceInOrder'
  BY <1>2, <1>3 DEF ListsOnceInOrder
<1>4. CASE ocb' = ocb
  BY <1>4 DEF ListsOnceInOrder
<1>5. ASSUME NEW o \in Ocb, NEW how \in Opens, ConnectOpen(o, how)
      PROVE  ListsOnceInOrder'
  BY <1>1, <1>3, <1>5 DEF ConnectOpen, Closed
<1>6. ASSUME NEW o \in Ocb, ConnectOpenDir(o) PROVE ListsOnceInOrder'
  <2>1. /\ \A p \in Ocb : p # o => ocb'[p] = ocb[p]
        /\ ocb'[o].offset = 0 /\ ocb'[o].seen = << >>
    BY <1>1, <1>6 DEF ConnectOpenDir, Closed
  <2>2. << >> = [i \in 1..0 |-> i]
    OBVIOUS
  <2> QED
    BY <1>3, <2>1, <2>2
<1>7. ASSUME NEW o \in Ocb, IoCloseOcb(o) PROVE ListsOnceInOrder'
  BY <1>1, <1>3, <1>7 DEF IoCloseOcb, Closed
<1>8. ASSUME NEW o \in Ocb, NEW n \in Sizes, IoRead(o, n)
      PROVE  ListsOnceInOrder'
  <2>1. CASE ReadFailed(o)
    BY <1>4, <2>1 DEF ReadFailed
  <2>2. ASSUME NEW k, Got(o, n, k), ocb[o].kind = "file"
        PROVE  ListsOnceInOrder'
    <3>1. ocb' = [ocb EXCEPT ![o].offset = ocb[o].offset + k]
      BY <2>2 DEF Got
    <3>2. ocb'[o].kind = "file" /\ \A p \in Ocb : p # o => ocb'[p] = ocb[p]
      BY <1>1, <2>2, <3>1 DEF OcbStates
    <3> QED
      BY <1>3, <3>2
  <2> QED
    BY <1>8, <2>1, <2>2 DEF IoRead, ServerReads
<1>9. ASSUME NEW o \in Ocb, NEW n \in DirSizes, IoReadDir(o, n)
      PROVE  ListsOnceInOrder'
  <2>1. ocb[o].kind = "dir" /\ ocb[o].offset \in Nat /\ Len(NameLen) \in Nat
    BY <1>1, <1>9, ListingAssumption DEF IoReadDir, Begin, TypeInv, OcbStates
  <2>2. CASE ocb' # ocb
    <3>1. PICK sent \in ocb[o].offset..Len(NameLen) :
            \E kept \in ocb[o].offset..sent : ocb' = Keep(o, kept, sent)
      BY <1>9, <2>2 DEF IoReadDir
    <3>2. PICK kept \in ocb[o].offset..sent : ocb' = Keep(o, kept, sent)
      BY <3>1
    <3> DEFINE from == ocb[o].offset
               more == [i \in 1..kept - from |-> from + i]
               old == [i \in 1..from |-> i]
               new == [i \in 1..kept |-> i]
    <3>3. /\ \A p \in Ocb : p # o => ocb'[p] = ocb[p]
          /\ ocb'[o].offset = kept /\ ocb'[o].seen = ocb[o].seen \o more
      BY <1>1, <3>2 DEF Keep, OcbStates
    <3>4. kept \in Nat /\ kept - from \in Nat /\ from \in Nat
      BY <2>1, <3>1, <3>2
    <3> HIDE DEF from
    <3>5. old \in Seq(Nat) /\ Len(old) = from /\ \A i \in 1..from : old[i] = i
      BY <3>4
    <3>6. /\ more \in Seq(Nat) /\ Len(more) = kept - from
          /\ \A i \in 1..kept - from : more[i] = from + i
      <4>1. \A i \in 1..kept - from : from + i \in Nat
        BY <3>4
      <4> QED
        BY <3>4, <4>1
    <3>7. new \in Seq(Nat) /\ Len(new) = kept /\ \A i \in 1..kept : new[i] = i
      BY <3>4
    <3> HIDE DEF more, old, new
    <3>8. old \o more \in Seq(Nat) /\ Len(old \o more) = kept
      <4>1. from + (kept - from) = kept
        BY <3>4
      <4>2. old \o more \in Seq(Nat) /\ Len(old \o more) = Len(old) + Len(more)
        BY <3>5, <3>6, Joined
      <4> QED
        BY <3>5, <3>6, <4>1, <4>2
    <3>9. ASSUME NEW i \in 1..kept PROVE (old \o more)[i] = new[i]
      <4>1. CASE i <= from
        BY <3>4, <3>5, <3>6, <3>7, <4>1
      <4>2. CASE i > from
        <5>1. (old \o more)[i] = more[i - from] /\ i - from \in 1..kept - from
          BY <3>4, <3>5, <3>6, <4>2
        <5> QED
          BY <3>4, <3>6, <3>7, <4>2, <5>1
      <4>3. i <= from \/ i > from
        BY <3>4
      <4> QED
        BY <4>1, <4>2, <4>3
    <3>10. old \o more = new
      BY <3>7, <3>8, <3>9, SameSeq
    <3>11. ocb[o].seen = old
      BY <1>2, <2>1 DEF old, from
    <3>12. ocb'[o].seen = [i \in 1..ocb'[o].offset |-> i]
      BY <3>3, <3>10, <3>11 DEF new
    <3> QED
      BY <1>3, <3>3, <3>12
  <2> QED
    BY <1>4, <2>2
<1>10. ASSUME NEW o \in Ocb, IoReadRefused(o) \/ IoWriteRefused(o)
       PROVE  ListsOnceInOrder'
  BY <1>4, <1>10 DEF IoReadRefused, IoWriteRefused
<1>11. ASSUME NEW o \in Ocb, NEW d, NEW at, NEW m \in BOOLEAN, NEW inline,
              IoWrite(o, d, at, m, inline)
       PROVE  ListsOnceInOrder'
  BY <1>4, <1>11 DEF IoWrite
<1>12. CASE WriteFailed
  BY <1>4, <1>12 DEF WriteFailed
<1>13. CASE WriteChunk
  <2>1. ocb[loc.ocb].kind = "file"
    BY <1>13 DEF WriteChunk, ServerWrites
  <2>2. ocb' = ocb \/ \E j : ocb' = [ocb EXCEPT ![loc.ocb].offset = j]
    BY <1>13 DEF WriteChunk
  <2>3. ASSUME NEW j, ocb' = [ocb EXCEPT ![loc.ocb].offset = j]
        PROVE  ListsOnceInOrder'
    BY <1>1, <1>3, <2>1, <2>3 DEF OcbStates
  <2> QED
    BY <1>4, <2>2, <2>3
<1> QED
  BY <1>4, <1>5, <1>6, <1>7, <1>8, <1>9, <1>10, <1>11, <1>12, <1>13
     DEF Next, vars

(* A directory's reader is given every entry up to its offset once, in the *)
(* server's order, whatever was dropped for want of room and read again.   *)
THEOREM ListingsInOrder == Spec => []ListsOnceInOrder
<1>1. Init => ListsOnceInOrder
  BY DEF Init, ListsOnceInOrder, Closed
<1>2. TypeInv /\ ListsOnceInOrder /\ [Next]_vars => ListsOnceInOrder'
  BY ListStep
<1> QED
  BY <1>1, <1>2, TypeInvariant, PTL DEF Spec

\* An empty answer to a directory's reader is given where the next entry,
\* if there is one, does not fit.
LEMMA EmptyAnswer ==
    ASSUME TypeInv, NEW o \in Ocb, NEW n \in DirSizes, IoReadDir(o, n)
    PROVE  EndOfListingIsTheEnd'
<1> DEFINE from == ocb[o].offset
<1>1. from \in Nat /\ n \in Nat /\ Len(NameLen) \in Nat
  BY ListingAssumption, SizesAssumption DEF TypeInv, OcbStates
<1>2. CASE Answer("list", "EIO", o, 0, n, << >>)
  BY <1>2 DEF Answer, EndOfListingIsTheEnd
<1>3. CASE ~Answer("list", "EIO", o, 0, n, << >>)
  <2> DEFINE sendable == {e \in from..Len(NameLen) : WireRoom(from + 1, e) <= n}
  <2>1. PICK sent \in sendable :
          /\ sent = from => sendable = {from}
          /\ \E kept \in from..sent :
               /\ kept < sent => ~RecsFit(from, kept + 1, n)
               /\ ocb' = Keep(o, kept, sent)
               /\ Answer("list", "ok", o, 0, n,
                         [i \in 1..kept - from |-> from + i])
    BY <1>3 DEF IoReadDir
  <2>2. PICK kept \in from..sent :
          /\ kept < sent => ~RecsFit(from, kept + 1, n)
          /\ ocb' = Keep(o, kept, sent)
          /\ Answer("list", "ok", o, 0, n, [i \in 1..kept - from |-> from + i])
    BY <2>1
  <2>3. /\ ocb'[o].offset = kept /\ reply'.ocb = o /\ reply'.n = n
        /\ reply'.data = [i \in 1..kept - from |-> from + i]
    BY <2>2 DEF Keep, Answer, TypeInv, OcbStates
  <2>4. sent \in Nat /\ kept \in Nat
    BY <1>1, <2>1
  <2> SUFFICES ASSUME reply'.data = << >>, kept + 1 <= Len(NameLen)
               PROVE  Wire(kept + 1) > n \/ Rec(kept + 1) > n
    BY <2>3 DEF EndOfListingIsTheEnd
  <2>5. kept = from
    <3>1. CASE kept > from
      <4>1. 1 \in 1..kept - from /\ 1 \notin 1..0
        BY <1>1, <2>4, <3>1
      <4>2. DOMAIN reply'.data = 1..kept - from
        BY <2>3
      <4>3. DOMAIN reply'.data = 1..0
        OBVIOUS
      <4> QED
        BY <4>1, <4>2, <4>3
    <3> QED
      BY <1>1, <2>2, <2>4, <3>1
  <2>6. from + 1 \in Nat /\ NameLen[from + 1] \in Nat
    BY <1>1, <2>5, ListingAssumption
  <2>7. /\ WireRoom(from + 1, from + 1) = Wire(from + 1)
        /\ RecRoom(from + 1, from + 1) = Rec(from + 1)
        /\ Wire(from + 1) \in Nat /\ Rec(from + 1) \in Nat
    <3> HIDE DEF from
    <3> QED
      BY <2>6, SumOfOne
  <2>8. CASE sent = from
    <3>1. from + 1 \notin sendable
      BY <1>1, <2>1, <2>8
    <3>2. from + 1 \in from..Len(NameLen)
      BY <1>1, <2>5
    <3>3. ~(WireRoom(from + 1, from + 1) <= n)
      BY <3>1, <3>2
    <3> QED
      BY <1>1, <2>5, <2>7, <3>3
  <2>9. CASE sent > from
    <3>1. ~(RecRoom(from + 1, from + 1) <= n)
      BY <2>2, <2>5, <2>9 DEF RecsFit
    <3> QED
      BY <1>1, <2>5, <2>7, <3>1
  <2> QED
    BY <1>1, <2>1, <2>4, <2>8, <2>9
<1> QED
  BY <1>2, <1>3

(* An empty answer to a directory's reader means the end of the listing,   *)
(* unless the next entry has no room in the client's buffer.               *)
THEOREM EmptyMeansEnd == Spec => []EndOfListingIsTheEnd
<1>1. Init => EndOfListingIsTheEnd
  BY DEF Init, NoReply, EndOfListingIsTheEnd
<1>2. TypeInv /\ EndOfListingIsTheEnd /\ [Next]_vars => EndOfListingIsTheEnd'
  <2> SUFFICES ASSUME TypeInv, EndOfListingIsTheEnd, [Next]_vars
               PROVE  EndOfListingIsTheEnd'
    OBVIOUS
  <2>1. CASE ocb' = ocb /\ reply' = reply
    BY <2>1 DEF EndOfListingIsTheEnd
  <2>2. CASE reply'.op # "list"
    BY <2>2 DEF EndOfListingIsTheEnd
  <2>3. ASSUME NEW o \in Ocb,
               \/ \E how \in Opens : ConnectOpen(o, how)
               \/ ConnectOpenDir(o) \/ IoCloseOcb(o)
               \/ IoReadRefused(o) \/ IoWriteRefused(o)
               \/ \E n \in Sizes : IoRead(o, n)
        PROVE  EndOfListingIsTheEnd'
    <3>1. CASE reply' = NoReply
      BY <2>2, <3>1 DEF NoReply
    <3>2. ASSUME NEW op, NEW rc, NEW at, NEW k, NEW data, op # "list",
                 Answer(op, rc, o, at, k, data)
          PROVE  EndOfListingIsTheEnd'
      BY <2>2, <3>2 DEF Answer
    <3>3. CASE IoReadRefused(o) \/ IoWriteRefused(o)
      BY <3>2, <3>3 DEF IoReadRefused, IoWriteRefused
    <3>4. ASSUME NEW n \in Sizes, IoRead(o, n) PROVE EndOfListingIsTheEnd'
      BY <3>2, <3>4 DEF IoRead, ReadFailed, ReadAnswer, Got
    <3> QED
      BY <2>3, <3>1, <3>3, <3>4 DEF ConnectOpen, ConnectOpenDir, IoCloseOcb
  <2>4. ASSUME NEW o \in Ocb, NEW d, NEW at, NEW m \in BOOLEAN, NEW inline,
               IoWrite(o, d, at, m, inline)
        PROVE  EndOfListingIsTheEnd'
    BY <2>1, <2>2, <2>4 DEF IoWrite, Answer
  <2>5. CASE WriteFailed \/ WriteChunk
    <3>1. UNCHANGED <<ocb, reply>> \/ \E rc, data : WriteReply(rc, data)
      BY <2>5 DEF WriteFailed, WriteChunk
    <3>2. ASSUME NEW rc, NEW data, WriteReply(rc, data)
          PROVE  reply'.op # "list"
      BY <3>2 DEF WriteReply, Answer
    <3> QED
      BY <2>1, <2>2, <3>1, <3>2
  <2> QED
    BY <2>1, <2>3, <2>4, <2>5, EmptyAnswer DEF Next, vars
<1> QED
  BY <1>1, <1>2, TypeInvariant, PTL DEF Spec

-----------------------------------------------------------------------------
(* Access modes.                                                           *)

\* The server has every file open in the mode its open asked for, and only
\* writes that iofunc let pass are under way.
AccessInv ==
    /\ \A o \in Ocb : ocb[o].kind = "file" =>
          ocb[o].mode = TranslateQnxToLinuxFlags(ocb[o].acc)
    /\ pc = "Write" => "wr" \in ocb[loc.ocb].acc
    /\ VerifyAgrees

\* A read or a write that iofunc let pass is one the server allows.
LEMMA ModesAgree ==
    ASSUME TypeInv, AccessInv, NEW o \in Ocb, ocb[o].kind = "file"
    PROVE  /\ "rd" \in ocb[o].acc => ServerReads(o)
           /\ "wr" \in ocb[o].acc => ServerWrites(o)
BY DEF AccessInv, TranslateQnxToLinuxFlags, ServerReads, ServerWrites

\* Every step keeps the two access modes together.
LEMMA AccessStep ==
    ASSUME TypeInv, AccessInv, [Next]_vars
    PROVE  AccessInv'
<1>1. /\ ocb \in [Ocb -> OcbStates] /\ loc.ocb \in Ocb
      /\ pc = "Write" => ocb[loc.ocb].kind = "file"
  BY DEF TypeInv, Locs
<1> DEFINE Modes == \A p \in Ocb : /\ ocb'[p].kind = ocb[p].kind
                                  /\ ocb'[p].mode = ocb[p].mode
                                  /\ ocb'[p].acc = ocb[p].acc
<1>2. ASSUME NEW o \in Ocb, NEW j, ocb' = [ocb EXCEPT ![o].offset = j]
      PROVE  Modes
  BY <1>1, <1>2 DEF OcbStates
<1>3. ASSUME pc' # "Write", VerifyAgrees', Modes PROVE AccessInv'
  BY <1>3 DEF AccessInv
<1>4. ASSUME NEW op, NEW rc, NEW o, NEW at, NEW n, NEW data,
             Answer(op, rc, o, at, n, data), rc # "server EBADF"
      PROVE  VerifyAgrees'
  BY <1>4 DEF Answer, VerifyAgrees
<1>5. CASE UNCHANGED <<ocb, pc, loc, reply>>
  BY <1>5 DEF AccessInv, VerifyAgrees
<1>6. ASSUME NEW o \in Ocb, NEW how \in Opens, ConnectOpen(o, how)
      PROVE  AccessInv'
  BY <1>1, <1>6
     DEF ConnectOpen, Begin, AccessInv, VerifyAgrees, NoReply, Closed
<1>7. ASSUME NEW o \in Ocb, NEW s, s.kind # "file", pc' # "Write",
             ocb' = [ocb EXCEPT ![o] = s], reply' = NoReply
      PROVE  AccessInv'
  <2>1. VerifyAgrees'
    BY <1>7 DEF VerifyAgrees, NoReply
  <2>2. ocb'[o].kind # "file" /\ \A p \in Ocb : p # o => ocb'[p] = ocb[p]
    BY <1>1, <1>7
  <2> QED
    BY <1>7, <2>1, <2>2 DEF AccessInv
<1>8. ASSUME NEW o \in Ocb, ConnectOpenDir(o) PROVE AccessInv'
  <2>1. PICK gotAttr \in BOOLEAN :
           ocb' = [ocb EXCEPT ![o] = [Closed EXCEPT !.kind = "dir",
                                           !.isDir = gotAttr, !.acc = {"rd"}]]
    BY <1>8 DEF ConnectOpenDir
  <2>2. [Closed EXCEPT !.kind = "dir", !.isDir = gotAttr,
                       !.acc = {"rd"}].kind = "dir"
    BY DEF Closed
  <2>3. pc' # "Write" /\ reply' = NoReply
    BY <1>8 DEF ConnectOpenDir, Begin
  <2> QED
    BY <1>7, <2>1, <2>2, <2>3
<1>9. ASSUME NEW o \in Ocb, IoCloseOcb(o) PROVE AccessInv'
  BY <1>7, <1>9, StartTypes DEF IoCloseOcb, Begin
<1>10. ASSUME NEW o \in Ocb, IoReadRefused(o) \/ IoWriteRefused(o)
      PROVE  AccessInv'
  <2>1. pc' # "Write" /\ ocb' = ocb
    BY <1>10 DEF IoReadRefused, IoWriteRefused, Begin
  <2>2. VerifyAgrees'
    BY <1>4, <1>10 DEF IoReadRefused, IoWriteRefused
  <2> QED
    BY <1>3, <2>1, <2>2
<1>11. ASSUME NEW o \in Ocb, NEW n \in Sizes, IoRead(o, n) PROVE AccessInv'
  <2>1. pc' # "Write" /\ "rd" \in ocb[o].acc /\ ocb[o].kind \in {"file", "dir"}
    BY <1>11 DEF IoRead, Begin, ReadVerified
  <2>2. CASE ReadFailed(o)
    <3>1. PICK rc \in Errors(ServerReads(o)) :
             ReadAnswer(o, rc, << >>) /\ ocb' = ocb
      BY <2>2 DEF ReadFailed
    <3>2. CASE ocb[o].kind = "file"
      <4>1. rc # "server EBADF"
        BY <2>1, <3>1, <3>2, ModesAgree DEF Errors
      <4> QED
        BY <1>3, <1>4, <2>1, <3>1, <4>1 DEF ReadAnswer
    <3>3. CASE ocb[o].kind = "dir"
      <4>1. VerifyAgrees'
        BY <3>1, <3>3 DEF ReadAnswer, Answer, VerifyAgrees
      <4> QED
        BY <1>3, <2>1, <3>1, <4>1
    <3> QED
      BY <2>1, <3>2, <3>3
  <2>3. ASSUME NEW k, Got(o, n, k) PROVE AccessInv'
    <3>1. Modes
      BY <1>2, <2>3 DEF Got
    <3>2. VerifyAgrees'
      BY <1>4, <2>3 DEF Got, ReadAnswer
    <3> QED
      BY <1>3, <2>1, <3>1, <3>2
  <2> QED
    BY <1>11, <2>2, <2>3 DEF IoRead
<1>12. ASSUME NEW o \in Ocb, NEW n \in DirSizes, IoReadDir(o, n)
       PROVE  AccessInv'
  <2>1. pc' # "Write"
    BY <1>12 DEF IoReadDir, Begin
  <2>2. VerifyAgrees'
    BY <1>4, <1>12 DEF IoReadDir
  <2>3. ASSUME NEW kept, NEW sent, ocb' = Keep(o, kept, sent) PROVE Modes
    BY <1>1, <2>3 DEF Keep, OcbStates
  <2> QED
    BY <1>3, <1>12, <2>1, <2>2, <2>3 DEF IoReadDir
<1>13. ASSUME NEW o \in Ocb, NEW d, NEW at, NEW m \in BOOLEAN, NEW inline,
              IoWrite(o, d, at, m, inline)
       PROVE  AccessInv'
  <2>1. "wr" \in ocb[o].acc /\ ocb' = ocb /\ pc = "idle"
    BY <1>13 DEF IoWrite, Begin, WriteVerified
  <2>2. CASE d = << >>
    <3>1. pc' = pc /\ Answer("write", "ok", o, at, 0, << >>)
      BY <1>13, <2>2 DEF IoWrite
    <3> QED
      BY <1>3, <1>4, <2>1, <3>1
  <2>3. CASE d # << >>
    <3>1. reply' = reply /\ loc'.ocb = o
      BY <1>13, <2>3 DEF IoWrite
    <3> QED
      BY <2>1, <3>1 DEF AccessInv, VerifyAgrees
  <2> QED
    BY <2>2, <2>3
<1>14. CASE WriteFailed
  <2>1. PICK rc \in Errors(ServerWrites(loc.ocb)) : WriteReply(rc, loc.data)
    BY <1>14 DEF WriteFailed
  <2>2. pc = "Write" /\ ocb' = ocb /\ pc' = "idle"
    BY <1>14, <2>1 DEF WriteFailed, WriteReply
  <2>3. rc # "server EBADF"
    BY <1>1, <2>1, <2>2, ModesAgree DEF AccessInv, Errors
  <2>4. VerifyAgrees'
    BY <1>4, <2>1, <2>3 DEF WriteReply
  <2> QED
    BY <1>3, <2>2, <2>4
<1>15. CASE WriteChunk
  <2>1. CASE UNCHANGED <<ocb, pc, reply>> /\ loc'.ocb = loc.ocb
    BY <2>1 DEF AccessInv, VerifyAgrees
  <2>2. ASSUME NEW data, WriteReply("ok", data), ocb' = ocb \/ Modes
        PROVE  AccessInv'
    <3>1. pc' # "Write" /\ VerifyAgrees'
      BY <1>4, <2>2 DEF WriteReply
    <3> QED
      BY <1>3, <2>2, <3>1
  <2>3. PICK k \in 0..Len(Chunk) :
          IF MoreToWrite(k)
          THEN /\ loc' = [loc EXCEPT !.total = @ + k, !.turn = ~@]
               /\ UNCHANGED <<ocb, pc, reply>>
          ELSE /\ WriteReply("ok", SubSeq(loc.data, 1, loc.total + k))
               /\ ocb' = IF loc.moves
                         THEN [ocb EXCEPT ![loc.ocb].offset = @ + loc.total + k]
                         ELSE ocb
    BY <1>15 DEF WriteChunk
  <2>4. CASE MoreToWrite(k)
    <3>1. loc'.ocb = loc.ocb
      BY <2>3, <2>4 DEF TypeInv, Locs
    <3> QED
      BY <2>1, <2>3, <2>4, <3>1
  <2>5. CASE ~MoreToWrite(k)
    <3>1. \/ ocb' = ocb
          \/ ocb' = [ocb EXCEPT ![loc.ocb].offset =
                                   ocb[loc.ocb].offset + loc.total + k]
      BY <2>3, <2>5
    <3>2. ocb' = ocb \/ Modes
      BY <1>1, <1>2, <3>1
    <3> HIDE DEF Modes
    <3> QED
      BY <2>2, <2>3, <2>5, <3>2
  <2> QED
    BY <2>4, <2>5
<1>16. ASSUME NEW o \in Ocb, NEW d \in Data, NEW inline \in 0..Len(d),
              \/ IoWrite(o, d, ocb[o].offset, TRUE, inline)
              \/ \E at \in 0..MaxLen : IoWrite(o, d, at, FALSE, inline)
       PROVE  AccessInv'
  BY <1>13, <1>16
<1> QED
  BY <1>5, <1>6, <1>8, <1>9, <1>10, <1>11, <1>12, <1>14, <1>15, <1>16
     DEF Next, vars

\* Access modes at every step.
LEMMA AccessInvariant == Spec => []AccessInv
<1>1. Init => AccessInv
  BY DEF Init, AccessInv, VerifyAgrees, NoReply, Closed
<1>2. TypeInv /\ AccessInv /\ [Next]_vars => AccessInv'
  BY AccessStep
<1> QED
  BY <1>1, <1>2, TypeInvariant, PTL DEF Spec

(* An access that the local check let pass is never refused by the server  *)
(* for the mode the file was opened in.                                    *)
THEOREM AccessModesAgree == Spec => []VerifyAgrees
<1>1. AccessInv => VerifyAgrees
  BY DEF AccessInv
<1> QED
  BY <1>1, AccessInvariant, PTL

-----------------------------------------------------------------------------
(* The handlers implement the file of ByteFile.tla.                        *)

\* Where the write under way began to store, and what it has stored: the
\* beginning of the client's data that total counts, in one piece, in the
\* file as it was.
Begins == IF ocb[loc.ocb].append THEN Len(loc.before) ELSE loc.start
WriteInv ==
    pc = "Write" =>
        /\ loc.data \in Data
        /\ loc.start \in {ocb[loc.ocb].offset} \cup 0..MaxLen
        /\ loc.moves => loc.start = ocb[loc.ocb].offset
        /\ file = Store(loc.before, Begins, SubSeq(loc.data, 1, loc.total))

\* The next chunk is stored right behind the last one, at the end of the
\* file for an append.
LEMMA ChunkContinues ==
    ASSUME TypeInv, WriteInv, pc = "Write", NEW k \in 0..Len(Chunk)
    PROVE  Store(file, ChunkPlace, SubSeq(Chunk, 1, k)) =
             Store(loc.before, Begins, SubSeq(loc.data, 1, loc.total + k))
<1> DEFINE b == loc.before
           d == SubSeq(loc.data, 1, loc.total)
           e == SubSeq(Chunk, 1, k)
<1>1. /\ b \in Seq(ByteSet) /\ Begins \in Nat /\ Len(b) \in Nat
      /\ loc.total \in Nat /\ loc.start \in Nat
      /\ loc.data \in Seq(ByteSet) /\ loc.total <= Len(loc.data)
  BY DEF TypeInv, Locs, Contents, Begins
<1>2. e \in Seq(ByteSet) /\ Len(d) = loc.total
      /\ d \o e = SubSeq(loc.data, 1, loc.total + k)
  BY ChunkIsNext DEF Contents
<1>3. d \in Seq(ByteSet)
  BY <1>1
<1>4. file = Store(b, Begins, d)
  BY DEF WriteInv
<1> HIDE DEF b, d, e
<1>5. ChunkPlace = Begins + Len(d)
  <2>1. CASE ~ocb[loc.ocb].append
    BY <1>2, <2>1 DEF ChunkPlace, Begins
  <2>2. CASE ocb[loc.ocb].append
    <3>1. ChunkPlace = Len(file) /\ Begins = Len(b)
      BY <2>2 DEF ChunkPlace, Begins, b
    <3>2. CASE d = << >>
      BY <1>1, <1>2, <1>4, <3>1, <3>2 DEF Store
    <3>3. CASE d # << >>
      <4>1. Len(file) = LargerOf(Len(b), Begins + Len(d))
        BY <1>1, <1>3, <1>4, <3>3, StoreType, StartTypes
      <4> QED
        BY <1>1, <1>2, <3>1, <4>1 DEF LargerOf
    <3> QED
      BY <3>2, <3>3
  <2> QED
    BY <2>1, <2>2
<1>6. Store(Store(b, Begins, d), Begins + Len(d), e) = Store(b, Begins, d \o e)
  <2>1. b \in Contents /\ d \in Contents /\ e \in Contents /\ Begins \in Nat
    BY <1>1, <1>2, <1>3 DEF Contents
  <2> QED
    BY <2>1, StoreStore
<1> QED
  BY <1>2, <1>4, <1>5, <1>6 DEF b, e

\* Every step keeps the account of the write under way.
LEMMA WriteStep ==
    ASSUME TypeInv, WriteInv, [Next]_vars
    PROVE  WriteInv'
<1>1. CASE pc' # "Write"
  BY <1>1 DEF WriteInv
<1>2. CASE UNCHANGED vars
  BY <1>2 DEF vars, WriteInv, Begins
<1>3. ASSUME NEW o \in Ocb, NEW d \in Data, NEW m \in BOOLEAN, NEW inline,
             NEW at \in {ocb[o].offset} \cup 0..MaxLen, IoWrite(o, d, at, m, inline)
      PROVE  WriteInv'
  <2>1. ocb' = ocb /\ file' = file /\ pc = "idle" /\ (m => at = ocb[o].offset)
    BY <1>3 DEF IoWrite, Begin
  <2>2. CASE d # << >>
    <3>1. loc'.ocb = o /\ loc'.data = d
          /\ loc'.start = at /\ loc'.moves = m /\ loc'.total = 0
          /\ loc'.before = file
      BY <1>3, <2>2 DEF IoWrite
    <3>2. SubSeq(d, 1, 0) = << >>
      BY DataAssumption DEF Contents
    <3> QED
      BY <2>1, <3>1, <3>2 DEF WriteInv, Store
  <2>3. CASE d = << >>
    BY <1>1, <1>3, <2>1, <2>3 DEF IoWrite
  <2> QED
    BY <2>2, <2>3
<1>4. CASE WriteChunk /\ pc' = "Write"
  <2>1. PICK k \in 0..Len(Chunk) :
          /\ file' = Store(file, ChunkPlace, SubSeq(Chunk, 1, k))
          /\ loc' = [loc EXCEPT !.total = @ + k, !.turn = ~@]
          /\ ocb' = ocb
    BY <1>4 DEF WriteChunk, WriteReply
  <2>2. /\ loc'.total = loc.total + k /\ loc'.ocb = loc.ocb
        /\ loc'.data = loc.data /\ loc'.start = loc.start
        /\ loc'.moves = loc.moves /\ loc'.before = loc.before
    BY <2>1 DEF TypeInv, Locs
  <2>3. pc = "Write"
    BY <1>4 DEF WriteChunk
  <2>4. file' = Store(loc.before, Begins, SubSeq(loc.data, 1, loc.total + k))
    BY <2>1, <2>3, ChunkContinues
  <2> QED
    BY <2>1, <2>2, <2>3, <2>4 DEF WriteInv, Begins
<1>5. ASSUME NEW o \in Ocb,
             \/ \E how \in Opens : ConnectOpen(o, how)
             \/ ConnectOpenDir(o) \/ IoCloseOcb(o)
             \/ IoReadRefused(o) \/ IoWriteRefused(o)
             \/ \E n \in Sizes : IoRead(o, n)
             \/ \E n \in DirSizes : IoReadDir(o, n)
      PROVE  WriteInv'
  <2>1. pc' # "Write"
    BY <1>5 DEF ConnectOpen, ConnectOpenDir, IoCloseOcb, IoReadRefused,
                IoWriteRefused, IoRead, IoReadDir, Begin
  <2> QED
    BY <1>1, <2>1
<1>6. ASSUME NEW o \in Ocb, NEW d \in Data, NEW inline \in 0..Len(d),
             \/ IoWrite(o, d, ocb[o].offset, TRUE, inline)
             \/ \E at \in 0..MaxLen : IoWrite(o, d, at, FALSE, inline)
      PROVE  WriteInv'
  BY <1>3, <1>6
<1>7. CASE WriteFailed
  BY <1>1, <1>7 DEF WriteFailed, WriteReply
<1> QED
  BY <1>1, <1>2, <1>4, <1>5, <1>6, <1>7 DEF Next

\* The account of the write under way, at every step.
LEMMA WriteInvariant == Spec => []WriteInv
<1>1. Init => WriteInv
  BY DEF Init, WriteInv
<1>2. TypeInv /\ WriteInv /\ [Next]_vars => WriteInv'
  BY WriteStep
<1> QED
  BY <1>1, <1>2, TypeInvariant, PTL DEF Spec

\* What a program sees: the file as it was before the write under way, the
\* open files, and the last answer to a read or a write of the file.
SeenFile  == IF pc = "Write" THEN loc.before ELSE file
SeenAs(s) == IF s.kind = "file"
             THEN [open |-> TRUE, acc |-> s.acc, append |-> s.append,
                   pos |-> s.offset]
             ELSE [open |-> FALSE, acc |-> {}, append |-> FALSE, pos |-> 0]
SeenDesc  == [o \in Ocb |-> SeenAs(ocb[o])]
NoneSeen  == [op |-> "none", rc |-> "ok", at |-> 0, data |-> << >>]
SeenReply == IF reply.op \in {"read", "write"} /\ ocb[reply.ocb].kind = "file"
             THEN [op |-> reply.op, at |-> reply.at, data |-> reply.data,
                   rc |-> IF reply.rc = "ok" THEN "ok" ELSE "error"]
             ELSE NoneSeen

\* The variables of the file are these, and bytes are stored alike in both.
LEMMA SameVars ==
    /\ Promised!vars = <<SeenFile, SeenDesc, SeenReply>>
    /\ \A c, at, d : Promised!Store(c, at, d) = Store(c, at, d)
    /\ Promised!NoAnswer = NoneSeen
    /\ Promised!NotOpen = [open |-> FALSE, acc |-> {}, append |-> FALSE, pos |-> 0]
<1>1. Promised!vars = <<SeenFile, SeenDesc, SeenReply>>
  BY DEF Promised!vars, SeenFile, SeenDesc, SeenAs, SeenReply, NoneSeen
<1>2. \A c, at, d : Promised!Store(c, at, d) = Store(c, at, d)
  BY DEF Promised!Store, Store, Promised!LargerOf, LargerOf
<1> QED
  BY <1>1, <1>2 DEF Promised!NoAnswer, NoneSeen, Promised!NotOpen

\* A step that no program sees.
LEMMA SeesNothing ==
    ASSUME UNCHANGED <<SeenFile, SeenDesc, SeenReply>>
    PROVE  UNCHANGED Promised!vars
BY SameVars DEF Promised!vars, SeenFile, SeenDesc, SeenAs, SeenReply, NoneSeen

\* An answer that is about no byte of the file.
LEMMA SeesOther ==
    ASSUME SeenFile' = SeenFile, SeenDesc' = SeenDesc, SeenReply' = NoneSeen
    PROVE  Promised!Next
<1>1. Promised!Other
  BY DEF Promised!Other, Promised!NoAnswer, SeenFile, SeenDesc, SeenAs,
         SeenReply, NoneSeen
<1> QED
  BY <1>1 DEF Promised!Next

\* An open of the file.
LEMMA SeesOpen ==
    ASSUME NEW o \in Ocb, ~SeenDesc[o].open, SeenFile' \in {SeenFile, << >>},
           NEW acc \in SUBSET {"rd", "wr"}, NEW append \in BOOLEAN,
           SeenDesc' = [SeenDesc EXCEPT ![o] =
                          [open |-> TRUE, acc |-> acc, append |-> append,
                           pos |-> 0]],
           SeenReply' = NoneSeen
    PROVE  Promised!Next
<1>1. Promised!Open(o)
  BY DEF Promised!Open, Promised!Modes, Promised!NoAnswer, SeenFile, SeenDesc,
         SeenAs, SeenReply, NoneSeen
<1> QED
  BY <1>1 DEF Promised!Next

\* A close of the file.
LEMMA SeesClose ==
    ASSUME NEW o \in Ocb, SeenDesc[o].open, SeenFile' = SeenFile,
           SeenDesc' = [SeenDesc EXCEPT ![o] =
                          [open |-> FALSE, acc |-> {}, append |-> FALSE,
                           pos |-> 0]],
           SeenReply' = NoneSeen
    PROVE  Promised!Next
<1>1. Promised!Close(o)
  BY DEF Promised!Close, Promised!NotOpen, Promised!NoAnswer, SeenFile,
         SeenDesc, SeenAs, SeenReply, NoneSeen
<1> QED
  BY <1>1 DEF Promised!Next

\* A read that fails, and one that gives k bytes.
LEMMA SeesRead ==
    ASSUME NEW o \in Ocb, SeenDesc[o].open, "rd" \in SeenDesc[o].acc,
           SeenFile' = SeenFile,
           \/ /\ SeenDesc' = SeenDesc
              /\ SeenReply' = [op |-> "read", rc |-> "error",
                               at |-> SeenDesc[o].pos, data |-> << >>]
           \/ \E k \in 0..Len(SeenFile) :
                /\ IF k = 0 THEN SeenDesc[o].pos >= Len(SeenFile)
                            ELSE SeenDesc[o].pos + k <= Len(SeenFile)
                /\ SeenReply' = [op |-> "read", rc |-> "ok",
                                 at |-> SeenDesc[o].pos,
                                 data |-> SubSeq(SeenFile, SeenDesc[o].pos + 1,
                                                 SeenDesc[o].pos + k)]
                /\ SeenDesc' = [SeenDesc EXCEPT ![o].pos = @ + k]
    PROVE  Promised!Next
<1>1. Promised!Read(o)
  BY DEF Promised!Read, Promised!Fail, SeenFile, SeenDesc, SeenAs, SeenReply,
         NoneSeen
<1> QED
  BY <1>1 DEF Promised!Next

\* A write that fails after it stored k bytes, and one that says so.
LEMMA SeesWrite ==
    ASSUME NEW o \in Ocb, NEW d \in Data, NEW moves \in BOOLEAN,
           NEW at \in {SeenDesc[o].pos} \cup 0..MaxLen, NEW k \in 0..Len(d),
           SeenDesc[o].open, "wr" \in SeenDesc[o].acc,
           moves => at = SeenDesc[o].pos,
           SeenFile' = Store(SeenFile, IF SeenDesc[o].append
                                       THEN Len(SeenFile) ELSE at,
                             SubSeq(d, 1, k)),
           \/ /\ SeenDesc' = SeenDesc
              /\ SeenReply' = [op |-> "write", rc |-> "error", at |-> at,
                               data |-> d]
           \/ /\ SeenReply' = [op |-> "write", rc |-> "ok", at |-> at,
                               data |-> SubSeq(d, 1, k)]
              /\ SeenDesc' = IF moves THEN [SeenDesc EXCEPT ![o].pos = @ + k]
                             ELSE SeenDesc
    PROVE  Promised!Next
<1>1. Promised!Write(o, d, at, moves)
  BY SameVars
     DEF Promised!Write, Promised!Fail, Promised!Place, SeenFile, SeenDesc,
         SeenAs, SeenReply, NoneSeen
<1>2. at \in {[p \in Ocb |-> IF ocb[p].kind = "file"
                 THEN [open |-> TRUE, acc |-> ocb[p].acc,
                       append |-> ocb[p].append, pos |-> ocb[p].offset]
                 ELSE [open |-> FALSE, acc |-> {}, append |-> FALSE,
                       pos |-> 0]][o].pos} \cup 0..MaxLen
  BY DEF SeenDesc, SeenAs
<1> QED
  BY <1>1, <1>2 DEF Promised!Next

\* What becomes of the descriptions when one open file changes.
LEMMA SeenBecomes ==
    ASSUME TypeInv, NEW o \in Ocb, NEW s, ocb' = [ocb EXCEPT ![o] = s]
    PROVE  SeenDesc' = [SeenDesc EXCEPT ![o] = SeenAs(s)]
BY DEF TypeInv, SeenDesc, SeenAs

\* What becomes of them when its offset moves.
LEMMA SeenMoves ==
    ASSUME TypeInv, NEW o \in Ocb, ocb[o].kind = "file", NEW j \in Nat,
           ocb' = [ocb EXCEPT ![o].offset = j]
    PROVE  SeenDesc' = [SeenDesc EXCEPT ![o].pos = j]
<1> DEFINE s == [ocb[o] EXCEPT !.offset = j]
<1>1. ocb' = [ocb EXCEPT ![o] = s]
  OBVIOUS
<1>2. ocb[o] \in OcbStates
  BY DEF TypeInv
<1>3. /\ s.kind = "file" /\ s.acc = ocb[o].acc /\ s.append = ocb[o].append
      /\ s.offset = j
  BY <1>2 DEF OcbStates
<1> HIDE DEF s
<1>4. SeenAs(s) = [SeenDesc[o] EXCEPT !.pos = j]
  <2> DEFINE t == TRUE
  <2>1. SeenDesc[o] = [open |-> t, acc |-> ocb[o].acc,
                       append |-> ocb[o].append, pos |-> ocb[o].offset]
    BY DEF SeenAs, SeenDesc
  <2>2. SeenAs(s) = [open |-> t, acc |-> ocb[o].acc,
                     append |-> ocb[o].append, pos |-> j]
    BY <1>3 DEF SeenAs
  <2> HIDE DEF t
  <2> QED
    BY <2>1, <2>2
<1>5. SeenDesc' = [SeenDesc EXCEPT ![o] = SeenAs(s)]
  BY <1>1, SeenBecomes
<1> QED
  BY <1>4, <1>5

\* No open file changed in what programs see of it.
LEMMA SeenStays ==
    ASSUME \A p \in Ocb : SeenAs(ocb'[p]) = SeenAs(ocb[p])
    PROVE  SeenDesc' = SeenDesc
BY DEF SeenDesc, SeenAs

\* The description of an open file.
LEMMA SeenOf ==
    ASSUME NEW o \in Ocb, ocb[o].kind = "file"
    PROVE  /\ SeenDesc[o].open /\ SeenDesc[o].acc = ocb[o].acc
           /\ SeenDesc[o].append = ocb[o].append
           /\ SeenDesc[o].pos = ocb[o].offset
BY DEF SeenDesc, SeenAs

\* An answer to a read or a write of the file, and any other answer.
LEMMA SeenAnswer ==
    ASSUME NEW op, NEW rc, NEW o \in Ocb, NEW at, NEW n, NEW data,
           Answer(op, rc, o, at, n, data)
    PROVE  /\ op \in {"read", "write"} /\ ocb'[o].kind = "file" =>
                SeenReply' = [op |-> op, at |-> at, data |-> data,
                              rc |-> IF rc = "ok" THEN "ok" ELSE "error"]
           /\ op \notin {"read", "write"} \/ ocb'[o].kind # "file" =>
                SeenReply' = NoneSeen
BY DEF Answer, SeenReply, NoneSeen

\* Opens and closes.
LEMMA SeenOpens ==
    ASSUME TypeInv, NEW o \in Ocb,
           \/ \E how \in Opens : ConnectOpen(o, how)
           \/ ConnectOpenDir(o) \/ IoCloseOcb(o)
    PROVE  Promised!Next
<1>1. /\ pc = "idle" /\ pc' = "idle" /\ reply' = NoReply
  BY DEF ConnectOpen, ConnectOpenDir, IoCloseOcb, Begin
<1>2. SeenReply' = NoneSeen
  BY <1>1 DEF SeenReply, NoneSeen, NoReply
<1>3. ASSUME NEW how \in Opens, ConnectOpen(o, how) PROVE Promised!Next
  <2>1. how.acc \in SUBSET {"rd", "wr"} /\ how.append \in BOOLEAN
    BY OpensAssumption
  <2>2. ~SeenDesc[o].open
    BY <1>3 DEF ConnectOpen, Begin, SeenDesc, SeenAs
  <2>3. SeenFile' \in {SeenFile, << >>}
    BY <1>1, <1>3 DEF ConnectOpen, SeenFile
  <2> DEFINE s == [Closed EXCEPT !.kind = "file", !.acc = how.acc,
                                 !.mode = TranslateQnxToLinuxFlags(how.acc),
                                 !.append = how.append, !.iounit = how.iounit]
  <2>4. ocb' = [ocb EXCEPT ![o] = s]
    BY <1>3 DEF ConnectOpen
  <2>5. SeenAs(s) = [open |-> TRUE, acc |-> how.acc, append |-> how.append,
                     pos |-> 0]
    BY DEF SeenAs, Closed
  <2> HIDE DEF s
  <2>6. SeenDesc' = [SeenDesc EXCEPT ![o] =
                       [open |-> TRUE, acc |-> how.acc, append |-> how.append,
                        pos |-> 0]]
    BY <2>4, <2>5, SeenBecomes
  <2> QED
    BY <1>2, <2>1, <2>2, <2>3, <2>6, SeesOpen
<1>4. CASE ConnectOpenDir(o)
  <2>1. PICK gotAttr \in BOOLEAN :
           ocb' = [ocb EXCEPT ![o] = [Closed EXCEPT !.kind = "dir",
                                           !.isDir = gotAttr, !.acc = {"rd"}]]
    BY <1>4 DEF ConnectOpenDir
  <2> DEFINE s == [Closed EXCEPT !.kind = "dir", !.isDir = gotAttr,
                                 !.acc = {"rd"}]
  <2>2. s.kind = "dir"
    BY DEF Closed
  <2>3. ocb' = [ocb EXCEPT ![o] = s] /\ ocb[o].kind = "closed" /\ file' = file
    BY <1>4, <2>1 DEF ConnectOpenDir, Begin
  <2> HIDE DEF s
  <2>4. \A p \in Ocb : SeenAs(ocb'[p]) = SeenAs(ocb[p])
    BY <2>2, <2>3 DEF SeenAs, TypeInv
  <2>5. SeenDesc' = SeenDesc /\ SeenFile' = SeenFile
    BY <1>1, <2>3, <2>4, SeenStays DEF SeenFile
  <2> QED
    BY <1>2, <2>5, SeesOther
<1>5. CASE IoCloseOcb(o)
  <2>1. ocb' = [ocb EXCEPT ![o] = Closed] /\ file' = file
        /\ ocb[o].kind \in {"file", "dir"}
    BY <1>5 DEF IoCloseOcb, Begin
  <2>2. SeenFile' = SeenFile
    BY <1>1, <2>1 DEF SeenFile
  <2>3. SeenAs(Closed) = [open |-> FALSE, acc |-> {}, append |-> FALSE, pos |-> 0]
    BY DEF SeenAs, Closed
  <2>4. CASE ocb[o].kind = "file"
    <3>1. SeenDesc' = [SeenDesc EXCEPT ![o] =
                         [open |-> FALSE, acc |-> {}, append |-> FALSE,
                          pos |-> 0]]
      BY <2>1, <2>3, SeenBecomes
    <3>2. SeenDesc[o].open
      BY <2>4, SeenOf
    <3> QED
      BY <1>2, <2>2, <3>1, <3>2, SeesClose
  <2>5. CASE ocb[o].kind = "dir"
    <3>1. \A p \in Ocb : SeenAs(ocb'[p]) = SeenAs(ocb[p])
      BY <2>1, <2>5, StartTypes DEF SeenAs, TypeInv
    <3>2. SeenDesc' = SeenDesc
      BY <3>1, SeenStays
    <3> QED
      BY <1>2, <2>2, <3>2, SeesOther
  <2> QED
    BY <2>1, <2>4, <2>5
<1> QED
  BY <1>3, <1>4, <1>5

\* Listings and refusals.
LEMMA SeenElse ==
    ASSUME TypeInv, NEW o \in Ocb,
           \/ IoReadRefused(o) \/ IoWriteRefused(o)
           \/ \E n \in DirSizes : IoReadDir(o, n)
    PROVE  Promised!Next
<1>1. pc = "idle" /\ pc' = "idle" /\ file' = file
  BY DEF IoReadRefused, IoWriteRefused, IoReadDir, Begin
<1>2. ASSUME NEW op \in {"refused", "list"}, NEW rc, NEW at, NEW n, NEW data,
             Answer(op, rc, o, at, n, data)
      PROVE  SeenReply' = NoneSeen
  BY <1>2, SeenAnswer
<1>3. SeenReply' = NoneSeen
  <2>1. CASE IoReadRefused(o) \/ IoWriteRefused(o)
    BY <1>2, <2>1 DEF IoReadRefused, IoWriteRefused
  <2>2. ASSUME NEW n \in DirSizes, IoReadDir(o, n) PROVE SeenReply' = NoneSeen
    BY <1>2, <2>2 DEF IoReadDir
  <2> QED
    BY <2>1, <2>2
<1>4. \A p \in Ocb : SeenAs(ocb'[p]) = SeenAs(ocb[p])
  <2>1. CASE ocb' = ocb
    BY <2>1
  <2>2. ASSUME NEW n \in DirSizes, IoReadDir(o, n), ocb' # ocb
        PROVE  \A p \in Ocb : SeenAs(ocb'[p]) = SeenAs(ocb[p])
    <3>1. PICK kept, sent : ocb' = Keep(o, kept, sent)
      BY <2>2 DEF IoReadDir
    <3>2. ocb[o].kind = "dir" /\ ocb[o] \in OcbStates /\ ocb \in [Ocb -> OcbStates]
      BY <2>2 DEF IoReadDir, Begin, TypeInv
    <3>3. \A p \in Ocb : p # o => ocb'[p] = ocb[p]
      BY <3>1, <3>2 DEF Keep
    <3>4. ocb'[o].kind = "dir"
      BY <3>1, <3>2 DEF Keep, OcbStates
    <3> QED
      BY <3>2, <3>3, <3>4 DEF SeenAs
  <2> QED
    BY <2>1, <2>2 DEF IoReadRefused, IoWriteRefused
<1>5. SeenDesc' = SeenDesc /\ SeenFile' = SeenFile
  BY <1>1, <1>4, SeenStays DEF SeenFile
<1> QED
  BY <1>3, <1>5, SeesOther

\* Reads of the file, and of a directory that says it is none.
LEMMA SeenReads ==
    ASSUME TypeInv, AccessInv, NEW o \in Ocb, NEW n \in Sizes, IoRead(o, n)
    PROVE  Promised!Next
<1>1. /\ pc = "idle" /\ pc' = "idle" /\ file' = file
      /\ "rd" \in ocb[o].acc /\ ocb[o].kind \in {"file", "dir"}
  BY DEF IoRead, Begin, ReadVerified
<1>2. SeenFile = file /\ SeenFile' = SeenFile
  BY <1>1 DEF SeenFile
<1>3. /\ ocb \in [Ocb -> OcbStates] /\ ocb[o] \in OcbStates
      /\ ocb[o].offset \in Nat /\ Len(file) \in Nat
  BY DEF TypeInv, OcbStates, Contents
<1>4. CASE ocb[o].kind = "dir"
  <2>1. ocb' = ocb
    BY <1>4 DEF IoRead, ReadFailed, ServerReads
  <2>2. PICK rc : Answer("read", rc, o, ocb[o].offset, 0, << >>)
    BY <1>4 DEF IoRead, ReadFailed, ReadAnswer, ServerReads
  <2>3. SeenReply' = NoneSeen
    BY <1>4, <2>1, <2>2, SeenAnswer
  <2>4. SeenDesc' = SeenDesc
    BY <2>1, SeenStays
  <2> QED
    BY <1>2, <2>3, <2>4, SeesOther
<1>5. CASE ocb[o].kind = "file"
  <2>1. /\ SeenDesc[o].open /\ "rd" \in SeenDesc[o].acc
        /\ SeenDesc[o].pos = ocb[o].offset
    BY <1>1, <1>5, SeenOf
  <2>2. CASE ReadFailed(o)
    <3>1. PICK rc \in {"EIO", "server EBADF"} :
            ocb' = ocb /\ Answer("read", rc, o, ocb[o].offset, 0, << >>)
      BY <2>2 DEF ReadFailed, ReadAnswer, Errors
    <3>2. SeenReply' = [op |-> "read", rc |-> "error", at |-> SeenDesc[o].pos,
                        data |-> << >>]
      BY <1>5, <2>1, <3>1, SeenAnswer
    <3>3. SeenDesc' = SeenDesc
      BY <3>1, SeenStays
    <3> QED
      BY <1>2, <2>1, <3>2, <3>3, SeesRead
  <2>3. ASSUME NEW k \in 0..Len(file), Got(o, n, k),
               IF k = 0 THEN ocb[o].offset >= Len(file)
                        ELSE ocb[o].offset + k <= Len(file)
        PROVE  Promised!Next
    <3>1. /\ ocb' = [ocb EXCEPT ![o].offset = ocb[o].offset + k]
          /\ Answer("read", "ok", o, ocb[o].offset, 0,
                    SubSeq(file, ocb[o].offset + 1, ocb[o].offset + k))
      BY <1>3, <2>3 DEF Got, ReadAnswer
    <3>2. ocb'[o].kind = "file"
      BY <1>3, <1>5, <3>1 DEF OcbStates
    <3>3. SeenReply' = [op |-> "read", rc |-> "ok", at |-> SeenDesc[o].pos,
                        data |-> SubSeq(SeenFile, SeenDesc[o].pos + 1,
                                        SeenDesc[o].pos + k)]
      BY <1>2, <2>1, <3>1, <3>2, SeenAnswer
    <3>4. SeenDesc' = [SeenDesc EXCEPT ![o].pos = SeenDesc[o].pos + k]
      <4> DEFINE j == ocb[o].offset + k
      <4>1. j \in Nat
        BY <1>3, <2>3
      <4>2. ocb' = [ocb EXCEPT ![o].offset = j]
        BY <3>1
      <4> HIDE DEF j
      <4>3. SeenDesc' = [SeenDesc EXCEPT ![o].pos = j]
        BY <1>5, <4>1, <4>2, SeenMoves
      <4> QED
        BY <2>1, <4>3 DEF j
    <3>5. SeenDesc' = [SeenDesc EXCEPT ![o].pos = @ + k]
      BY <3>4
    <3>6. /\ k \in 0..Len(SeenFile)
          /\ IF k = 0 THEN SeenDesc[o].pos >= Len(SeenFile)
                      ELSE SeenDesc[o].pos + k <= Len(SeenFile)
      BY <1>2, <2>1, <2>3
    <3> QED
      BY <1>2, <2>1, <3>3, <3>5, <3>6, SeesRead
  <2>4. CASE ocb[o].offset >= Len(file) /\ Got(o, n, 0)
    BY <1>3, <2>3, <2>4
  <2>5. ASSUME ocb[o].offset < Len(file),
               NEW k \in 1..SmallerOf(n, Len(file) - ocb[o].offset), Got(o, n, k)
        PROVE  Promised!Next
    <3>1. n \in Nat
      BY SizesAssumption
    <3>2. k \in 0..Len(file) /\ k # 0 /\ ocb[o].offset + k <= Len(file)
      BY <1>3, <2>5, <3>1 DEF SmallerOf
    <3> QED
      BY <2>3, <2>5, <3>2
  <2> QED
    BY <1>3, <2>2, <2>4, <2>5 DEF IoRead
<1> QED
  BY <1>1, <1>4, <1>5

\* A write of nothing, and the beginning of any other write.
LEMMA SeenStarts ==
    ASSUME TypeInv, NEW o \in Ocb, NEW d \in Data, NEW moves \in BOOLEAN,
           NEW at \in {ocb[o].offset} \cup 0..MaxLen, NEW inline,
           IoWrite(o, d, at, moves, inline)
    PROVE  Promised!Next \/ UNCHANGED Promised!vars
<1>1. /\ pc = "idle" /\ file' = file /\ ocb' = ocb /\ ocb[o].kind = "file"
      /\ "wr" \in ocb[o].acc /\ (moves => at = ocb[o].offset)
  BY DEF IoWrite, Begin, WriteVerified
<1>2. SeenDesc' = SeenDesc
  BY <1>1, SeenStays
<1>3. SeenFile = file
  BY <1>1 DEF SeenFile
<1>4. CASE d # << >>
  <2>1. pc' = "Write" /\ loc'.before = file /\ reply' = reply
    BY <1>4 DEF IoWrite
  <2>2. SeenFile' = SeenFile
    BY <1>3, <2>1 DEF SeenFile
  <2>3. SeenReply' = SeenReply
    BY <1>1, <2>1 DEF SeenReply
  <2> QED
    BY <1>2, <2>2, <2>3, SeesNothing
<1>5. CASE d = << >>
  <2>1. Answer("write", "ok", o, at, 0, << >>) /\ pc' = "idle"
    BY <1>1, <1>5 DEF IoWrite
  <2>2. SubSeq(d, 1, 0) = << >> /\ Len(d) = 0 /\ 0 \in 0..Len(d)
    BY <1>5
  <2>3. SeenReply' = [op |-> "write", rc |-> "ok", at |-> at,
                      data |-> SubSeq(d, 1, 0)]
    BY <1>1, <2>1, <2>2, SeenAnswer
  <2>4. SeenFile' = Store(SeenFile, IF SeenDesc[o].append
                                    THEN Len(SeenFile) ELSE at, SubSeq(d, 1, 0))
    BY <1>1, <1>3, <2>1, <2>2 DEF Store, SeenFile
  <2>5. SeenDesc[o] = SeenAs(ocb[o]) /\ SeenDesc[o].pos = ocb[o].offset
        /\ ocb[o].offset \in Nat
    BY <1>1 DEF SeenDesc, SeenAs, TypeInv, OcbStates
  <2>6. [SeenDesc EXCEPT ![o].pos = @ + 0] = SeenDesc
    <3>1. SeenDesc[o] = [open |-> TRUE, acc |-> ocb[o].acc,
                         append |-> ocb[o].append, pos |-> ocb[o].offset]
      BY <1>1 DEF SeenDesc, SeenAs
    <3> DEFINE r == SeenDesc[o]
    <3>2. [r EXCEPT !.pos = @ + 0] = r
      <4> HIDE DEF r
      <4>1. r.pos = ocb[o].offset /\ r.pos + 0 = r.pos
        BY <2>5, <3>1 DEF r
      <4> QED
        BY <3>1, <4>1 DEF r
    <3>3. [SeenDesc EXCEPT ![o] = SeenDesc[o]] = SeenDesc
      BY DEF SeenDesc
    <3> QED
      BY <3>2, <3>3
  <2>7. SeenDesc' = IF moves THEN [SeenDesc EXCEPT ![o].pos = @ + 0] ELSE SeenDesc
    BY <1>2, <2>6
  <2>8. SeenDesc[o].open /\ "wr" \in SeenDesc[o].acc
        /\ (moves => at = SeenDesc[o].pos)
        /\ at \in {SeenDesc[o].pos} \cup 0..MaxLen
    BY <1>1, <2>5, SeenOf
  <2> QED
    BY <2>2, <2>3, <2>4, <2>7, <2>8, SeesWrite
<1> QED
  BY <1>4, <1>5

\* A chunk, and the answer to a write.
LEMMA SeenChunks ==
    ASSUME TypeInv, AccessInv, WriteInv, WriteChunk \/ WriteFailed
    PROVE  Promised!Next \/ UNCHANGED Promised!vars
<1> DEFINE o == loc.ocb
           d == loc.data
           t == loc.total
           at == loc.start
<1>1. /\ pc = "Write" /\ o \in Ocb /\ d \in Data /\ Len(d) \in Nat
      /\ t \in Nat /\ t < Len(d) /\ loc.moves \in BOOLEAN
      /\ ocb[o].kind = "file" /\ "wr" \in ocb[o].acc
      /\ at \in {ocb[o].offset} \cup 0..MaxLen
      /\ loc.moves => at = ocb[o].offset
      /\ ocb[o].offset \in Nat /\ ocb \in [Ocb -> OcbStates]
  <2>1. pc = "Write"
    BY DEF WriteChunk, WriteFailed
  <2>2. /\ o \in Ocb /\ d \in Contents /\ t \in Nat /\ loc.moves \in BOOLEAN
        /\ ocb \in [Ocb -> OcbStates] /\ t < Len(d) /\ ocb[o].kind = "file"
    BY <2>1 DEF TypeInv, Locs
  <2>3. Len(d) \in Nat /\ ocb[o].offset \in Nat
    BY <2>2 DEF Contents, OcbStates
  <2>4. "wr" \in ocb[o].acc
    BY <2>1 DEF AccessInv
  <2>5. /\ d \in Data /\ at \in {ocb[o].offset} \cup 0..MaxLen
        /\ loc.moves => at = ocb[o].offset
    BY <2>1 DEF WriteInv
  <2> HIDE DEF o, d, t, at
  <2> QED
    BY <2>1, <2>2, <2>3, <2>4, <2>5
<1>2. SeenFile = loc.before
  BY <1>1 DEF SeenFile
<1>3. /\ SeenDesc[o].open /\ "wr" \in SeenDesc[o].acc
      /\ SeenDesc[o].append = ocb[o].append
      /\ SeenDesc[o].pos = ocb[o].offset
  BY <1>1, SeenOf
<1>4. Begins = IF SeenDesc[o].append THEN Len(SeenFile) ELSE at
  BY <1>2, <1>3 DEF Begins
<1>5. Len(Chunk) \in 1..Len(d) - t
  BY <1>1, ChunkIsNext
<1>6. ASSUME NEW k \in 0..Len(Chunk),
             file' = Store(file, ChunkPlace, SubSeq(Chunk, 1, k)), pc' = "idle"
      PROVE  /\ SeenFile' = Store(SeenFile, IF SeenDesc[o].append
                                            THEN Len(SeenFile) ELSE at,
                                  SubSeq(d, 1, t + k))
             /\ t + k \in 0..Len(d)
  <2>1. file' = Store(loc.before, Begins, SubSeq(d, 1, t + k))
    BY <1>1, <1>6, ChunkContinues
  <2>2. SeenFile' = file'
    BY <1>6 DEF SeenFile
  <2>3. t + k \in 0..Len(d)
    BY <1>1, <1>5
  <2> QED
    BY <1>2, <1>4, <2>1, <2>2, <2>3
<1>7. CASE WriteFailed
  <2>1. PICK rc \in {"EIO", "server EBADF"} :
          pc' = "idle" /\ ocb' = ocb /\ Answer("write", rc, o, at, 0, d)
    BY <1>7 DEF WriteFailed, WriteReply, Errors
  <2>2. SeenReply' = [op |-> "write", rc |-> "error", at |-> at, data |-> d]
    BY <1>1, <2>1, SeenAnswer
  <2>3. SeenDesc' = SeenDesc
    BY <2>1, SeenStays
  <2>4. PICK k \in 0..Len(Chunk) :
          file' = Store(file, ChunkPlace, SubSeq(Chunk, 1, k))
    <3>1. CASE file' = file
      <4>1. 0 \in 0..Len(Chunk) /\ SubSeq(Chunk, 1, 0) = << >>
        BY <1>1, ChunkIsNext
      <4>2. file' = Store(file, ChunkPlace, SubSeq(Chunk, 1, 0))
        BY <3>1, <4>1 DEF Store
      <4> QED
        BY <4>1, <4>2
    <3>2. 1..Len(Chunk) \subseteq 0..Len(Chunk)
      BY <1>1, ChunkIsNext
    <3> DEFINE Tries(n) == file' = Store(file, ChunkPlace, SubSeq(Chunk, 1, n))
    <3>3. file' = file \/ \E n \in 1..Len(Chunk) : Tries(n)
      BY <1>7 DEF WriteFailed
    <3>4. file' = file => \E n \in 0..Len(Chunk) : Tries(n)
      BY <3>1
    <3> HIDE DEF Tries
    <3>5. \E n \in 0..Len(Chunk) : Tries(n)
      BY <3>2, <3>3, <3>4
    <3> QED
      BY <3>5 DEF Tries
  <2>5. /\ SeenFile' = Store(SeenFile, IF SeenDesc[o].append
                                       THEN Len(SeenFile) ELSE at,
                             SubSeq(d, 1, t + k))
        /\ t + k \in 0..Len(d)
    BY <1>6, <2>1, <2>4
  <2> HIDE DEF o, d, t, at
  <2> QED
    BY <1>1, <1>3, <2>2, <2>3, <2>5, SeesWrite
<1>8. CASE WriteChunk
  <2>1. PICK k \in 0..Len(Chunk) :
          /\ file' = Store(file, ChunkPlace, SubSeq(Chunk, 1, k))
          /\ IF MoreToWrite(k)
             THEN /\ loc' = [loc EXCEPT !.total = @ + k, !.turn = ~@]
                  /\ UNCHANGED <<ocb, pc, reply>>
             ELSE /\ WriteReply("ok", SubSeq(d, 1, t + k))
                  /\ ocb' = IF loc.moves
                            THEN [ocb EXCEPT ![o].offset = @ + t + k]
                            ELSE ocb
    BY <1>8 DEF WriteChunk
  <2>2. CASE MoreToWrite(k)
    <3>1. loc' = [loc EXCEPT !.total = @ + k, !.turn = ~@]
          /\ ocb' = ocb /\ pc' = "Write" /\ reply' = reply
      BY <1>1, <2>1, <2>2
    <3>2. loc'.before = loc.before
      BY <3>1 DEF TypeInv, Locs
    <3>3. SeenFile' = SeenFile
      BY <1>2, <3>1, <3>2 DEF SeenFile
    <3>4. SeenDesc' = SeenDesc
      BY <3>1, SeenStays
    <3>5. SeenReply' = SeenReply
      BY <3>1 DEF SeenReply
    <3> QED
      BY <3>3, <3>4, <3>5, SeesNothing
  <2>3. CASE ~MoreToWrite(k)
    <3>1. /\ pc' = "idle" /\ Answer("write", "ok", o, at, 0, SubSeq(d, 1, t + k))
          /\ ocb' = IF loc.moves THEN [ocb EXCEPT ![o].offset = @ + t + k]
                    ELSE ocb
      BY <2>1, <2>3 DEF WriteReply
    <3>2. /\ SeenFile' = Store(SeenFile, IF SeenDesc[o].append
                                         THEN Len(SeenFile) ELSE at,
                               SubSeq(d, 1, t + k))
          /\ t + k \in 0..Len(d)
      BY <1>6, <2>1, <3>1
    <3>3. ocb'[o].kind = "file"
      BY <1>1, <3>1 DEF OcbStates
    <3>4. SeenReply' = [op |-> "write", rc |-> "ok", at |-> at,
                        data |-> SubSeq(d, 1, t + k)]
      BY <1>1, <3>1, <3>3, SeenAnswer
    <3>5. SeenDesc' = IF loc.moves THEN [SeenDesc EXCEPT ![o].pos = @ + (t + k)]
                      ELSE SeenDesc
      <4>1. CASE loc.moves
        <5> DEFINE j == ocb[o].offset + (t + k)
        <5>1. j \in Nat /\ ocb[o].offset + t + k = j
          BY <1>1, <3>2
        <5>2. ocb' = [ocb EXCEPT ![o].offset = j]
          BY <3>1, <4>1, <5>1
        <5> HIDE DEF j
        <5>3. SeenDesc' = [SeenDesc EXCEPT ![o].pos = j]
          BY <1>1, <5>1, <5>2, SeenMoves
        <5> QED
          BY <1>3, <4>1, <5>3 DEF j
      <4>2. CASE ~loc.moves
        <5>1. ocb' = ocb
          BY <3>1, <4>2
        <5> QED
          BY <4>2, <5>1, SeenStays
      <4> QED
        BY <4>1, <4>2
    <3> DEFINE m == loc.moves
    <3>6. m \in BOOLEAN /\ (m => at = SeenDesc[o].pos)
          /\ SeenDesc' = IF m THEN [SeenDesc EXCEPT ![o].pos = @ + (t + k)]
                         ELSE SeenDesc
      BY <1>1, <1>3, <3>5
    <3> HIDE DEF o, d, t, at, m
    <3> QED
      BY <1>1, <1>3, <3>2, <3>4, <3>6, SeesWrite
  <2> QED
    BY <2>2, <2>3
<1> QED
  BY <1>7, <1>8

\* Every step of the handlers is a step of the file, or none.
LEMMA StepOfTheFile ==
    ASSUME TypeInv, AccessInv, WriteInv, [Next]_vars
    PROVE  Promised!Next \/ UNCHANGED Promised!vars
<1>1. CASE UNCHANGED vars
  <2>1. SeenFile' = SeenFile /\ SeenReply' = SeenReply
    BY <1>1 DEF vars, SeenFile, SeenReply
  <2>2. SeenDesc' = SeenDesc
    BY <1>1, SeenStays DEF vars
  <2> QED
    BY <2>1, <2>2, SeesNothing
<1>2. ASSUME NEW o \in Ocb,
             \/ \E how \in Opens : ConnectOpen(o, how)
             \/ ConnectOpenDir(o) \/ IoCloseOcb(o)
      PROVE  Promised!Next
  BY <1>2, SeenOpens
<1>3. ASSUME NEW o \in Ocb,
             \/ IoReadRefused(o) \/ IoWriteRefused(o)
             \/ \E n \in DirSizes : IoReadDir(o, n)
      PROVE  Promised!Next
  BY <1>3, SeenElse
<1>4. ASSUME NEW o \in Ocb, NEW n \in Sizes, IoRead(o, n)
      PROVE  Promised!Next
  BY <1>4, SeenReads
<1>5. ASSUME NEW o \in Ocb, NEW d \in Data, NEW inline \in 0..Len(d),
             \/ IoWrite(o, d, ocb[o].offset, TRUE, inline)
             \/ \E at \in 0..MaxLen : IoWrite(o, d, at, FALSE, inline)
      PROVE  Promised!Next \/ UNCHANGED Promised!vars
  BY <1>5, SeenStarts
<1>6. CASE WriteFailed \/ WriteChunk
  BY <1>6, SeenChunks
<1> QED
  BY <1>1, <1>2, <1>3, <1>4, <1>5, <1>6 DEF Next

\* The handlers implement the file of ByteFile.tla, for all data, chunk
\* sizes, buffer sizes and positions: reads, and writes in chunks, answer and
\* move offsets as those of the file do.
THEOREM HandlersImplementByteFile == Spec => ImplementsByteFile
<1>1. Init => Promised!Init
  BY DEF Init, Promised!Init, Promised!NotOpen, Promised!NoAnswer, Closed,
         NoReply
<1>2. TypeInv /\ AccessInv /\ WriteInv /\ [Next]_vars
        => [Promised!Next]_(Promised!vars)
  BY StepOfTheFile
<1> QED
  BY <1>1, <1>2, TypeInvariant, AccessInvariant, WriteInvariant, PTL
     DEF Spec, ImplementsByteFile, Promised!Spec
=============================================================================
