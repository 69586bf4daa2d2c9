--------------------------- MODULE NinePWireProofs ---------------------------
(***************************************************************************)
(* The codec, for all requests, replies and texts, and for bytes of any    *)
(* size.  A server that knows the layouts alone reads every request as it  *)
(* was meant; the session gets what a server that keeps to the layouts put *)
(* in a reply; no reply is taken for the answer to another request; and a  *)
(* reply that was cut short invents nothing, wherever the cut is.          *)
(*                                                                         *)
(* The argument is by what a message holds: Holds(d, off, p) says that the *)
(* bytes p are in message d behind the first off.  The bytes that stand    *)
(* for a value are held where the builder, or the server, put them, and a  *)
(* read at this place returns the value and moves behind the bytes.  The   *)
(* loops (Gets, Entries, Texts, Fields, FlattenSeq) are recursive          *)
(* functions; what they have made after n turns is shown by CountTo, by    *)
(* induction on n, from the least number for which it would not be so.     *)
(***************************************************************************)
EXTENDS NinePWire, WellFoundedInduction, TLAPS

-----------------------------------------------------------------------------
(* Numbers and their bytes.                                               *)

\* What the messages are made of: numbers, and the types of requests and replies.
Cell == Nat \cup {c.type : c \in Calls} \cup {a.type : a \in Answers}

\* The cells of p are in message d, behind the first off ones.
Holds(d, off, p) == off + Len(p) <= Len(d) /\ \A i \in 1..Len(p) : d[off + i] = p[i]

\* A message holds a concatenation if it holds the one part behind the other.
LEMMA HoldsParts ==
    ASSUME NEW S, NEW d \in Seq(S), NEW off \in Nat, NEW p \in Seq(S), NEW q \in Seq(S)
    PROVE  Holds(d, off, p \o q) <=> Holds(d, off, p) /\ Holds(d, off + Len(p), q)
<1>1. Len(p) \in Nat /\ Len(q) \in Nat /\ Len(d) \in Nat /\ Len(p \o q) = Len(p)+Len(q)
  OBVIOUS
<1>2. /\ \A i \in 1..Len(p) : i \in 1..Len(p \o q) /\ (p \o q)[i] = p[i]
      /\ \A i \in 1..Len(q) : Len(p)+i \in 1..Len(p \o q) /\ (p \o q)[Len(p)+i] = q[i]
  BY <1>1
<1>3. ASSUME Holds(d, off, p \o q) PROVE Holds(d, off, p) /\ Holds(d, off + Len(p), q)
  <2>1. ASSUME NEW i \in 1..Len(q) PROVE d[(off+Len(p))+i] = q[i]
    <3>1. off + (Len(p)+i) = (off+Len(p))+i
       BY <1>1
    <3> QED BY <1>2, <1>3, <3>1 DEF Holds
  <2> QED BY <1>1, <1>2, <1>3, <2>1 DEF Holds
<1>4. ASSUME Holds(d, off, p), Holds(d, off + Len(p), q) PROVE Holds(d, off, p \o q)
  <2>1. ASSUME NEW i \in 1..Len(p \o q) PROVE d[off+i] = (p \o q)[i]
    <3>1. CASE i \in 1..Len(p)
      BY <1>2, <1>4, <3>1 DEF Holds
    <3>2. CASE i \notin 1..Len(p)
      <4>1. PICK j \in 1..Len(q) : i = Len(p) + j
        <5>1. i - Len(p) \in 1..Len(q) /\ i = Len(p) + (i - Len(p)) BY <1>1, <3>2
        <5> QED BY <5>1
      <4>2. d[(off+Len(p))+j] = q[j] BY <1>4 DEF Holds
      <4>3. (off+Len(p))+j = off+i BY <1>1, <4>1
      <4> QED BY <1>2, <4>1, <4>2, <4>3
    <3> QED BY <3>1, <3>2
  <2> QED BY <1>1, <1>4, <2>1 DEF Holds
<1> QED BY <1>3, <1>4

\* Two cells in a message.
LEMMA PairHeld ==
    ASSUME NEW S, NEW d \in Seq(S), NEW off \in Nat, NEW x, NEW y
    PROVE  Holds(d, off, <<x, y>>) <=> off + 2 <= Len(d) /\ d[off+1] = x /\ d[off+2] = y
BY DEF Holds

\* One cell in a message.
LEMMA OneHeld ==
    ASSUME NEW S, NEW d \in Seq(S), NEW off \in Nat, NEW x
    PROVE  Holds(d, off, <<x>>) <=> off + 1 <= Len(d) /\ d[off+1] = x 
BY DEF Holds

\* Division by a positive number leaves a remainder smaller than it.
LEMMA DivMod ==
    ASSUME NEW v \in Nat, NEW b \in Nat \ {0}
    PROVE  v \div b \in Nat /\ v % b \in 0..b - 1 /\ v = b * (v \div b) + (v % b)
OBVIOUS

\* Quotient and remainder are the only ones.
LEMMA DivModUnique ==
    ASSUME NEW b \in Nat \ {0}, NEW q \in Nat, NEW r \in 0..b - 1
    PROVE  (b * q + r) \div b = q /\ (b * q + r) % b = r
OBVIOUS

\* Two halves of a number that two places hold.
LEMMA HighSmall ==
    ASSUME NEW b \in Nat \ {0}, NEW c \in Nat \ {0}, NEW v \in 0..b * c - 1
    PROVE  v \div b \in 0..c - 1
OBVIOUS

\* To divide by a product is to divide twice.
LEMMA DivDiv ==
    ASSUME NEW v \in Nat, NEW b \in Nat \ {0}, NEW c \in Nat \ {0}
    PROVE  v \div (b * c) = (v \div b) \div c
<1> DEFINE q == v \div b
           r == v % b
           h == q \div c
           s == q % c
<1>1. q \in Nat /\ r \in 0..b - 1 /\ h \in Nat /\ s \in 0..c - 1
  BY DivMod
<1>2. v = b * q + r /\ q = c * h + s
  BY <1>1, DivMod
<1> HIDE DEF q, r, h, s
<1>3. b * c \in Nat \ {0}
  OBVIOUS
<1>4. v = (b * c) * h + (b * s + r)
  BY <1>1, <1>2
<1>5. b * s + r \in 0..b * c - 1
  <2>1. b * s <= b * (c - 1)
    BY <1>1
  <2> QED
    BY <1>1, <2>1
<1>6. v \div (b * c) = h
  BY <1>1, <1>3, <1>4, <1>5, DivModUnique
<1> QED
  BY <1>6 DEF h, q

\* The numbers of values of one, two and four bytes.
LEMMA Widths == /\ B \in Nat \ {0} /\ Two16 \in Nat \ {0} /\ Two32 \in Nat \ {0}
                /\ Two16 * B \in Nat \ {0} /\ Two16 = B * B /\ Two32 = Two16 * Two16
<1>1. B \in Nat \ {0}
  BY ByteAssumption
<1>2. Two16 \in Nat \ {0} /\ Two16 = B * B
  BY <1>1 DEF Two16
<1>3. Two32 \in Nat \ {0} /\ Two32 = Two16 * Two16
  BY <1>2 DEF Two32
<1>4. Two16 * B \in Nat \ {0}
  BY <1>1, <1>2
<1> QED
  BY <1>1, <1>2, <1>3, <1>4

\* A number of four bytes does not wrap.
LEMMA Unwrapped ==
    ASSUME NEW v \in Nat, v < Two32
    PROVE  v % Two32 = v
<1> DEFINE b == Two32
<1>1. b \in Nat \ {0} /\ v \in 0..b - 1
  BY Widths
<1> HIDE DEF b
<1>2. (b * 0 + v) % b = v
  BY <1>1, DivModUnique
<1>3. v % b = v
  BY <1>1, <1>2
<1> QED
  BY <1>3 DEF b

\* The two halves of a number.
LEMMA Halves ==
    ASSUME NEW b \in Nat \ {0}, NEW v \in 0..b * b - 1
    PROVE  /\ v % b \in 0..b - 1 /\ v \div b \in 0..b - 1
           /\ v = (v % b) + b * (v \div b)
<1>1. v \in Nat
  OBVIOUS
<1>2. v \div b \in 0..b - 1
  BY HighSmall
<1>3. v % b \in 0..b - 1 /\ v = b * (v \div b) + (v % b)
  BY <1>1, DivMod
<1> QED
  BY <1>2, <1>3

\* The two bytes of a number.
LEMMA TwoBytes ==
    ASSUME NEW v \in 0..Two16 - 1
    PROVE  /\ v % B \in Byte /\ v \div B \in Byte /\ (v \div B) % B = v \div B
           /\ (v % B) + B * (v \div B) = v
<1>1. v \in 0..B * B - 1 /\ v \in Nat
  BY Widths
<1>2. v \div B \in 0..B - 1 /\ v % B \in 0..B - 1
  BY <1>1, Widths, HighSmall, DivMod
<1>3. (v \div B) % B = v \div B
  BY <1>2, Widths
<1> QED
  BY <1>1, <1>2, <1>3, Widths, DivMod DEF Byte

\* What a Put of four bytes writes is what the two halves hold.
LEMMA FourBytes ==
    ASSUME NEW v \in U32
    PROVE  LET lo == v % Two16
               hi == v \div Two16
           IN  /\ lo \in 0..Two16 - 1 /\ hi \in 0..Two16 - 1
               /\ v = lo + Two16 * hi
               /\ v % B = lo % B /\ (v \div B) % B = lo \div B
               /\ (v \div Two16) % B = hi % B
               /\ (v \div (Two16 * B)) % B = hi \div B
<1> DEFINE lo == v % Two16
           hi == v \div Two16
<1>1. v \in Nat /\ v \in 0..Two16 * Two16 - 1
  BY Widths DEF U32
<1>2. lo \in 0..Two16 - 1 /\ hi \in 0..Two16 - 1 /\ v = lo + Two16 * hi
  BY <1>1, Widths, Halves
<1>3. v \div (Two16 * B) = hi \div B
  <2>1. \A b, c \in Nat \ {0} : v \div (b * c) = (v \div b) \div c
    BY <1>1, DivDiv
  <2> QED
    BY <2>1, Widths
<1>4. (v \div (Two16 * B)) % B = hi \div B
  BY <1>2, <1>3, TwoBytes
<1> HIDE DEF lo, hi
<1> DEFINE x == lo % B
           y == lo \div B
<1>5. x \in 0..B - 1 /\ y \in 0..B - 1 /\ x + B * y = lo
  BY <1>2, TwoBytes DEF Byte
<1> HIDE DEF x, y
<1>6. v = B * (B * hi + y) + x /\ B * hi + y \in Nat /\ hi \in Nat
  BY <1>2, <1>5, Widths
<1>7. v \div B = B * hi + y /\ v % B = x
  BY <1>5, <1>6, Widths, DivModUnique
<1>8. (v \div B) % B = y
  <2>1. (B * hi + y) % B = y
    BY <1>5, <1>6, Widths, DivModUnique
  <2> QED
    BY <1>7, <2>1
<1>9. v % B = lo % B /\ (v \div B) % B = lo \div B
  BY <1>7, <1>8 DEF x, y
<1> QED
  BY <1>2, <1>4, <1>9 DEF lo, hi

\* The halves of a number of eight bytes.
LEMMA EightBytes ==
    ASSUME NEW v \in U64
    PROVE  /\ v % Two32 \in U32 /\ v \div Two32 \in U32
           /\ v = (v % Two32) + Two32 * (v \div Two32)
<1>1. v \in 0..Two32 * Two32 - 1
  BY DEF U64
<1> QED
  BY <1>1, Widths, Halves DEF U32

\* Numbers have a least one.
LEMMA LeastNumber ==
    ASSUME NEW T \in SUBSET Nat, T # {}
    PROVE  \E n \in T : \A m \in T : n <= m
<1>1. PICK n \in T : \A m \in T : ~ (<<m, n>> \in OpToRel(<, Nat))
  BY NatLessThanWellFounded, WFMin
<1>2. \A m \in T : ~ (m < n)
  BY <1>1 DEF OpToRel
<1> QED
  BY <1>2

\* A set that holds 0 and with every number below N the next one holds all up to N.
LEMMA CountTo ==
    ASSUME NEW N \in Nat, NEW T, 0 \in T, \A n \in 1..N : n - 1 \in T => n \in T
    PROVE  0..N \subseteq T
<1> DEFINE U == (0..N) \ T
<1> SUFFICES ASSUME U # {} PROVE FALSE
  OBVIOUS
<1>1. U \in SUBSET Nat
  OBVIOUS
<1> HIDE DEF U
<1>2. PICK n \in U : \A m \in U : n <= m
  BY <1>1, LeastNumber
<1>3. n \in 0..N /\ n \notin T
  BY <1>2 DEF U
<1>4. n \in 1..N /\ n - 1 \in 0..N /\ ~ (n <= n - 1)
  BY <1>3
<1>5. n - 1 \in T
  BY <1>2, <1>4 DEF U
<1> QED
  BY <1>3, <1>4, <1>5

\* What a turn of Gets makes of the values so far, and what all turns make.
GetTurn(kinds, d, n, r) == LET g == Get(kinds[n], d, r.off)
                           IN  Got(g.off, Append(r.val, g.val))

GetsBy(r, kinds, d, off) ==
    /\ r[0] = Got(off, << >>) /\ Gets(kinds, d, off) = r[Len(kinds)]
    /\ \A n \in 1..Len(kinds) : r[n] = GetTurn(kinds, d, n, r[n - 1])

\* One turn of Gets.
LEMMA GetTurnMakes ==
    ASSUME NEW kinds, NEW d, NEW n, NEW o, NEW v, NEW x, NEW y,
           Get(kinds[n], d, o) = Got(x, y)
    PROVE  GetTurn(kinds, d, n, Got(o, v)) = Got(x, Append(v, y))
BY DEF GetTurn, Got

\* The recursive function of Gets is there, and takes these turns.
LEMMA GetsTurns ==
    ASSUME NEW kinds, Len(kinds) \in Nat, NEW d, NEW off
    PROVE  \E r : GetsBy(r, kinds, d, off)
<1> DEFINE Turn(n, r) == LET g == Get(kinds[n], d, r.off)
                         IN  Got(g.off, Append(r.val, g.val))
           N == Len(kinds)
           Is(f, m) == f = [n \in 0..m |-> IF n = 0 THEN Got(off, << >>) ELSE Turn(n, f[n - 1])]
           T == {m \in Nat : \E f : Is(f, m)}
           read == CHOOSE f : Is(f, N)
<1>1. Gets(kinds, d, off) = read[N]
  BY DEF Gets
<1> HIDE DEF Turn
<1>2. 0 \in T
  <2>1. Is([n \in 0..0 |-> Got(off, << >>)], 0)
    OBVIOUS
  <2> QED
    BY <2>1
<1>3. ASSUME NEW m \in 1..N, m - 1 \in T PROVE m \in T
  <2>1. PICK f : Is(f, m - 1)
    BY <1>3
  <2> DEFINE g == [n \in 0..m |-> IF n = m THEN Turn(n, f[n - 1]) ELSE f[n]]
  <2>2. Is(g, m)
    <3>1. ASSUME NEW n \in 0..m
          PROVE  g[n] = IF n = 0 THEN Got(off, << >>) ELSE Turn(n, g[n - 1])
      <4>1. CASE n = m
        BY <1>3, <4>1
      <4>2. CASE n # m
        BY <1>3, <2>1, <4>2
      <4> QED BY <4>1, <4>2
    <3> QED BY <3>1
  <2>3. m \in Nat
    BY <1>3
  <2> HIDE DEF Is, g
  <2> QED BY <2>2, <2>3
<1>4. \E f : Is(f, N)
  <2> HIDE DEF Is
  <2>1. 0..N \subseteq T
    BY <1>2, <1>3, CountTo
  <2> QED BY <2>1
<1>5. Is(read, N)
  BY <1>4
<1> HIDE DEF read
<1>6. /\ read[0] = Got(off, << >>)
      /\ \A n \in 1..N : read[n] = Turn(n, read[n - 1])
  BY <1>5
<1> QED
  BY <1>1, <1>6 DEF Turn, GetTurn, GetsBy

-----------------------------------------------------------------------------
(* Sequences and concatenations.                                          *)

\* A sequence over a set is one over a larger set.
LEMMA SeqGrows ==
    ASSUME NEW S, NEW T, S \subseteq T, NEW s \in Seq(S)
    PROVE  s \in Seq(T)
OBVIOUS

\* Sequences of the same items are the same.
LEMMA SameSeq ==
    ASSUME NEW S, NEW s \in Seq(S), NEW t \in Seq(S), Len(s) = Len(t),
           \A i \in 1..Len(s) : s[i] = t[i]
    PROVE  s = t
OBVIOUS

\* A function on the first n numbers is a sequence.
LEMMA FunctionIsSeq ==
    ASSUME NEW S, NEW n \in Nat, NEW f \in [1..n -> S]
    PROVE  f \in Seq(S) /\ Len(f) = n
OBVIOUS

\* One item more.
LEMMA AppendNext ==
    ASSUME NEW f, NEW n \in Nat \ {0}
    PROVE  Append([i \in 1..n - 1 |-> f[i]], f[n]) = [i \in 1..n |-> f[i]]
<1> DEFINE S == {f[i] : i \in 1..n}
           s == [i \in 1..n - 1 |-> f[i]]
           t == [i \in 1..n |-> f[i]]
<1>1. s \in Seq(S) /\ Len(s) = n - 1 
  <2>1. n - 1 \in Nat /\ s \in [1..n - 1 -> S]
    OBVIOUS
  <2> HIDE DEF S, s
  <2> QED
    BY <2>1, FunctionIsSeq
<1>2. t \in Seq(S) /\ Len(t) = n
  <2>1. n \in Nat /\ t \in [1..n -> S]
    OBVIOUS
  <2> HIDE DEF S, t
  <2> QED
    BY <2>1, FunctionIsSeq
<1>3. \A i \in 1..n - 1 : s[i] = f[i]
  OBVIOUS
<1>4. \A i \in 1..n : t[i] = f[i]
  OBVIOUS
<1>5. f[n] \in S
  OBVIOUS
<1> HIDE DEF S, s, t
<1>6. /\ Append(s, f[n]) \in Seq(S) /\ Len(Append(s, f[n])) = n
      /\ \A i \in 1..n : Append(s, f[n])[i] = t[i]
  BY <1>1, <1>3, <1>4, <1>5
<1>7. Append(s, f[n]) = t
  BY <1>2, <1>6, SameSeq
<1> QED
  BY <1>7 DEF s, t

\* The concatenations of the first parts.
FlatBy(r, N, p) == /\ r[0] = << >> /\ FlattenSeq(p) = r[N]
                   /\ \A n \in 1..N : r[n] = r[n - 1] \o p[n]
AllSeqs(r, N, S) == \A n \in 0..N : r[n] \in Seq(S)

\* The recursive function of FlattenSeq is there, and makes sequences.
LEMMA FlattenTurns ==
    ASSUME NEW S, NEW N \in Nat, NEW p \in [1..N -> Seq(S)]
    PROVE  \E r : FlatBy(r, N, p) /\ AllSeqs(r, N, S)
<1>1. p \in Seq(Seq(S)) /\ Len(p) = N
  BY FunctionIsSeq
<1>0. << >> \in Seq(S)
  OBVIOUS
<1>2. CASE N = 0
  <2>1. p = << >>
    BY <1>1, <1>2
  <2>2. FlattenSeq(p) = << >>
    BY <1>1, <1>2, <2>1 DEF FlattenSeq
  <2> DEFINE r == [n \in 0..0 |-> << >>]
  <2>3. r[0] = << >>
    OBVIOUS
  <2> HIDE DEF r
  <2>4. FlattenSeq(p) = r[N]
    BY <1>2, <2>2, <2>3
  <2>5. \A n \in 1..N : r[n] = r[n - 1] \o p[n]
    BY <1>2
  <2>6. \A n \in 0..N : r[n] \in Seq(S)
    <3>1. r[0] \in Seq(S)
      BY <1>0, <2>3, Zenon
    <3>2. \A n \in 0..N : n = 0
      BY <1>2
    <3> QED
      BY <3>1, <3>2
  <2> QED
    BY <2>3, <2>4, <2>5, <2>6 DEF FlatBy, AllSeqs
<1>3. CASE N # 0
  <2> DEFINE Turn(n, s) == s \o p[n]
             Is(f, m) == f = [n \in 1..m |-> IF n = 1 THEN p[n] ELSE Turn(n, f[n - 1])]
             T == {m \in Nat : m > 0 => \E f : Is(f, m)}
             flat == CHOOSE f : Is(f, N)
  <2>1. FlattenSeq(p) = flat[N]
    BY <1>1, <1>3 DEF FlattenSeq
  <2> HIDE DEF Turn
  <2>2. 0 \in T
    OBVIOUS
  <2>3. ASSUME NEW m \in 1..N, m - 1 \in T PROVE m \in T
    <3>1. CASE m = 1
      <4> DEFINE g == [n \in 1..1 |-> p[1]]
      <4>1. Is(g, 1)
        <5>1. ASSUME NEW n \in 1..1 PROVE g[n] = IF n = 1 THEN p[n] ELSE Turn(n, g[n - 1])
          <6>1. n = 1
            OBVIOUS
          <6> QED
            BY <6>1
        <5> QED
          BY <5>1
      <4> HIDE DEF Is, g
      <4> QED
        BY <3>1, <4>1
    <3>2. CASE m # 1
      <4>1. PICK f : Is(f, m - 1)
        <5> HIDE DEF Is
        <5>1. m - 1 \in Nat /\ m - 1 > 0
          BY <3>2
        <5> QED
          BY <2>3, <5>1
      <4> DEFINE g == [n \in 1..m |-> IF n = m THEN Turn(n, f[n - 1]) ELSE f[n]]
      <4>2. ASSUME NEW n \in 1..m
            PROVE  g[n] = IF n = 1 THEN p[n] ELSE Turn(n, g[n - 1])
        <5>1. CASE n = m
          <6>1. n - 1 \in 1..m /\ n - 1 # m /\ n # 1
            BY <3>2, <5>1
          <6>2. g[n] = Turn(n, f[n - 1]) /\ g[n - 1] = f[n - 1]
            BY <5>1, <6>1
          <6> QED
            BY <6>1, <6>2
        <5>2. CASE n # m
          <6>1. n \in 1..m - 1 /\ g[n] = f[n]
            BY <5>2
          <6>2. f[n] = IF n = 1 THEN p[n] ELSE Turn(n, f[n - 1])
            BY <4>1, <6>1
          <6>3. n # 1 => g[n - 1] = f[n - 1]
            BY <5>2
          <6> HIDE DEF g
          <6> QED
            BY <6>1, <6>2, <6>3
        <5> QED
          BY <5>1, <5>2
      <4>3. Is(g, m)
        BY <4>2
      <4> HIDE DEF Is, g
      <4> QED
        BY <4>3
    <3> QED
      BY <3>1, <3>2
  <2>4. \E f : Is(f, N)
    <3> HIDE DEF Is
    <3>1. 0..N \subseteq T
      BY <2>2, <2>3, CountTo
    <3> QED
      BY <1>3, <3>1
  <2>5. Is(flat, N)
    <3> HIDE DEF Is
    <3> QED
      BY <2>4
  <2> HIDE DEF flat
  <2>6. ASSUME NEW n \in 1..N PROVE flat[n] = IF n = 1 THEN p[n] ELSE Turn(n, flat[n - 1])
    BY <2>5
  <2> DEFINE r == [n \in 0..N |-> IF n = 0 THEN << >> ELSE flat[n]]
  <2>7. r[0] = << >> /\ FlattenSeq(p) = r[N]
    BY <1>3, <2>1
  <2>8. ASSUME NEW n \in 1..N PROVE r[n] = r[n - 1] \o p[n]
    <3>0. r[n] = flat[n] /\ (n # 1 => r[n - 1] = flat[n - 1])
      OBVIOUS
    <3>1. CASE n = 1
      <4>1. p[1] \in Seq(S)
        BY <3>1
      <4>2. << >> \o p[1] = p[1]
        BY <4>1
      <4>3. r[1] = p[1]
        BY <2>6, <3>0, <3>1
      <4>4. n - 1 = 0
        BY <3>1
      <4> HIDE DEF r
      <4> QED
        BY <2>7, <3>1, <4>2, <4>3, <4>4
    <3>2. CASE n # 1
      <4>1. flat[n] = Turn(n, flat[n - 1])
        BY <2>6, <3>2
      <4> HIDE DEF r
      <4> QED
        BY <3>0, <3>2, <4>1 DEF Turn
    <3> QED
      BY <3>1, <3>2
  <2> HIDE DEF r
  <2>9. 0..N \subseteq {n \in 0..N : r[n] \in Seq(S)}
    <3> DEFINE V == {n \in 0..N : r[n] \in Seq(S)}
    <3>1. 0 \in V
      <4>1. r[0] \in Seq(S)
        BY <1>0, <2>7, Zenon
      <4> QED
        BY <4>1
    <3>2. ASSUME NEW n \in 1..N, n - 1 \in V PROVE n \in V
      <4>1. p[n] \in Seq(S) /\ r[n - 1] \in Seq(S)
        BY <3>2
      <4>2. r[n - 1] \o p[n] \in Seq(S)
        BY <4>1
      <4>3. r[n] \in Seq(S)
        <5>1. r[n] = r[n - 1] \o p[n]
          BY <2>8
        <5> QED
          BY <4>2, <5>1, Zenon
      <4> QED
        BY <4>3
    <3> HIDE DEF V
    <3>3. 0..N \subseteq V
      BY <3>1, <3>2, CountTo
    <3> QED
      BY <3>3 DEF V
  <2>10. \A n \in 0..N : r[n] \in Seq(S)
    BY <2>9
  <2> HIDE DEF Is, T
  <2> QED
    BY <2>7, <2>8, <2>10 DEF FlatBy, AllSeqs
<1> QED
  BY <1>2, <1>3

\* One part more of a concatenation.
LEMMA FlatTurn ==
    ASSUME NEW N \in Nat, NEW r, NEW p \in [1..N -> Seq(Cell)],
           FlatBy(r, N, p), AllSeqs(r, N, Cell), NEW n \in 1..N
    PROVE  r[n] = r[n - 1] \o p[n] /\ r[n - 1] \in Seq(Cell) /\ p[n] \in Seq(Cell)
<1>1. r[n] = r[n - 1] \o p[n]
  BY Zenon DEF FlatBy
<1>2. n - 1 \in 0..N
  OBVIOUS
<1>3. r[n - 1] \in Seq(Cell)
  BY <1>2, Zenon DEF AllSeqs
<1>4. p[n] \in Seq(Cell)
  OBVIOUS
<1> QED
  BY <1>1, <1>3, <1>4

\* Every part is in the message, behind those before it.
EachHeld(r, d, off, N, p) ==
    \A n \in 1..N : /\ Holds(d, off + Len(r[n - 1]), p[n])
                    /\ Len(r[n]) = Len(r[n - 1]) + Len(p[n])

\* What a message holds of a concatenation it holds of every part.
LEMMA HoldsAll ==
    ASSUME NEW d \in Seq(Cell), NEW off \in Nat, NEW N \in Nat, NEW r,
           NEW p \in [1..N -> Seq(Cell)],
           FlatBy(r, N, p), AllSeqs(r, N, Cell),
           Holds(d, off, r[N])
    PROVE  EachHeld(r, d, off, N, p)
<1> DEFINE T == {k \in 0..N : Holds(d, off, r[N - k])}
<1>1. 0 \in T
  OBVIOUS
<1>2. ASSUME NEW n \in 1..N, Holds(d, off, r[n])
      PROVE  /\ Holds(d, off, r[n - 1]) /\ Holds(d, off + Len(r[n - 1]), p[n])
  <2>1. r[n] = r[n - 1] \o p[n] /\ r[n - 1] \in Seq(Cell) /\ p[n] \in Seq(Cell)
    BY FlatTurn
  <2> QED
    BY <1>2, <2>1, HoldsParts
<1>3. ASSUME NEW k \in 1..N, k - 1 \in T PROVE k \in T
  <2>1. N - (k - 1) \in 1..N /\ (N - (k - 1)) - 1 = N - k
    OBVIOUS
  <2> QED
    BY <1>2, <1>3, <2>1
<1> HIDE DEF T
<1>4. 0..N \subseteq T
  BY <1>1, <1>3, CountTo
<1>5. ASSUME NEW n \in 1..N PROVE Holds(d, off, r[n])
  <2>1. N - n \in 0..N /\ N - (N - n) = n
    OBVIOUS
  <2> QED
    BY <1>4, <2>1 DEF T
<1>6. ASSUME NEW n \in 1..N PROVE Len(r[n]) = Len(r[n - 1]) + Len(p[n])
  <2>1. r[n] = r[n - 1] \o p[n] /\ r[n - 1] \in Seq(Cell) /\ p[n] \in Seq(Cell)
    BY FlatTurn
  <2> QED
    BY <2>1
<1> QED
  BY <1>2, <1>5, <1>6 DEF EachHeld

-----------------------------------------------------------------------------
(* Integers on the wire.                                                  *)

\* A byte is a cell and a number.
LEMMA CellsOfBytes == Byte \subseteq Cell /\ Byte \subseteq Nat
<1>1. Byte \subseteq Nat
  BY Widths DEF Byte
<1> QED
  BY <1>1 DEF Cell

\* One sequence behind another is a sequence.
LEMMA Joined ==
    ASSUME NEW S, NEW p \in Seq(S), NEW q \in Seq(S)
    PROVE  p \o q \in Seq(S) /\ Len(p \o q) = Len(p) + Len(q)
OBVIOUS

\* A message holds what its parts hold.
LEMMA HoldsBoth ==
    ASSUME NEW d \in Seq(Cell), NEW off \in Nat,
           NEW p \in Seq(Cell), Holds(d, off, p),
           NEW q \in Seq(Cell), Holds(d, off + Len(p), q)
    PROVE  Holds(d, off, p \o q)
BY HoldsParts

\* Four bytes are two halves.
LEMMA FourSum ==
    ASSUME NEW x \in Nat, NEW y \in Nat, NEW z \in Nat, NEW w \in Nat
    PROVE  x + B * y + Two16 * z + Two16 * B * w = (x + B * y) + Two16 * (z + B * w)
<1>1. B * y \in Nat /\ B * w \in Nat /\ Two16 * z \in Nat
  BY Widths
<1>2. Two16 * (z + B * w) = Two16 * z + Two16 * (B * w)
  BY <1>1, Widths
<1>3. Two16 * (B * w) = Two16 * B * w
  BY Widths
<1>4. Two16 * B * w \in Nat
  BY Widths
<1> QED
  BY <1>1, <1>2, <1>3, <1>4

\* What the server writes for a number of two bytes.
LEMMA TwoIsBytes ==
    ASSUME NEW v \in 0..Two16 - 1
    PROVE  Two(v) \in Seq(Byte) /\ Len(Two(v)) = 2
<1>1. v % B \in Byte /\ v \div B \in Byte
  BY TwoBytes
<1> QED
  BY <1>1 DEF Two

\* What it writes for one of four.
LEMMA FourIsBytes ==
    ASSUME NEW v \in U32
    PROVE  Four(v) \in Seq(Byte) /\ Len(Four(v)) = 4
<1>1. v % Two16 \in 0..Two16 - 1 /\ v \div Two16 \in 0..Two16 - 1
  BY FourBytes
<1>2. /\ Two(v % Two16) \in Seq(Byte) /\ Len(Two(v % Two16)) = 2
      /\ Two(v \div Two16) \in Seq(Byte) /\ Len(Two(v \div Two16)) = 2
  BY <1>1, TwoIsBytes
<1>3. 2 + 2 = 4
  OBVIOUS
<1> QED
  BY <1>2, <1>3, Joined DEF Four

\* What it writes for one of eight.
LEMMA EightIsBytes ==
    ASSUME NEW v \in U64
    PROVE  Eight(v) \in Seq(Byte) /\ Len(Eight(v)) = 8
<1>1. v % Two32 \in U32 /\ v \div Two32 \in U32
  BY EightBytes
<1>2. /\ Four(v % Two32) \in Seq(Byte) /\ Len(Four(v % Two32)) = 4
      /\ Four(v \div Two32) \in Seq(Byte) /\ Len(Four(v \div Two32)) = 4
  BY <1>1, FourIsBytes
<1>3. 4 + 4 = 8
  OBVIOUS
<1> QED
  BY <1>2, <1>3, Joined, ZenonT(40) DEF Eight

\* A sequence of bytes is one of cells.
LEMMA BytesAreCells ==
    ASSUME NEW s \in Seq(Byte)
    PROVE  s \in Seq(Cell)
BY CellsOfBytes, SeqGrows

\* A number of two bytes is read as it was written, by driver and server.
LEMMA TwoHeld ==
    ASSUME NEW d \in Seq(Cell), NEW off \in Nat, NEW v \in 0..Two16 - 1,
           Holds(d, off, Two(v))
    PROVE  /\ off + 2 <= Len(d) /\ TwoAt(d, off) = v /\ U16At(d, off) = v
           /\ d[off + 1] \in Nat /\ d[off + 2] \in Nat
<1>1. off + 2 <= Len(d) /\ d[off + 1] = v % B /\ d[off + 2] = v \div B
  <2>1. Holds(d, off, <<v % B, v \div B>>)
    BY DEF Two
  <2> QED
    BY <2>1, PairHeld
<1>2. v % B \in Nat /\ v \div B \in Nat /\ (v % B) + B * (v \div B) = v
  BY TwoBytes, CellsOfBytes
<1> QED
  BY <1>1, <1>2 DEF TwoAt, U16At

\* So is one of four bytes.
LEMMA FourHeldAs ==
    ASSUME NEW d \in Seq(Cell), NEW off \in Nat, NEW v \in U32,
           Holds(d, off, Four(v))
    PROVE  off + 4 <= Len(d) /\ FourAt(d, off) = v /\ U32At(d, off) = v
<1> DEFINE lo == v % Two16
           hi == v \div Two16
<1>1. lo \in 0..Two16 - 1 /\ hi \in 0..Two16 - 1 /\ v = lo + Two16 * hi
  BY FourBytes
<1>2. Four(v) = Two(lo) \o Two(hi)
  BY DEF Four
<1> HIDE DEF lo, hi
<1>3. /\ Two(lo) \in Seq(Cell) /\ Len(Two(lo)) = 2
      /\ Two(hi) \in Seq(Cell) /\ Len(Two(hi)) = 2
  BY <1>1, TwoIsBytes, BytesAreCells
<1>4. Holds(d, off, Two(lo)) /\ Holds(d, off + 2, Two(hi))
  BY <1>2, <1>3, HoldsParts
<1>5. /\ off + 2 <= Len(d) /\ TwoAt(d, off) = lo /\ U16At(d, off) = lo
      /\ d[off + 1] \in Nat /\ d[off + 2] \in Nat
  BY <1>1, <1>4, TwoHeld
<1>6. /\ (off + 2) + 2 <= Len(d) /\ TwoAt(d, off + 2) = hi
      /\ d[(off + 2) + 1] \in Nat /\ d[(off + 2) + 2] \in Nat
  <2>1. off + 2 \in Nat
    OBVIOUS
  <2> QED
    BY <1>1, <1>4, <2>1, TwoHeld
<1>7. off + 4 <= Len(d)
  BY <1>6
<1>8. FourAt(d, off) = v
  BY <1>1, <1>5, <1>6 DEF FourAt
<1>9. U32At(d, off) = v
  <2>1. (off + 2) + 1 = off + 3 /\ (off + 2) + 2 = off + 4
    OBVIOUS
  <2>2. hi = d[off + 3] + B * d[off + 4] /\ d[off + 3] \in Nat /\ d[off + 4] \in Nat
    BY <1>6, <2>1 DEF TwoAt
  <2>3. lo = d[off + 1] + B * d[off + 2]
    BY <1>5 DEF TwoAt
  <2>4. U32At(d, off) = lo + Two16 * hi
    BY <1>5, <2>2, <2>3, FourSum, SMTT(40) DEF U32At
  <2> QED
    BY <1>1, <2>4
<1> QED
  BY <1>7, <1>8, <1>9

\* And one of eight.
LEMMA EightHeldAs ==
    ASSUME NEW d \in Seq(Cell), NEW off \in Nat, NEW v \in U64,
           Holds(d, off, Eight(v))
    PROVE  /\ off + 8 <= Len(d) /\ EightAt(d, off) = v
           /\ GetU64(d, off) = Got(off + 8, v)
<1> DEFINE lo == v % Two32
           hi == v \div Two32
<1>1. lo \in U32 /\ hi \in U32 /\ v = lo + Two32 * hi
  BY EightBytes
<1>2. Eight(v) = Four(lo) \o Four(hi)
  BY DEF Eight
<1> HIDE DEF lo, hi
<1>3. /\ Four(lo) \in Seq(Cell) /\ Len(Four(lo)) = 4
      /\ Four(hi) \in Seq(Cell) /\ Len(Four(hi)) = 4
  BY <1>1, FourIsBytes, BytesAreCells
<1>4. Holds(d, off, Four(lo)) /\ Holds(d, off + 4, Four(hi))
  BY <1>2, <1>3, HoldsParts
<1>5. off + 4 <= Len(d) /\ FourAt(d, off) = lo /\ U32At(d, off) = lo
  BY <1>1, <1>4, FourHeldAs
<1>6. /\ (off + 4) + 4 <= Len(d) /\ FourAt(d, off + 4) = hi
      /\ U32At(d, off + 4) = hi
  <2>1. off + 4 \in Nat
    OBVIOUS
  <2> QED
    BY <1>1, <1>4, <2>1, FourHeldAs
<1>7. GetU32(d, off) = Got(off + 4, lo) /\ GetU32(d, off + 4) = Got(off + 8, hi)
  BY <1>5, <1>6 DEF GetU32
<1>8. EightAt(d, off) = v
  BY <1>1, <1>5, <1>6 DEF EightAt
<1> QED
  BY <1>1, <1>6, <1>7, <1>8 DEF GetU64, Got

\* A part of a message that is read as it is.
LEMMA BytesHeld ==
    ASSUME NEW d \in Seq(Cell), NEW off \in Nat, NEW v \in Seq(Cell),
           Holds(d, off, v)
    PROVE  off + Len(v) <= Len(d) /\ SubSeq(d, off + 1, off + Len(v)) = v
<1> DEFINE t == SubSeq(d, off + 1, off + Len(v))
<1>1. Len(v) \in Nat /\ Len(d) \in Nat /\ off + Len(v) <= Len(d)
  BY DEF Holds
<1>2. t \in Seq(Cell) /\ Len(t) = Len(v)
  BY <1>1
<1>3. ASSUME NEW i \in 1..Len(v) PROVE t[i] = v[i]
  <2>1. t[i] = d[off + i]
    BY <1>1
  <2> QED
    BY <2>1 DEF Holds
<1> HIDE DEF t
<1>4. t = v
  BY <1>2, <1>3, SameSeq
<1> QED
  BY <1>1, <1>4 DEF t

-----------------------------------------------------------------------------
(* Texts and qids.                                                        *)

\* Three sequences.
LEMMA JoinedThree ==
    ASSUME NEW S, NEW p \in Seq(S), NEW q \in Seq(S), NEW r \in Seq(S)
    PROVE  p \o q \o r \in Seq(S) /\ Len(p \o q \o r) = Len(p) + Len(q) + Len(r)
<1> DEFINE t == p \o q
<1>1. t \in Seq(S) /\ Len(t) = Len(p) + Len(q)
  BY Joined
<1> HIDE DEF t
<1>2. t \o r \in Seq(S) /\ Len(t \o r) = Len(t) + Len(r)
  BY <1>1, Joined
<1> QED
  BY <1>1, <1>2 DEF t

\* Three parts of a message.
LEMMA HoldsThree ==
    ASSUME NEW S, NEW d \in Seq(S), NEW off \in Nat,
           NEW p \in Seq(S), NEW q \in Seq(S), NEW r \in Seq(S)
    PROVE  Holds(d, off, p \o q \o r) <=>
             /\ Holds(d, off, p) /\ Holds(d, off + Len(p), q)
             /\ Holds(d, off + (Len(p) + Len(q)), r)
<1> DEFINE t == p \o q
<1>1. t \in Seq(S) /\ Len(t) = Len(p) + Len(q)
  BY Joined
<1>2. Holds(d, off, t) <=> Holds(d, off, p) /\ Holds(d, off + Len(p), q)
  BY HoldsParts
<1> HIDE DEF t
<1>3. Holds(d, off, t \o r) <=> Holds(d, off, t) /\ Holds(d, off + Len(t), r)
  BY <1>1, HoldsParts
<1> QED
  BY <1>1, <1>2, <1>3 DEF t

\* A byte alone.
LEMMA OneIsByte ==
    ASSUME NEW v \in Byte
    PROVE  <<v>> \in Seq(Byte) /\ Len(<<v>>) = 1
OBVIOUS

\* What the Gets of the decoder return of what is in the message.
LEMMA GotHeld ==
    ASSUME NEW d \in Seq(Cell), NEW off \in Nat
    PROVE  /\ \A v \in Byte : Holds(d, off, <<v>>) => GetU8(d, off) = Got(off + 1, v)
           /\ \A v \in 0..Two16 - 1 : Holds(d, off, Two(v)) => GetU16(d, off) = Got(off + 2, v)
           /\ \A v \in U32 : Holds(d, off, Four(v)) => GetU32(d, off) = Got(off + 4, v)
           /\ \A v \in U64 : Holds(d, off, Eight(v)) => GetU64(d, off) = Got(off + 8, v)
           /\ \A v \in Seq(Byte) : Holds(d, off, v) => Take(d, off, Len(v)) = Got(off + Len(v), v)
<1>0. Len(d) \in Nat
  OBVIOUS
<1>1. ASSUME NEW v \in Byte, Holds(d, off, <<v>>) PROVE GetU8(d, off) = Got(off + 1, v)
  <2>1. off + 1 <= Len(d) /\ d[off + 1] = v
    BY <1>1, OneHeld
  <2> QED
    BY <1>0, <2>1 DEF GetU8
<1>2. ASSUME NEW v \in 0..Two16 - 1, Holds(d, off, Two(v))
      PROVE  GetU16(d, off) = Got(off + 2, v)
  <2>1. off + 2 <= Len(d) /\ U16At(d, off) = v
    BY <1>2, TwoHeld
  <2> QED
    BY <1>0, <2>1 DEF GetU16
<1>3. ASSUME NEW v \in U32, Holds(d, off, Four(v)) PROVE GetU32(d, off) = Got(off + 4, v)
  <2>1. off + 4 <= Len(d) /\ U32At(d, off) = v
    BY <1>3, FourHeldAs
  <2> QED
    BY <1>0, <2>1 DEF GetU32
<1>4. ASSUME NEW v \in U64, Holds(d, off, Eight(v)) PROVE GetU64(d, off) = Got(off + 8, v)
  BY <1>4, EightHeldAs
<1>5. ASSUME NEW v \in Seq(Byte), Holds(d, off, v)
      PROVE  Take(d, off, Len(v)) = Got(off + Len(v), v)
  <2>1. Len(v) \in Nat /\ v \in Seq(Cell)
    BY BytesAreCells
  <2>2. off + Len(v) <= Len(d) /\ SubSeq(d, off + 1, off + Len(v)) = v
    BY <1>5, <2>1, BytesHeld
  <2>3. ~ (off + Len(v) > Len(d))
    BY <1>0, <2>1, <2>2
  <2> QED
    BY <2>2, <2>3, Zenon DEF Take
<1> QED
  BY <1>1, <1>2, <1>3, <1>4, <1>5

\* What is written for a text.
LEMMA TextIsBytes ==
    ASSUME NEW v, IsText(v)
    PROVE  /\ v \in Seq(Byte) /\ Len(v) \in 0..Two16 - 1
           /\ Two(Len(v)) \o v \in Seq(Byte) /\ Len(Two(Len(v)) \o v) = 2 + Len(v)
<1>1. v \in Seq(Byte) /\ Len(v) \in 0..Two16 - 1
  BY Widths DEF IsText
<1>2. Two(Len(v)) \in Seq(Byte) /\ Len(Two(Len(v))) = 2
  BY <1>1, TwoIsBytes
<1> QED
  BY <1>1, <1>2, Joined

\* A text is read as it was written, by GetString and by the server.
LEMMA TextHeld ==
    ASSUME NEW d \in Seq(Cell), NEW off \in Nat, NEW v, IsText(v),
           Holds(d, off, Two(Len(v)) \o v)
    PROVE  /\ GetString(d, off) = Got(off + (2 + Len(v)), v)
           /\ Text(d, off) = Got(off + (2 + Len(v)), v)
<1>1. v \in Seq(Byte) /\ Len(v) \in 0..Two16 - 1
  BY TextIsBytes
<1>2. Two(Len(v)) \in Seq(Byte) /\ Len(Two(Len(v))) = 2
  BY <1>1, TwoIsBytes
<1>3. v \in Seq(Cell) /\ Two(Len(v)) \in Seq(Cell)
  BY <1>1, <1>2, BytesAreCells
<1>4. Holds(d, off, Two(Len(v))) /\ Holds(d, off + 2, v)
  BY <1>2, <1>3, HoldsParts
<1>5. GetU16(d, off) = Got(off + 2, Len(v)) /\ TwoAt(d, off) = Len(v)
  BY <1>1, <1>4, GotHeld, TwoHeld
<1>6. off + 2 \in Nat /\ Len(v) \in Nat /\ (off + 2) + Len(v) = off + (2 + Len(v))
  BY <1>1
<1>7. Take(d, off + 2, Len(v)) = Got((off + 2) + Len(v), v)
  BY <1>1, <1>4, <1>6, GotHeld
<1>8. SubSeq(d, (off + 2) + 1, (off + 2) + Len(v)) = v
  BY <1>3, <1>4, <1>6, BytesHeld
<1>9. (off + 2) + 1 = off + 3
  OBVIOUS
<1>10. GetString(d, off) = Got(off + (2 + Len(v)), v)
  BY <1>5, <1>6, <1>7 DEF GetString, Got
<1>11. Text(d, off) = Got(off + (2 + Len(v)), v)
  BY <1>5, <1>6, <1>8, <1>9 DEF Text
<1> QED
  BY <1>10, <1>11

\* A qid is a byte, an integer of four bytes and one of eight.
LEMMA QidParts ==
    ASSUME NEW v \in Qid
    PROVE  /\ v[1] \in Byte /\ v[2] \in U32 /\ v[3] \in U64 /\ v = <<v[1], v[2], v[3]>>
           /\ Written("qid", v) = <<v[1]>> \o Four(v[2]) \o Eight(v[3])
           /\ Written("qid", v) \in Seq(Byte) /\ Len(Written("qid", v)) = 13
           /\ <<v[1]>> \in Seq(Cell) /\ Len(<<v[1]>>) = 1
           /\ Four(v[2]) \in Seq(Cell) /\ Len(Four(v[2])) = 4
           /\ Eight(v[3]) \in Seq(Cell) /\ Len(Eight(v[3])) = 8
           /\ <<v[1]>> \o Four(v[2]) \in Seq(Cell) /\ Len(<<v[1]>> \o Four(v[2])) = 5
<1>1. v[1] \in Byte /\ v[2] \in U32 /\ v[3] \in U64 /\ v = <<v[1], v[2], v[3]>>
  BY DEF Qid
<1>2. Written("qid", v) = <<v[1]>> \o Four(v[2]) \o Eight(v[3])
  BY DEF Written
<1>3. /\ <<v[1]>> \in Seq(Byte) /\ Len(<<v[1]>>) = 1
      /\ Four(v[2]) \in Seq(Byte) /\ Len(Four(v[2])) = 4
      /\ Eight(v[3]) \in Seq(Byte) /\ Len(Eight(v[3])) = 8
  BY <1>1, OneIsByte, FourIsBytes, EightIsBytes
<1>4. /\ <<v[1]>> \o Four(v[2]) \in Seq(Byte) /\ Len(<<v[1]>> \o Four(v[2])) = 1 + 4
  BY <1>3, Joined, ZenonT(40)
<1>5. /\ <<v[1]>> \o Four(v[2]) \o Eight(v[3]) \in Seq(Byte)
      /\ Len(<<v[1]>> \o Four(v[2]) \o Eight(v[3])) = (1 + 4) + 8
  <2> DEFINE p == <<v[1]>>
             q == Four(v[2])
             r == Eight(v[3])
  <2>1. /\ p \in Seq(Byte) /\ Len(p) = 1 /\ q \in Seq(Byte) /\ Len(q) = 4
        /\ r \in Seq(Byte) /\ Len(r) = 8
    BY <1>3
  <2> HIDE DEF p, q, r
  <2>2. p \o q \o r \in Seq(Byte) /\ Len(p \o q \o r) = (1 + 4) + 8
    <3>1. \A x, y, z \in Seq(Byte) : /\ x \o y \o z \in Seq(Byte)
                                     /\ Len(x \o y \o z) = Len(x) + Len(y) + Len(z)
      BY JoinedThree
    <3>2. p \o q \o r \in Seq(Byte) /\ Len(p \o q \o r) = Len(p) + Len(q) + Len(r)
      BY <2>1, <3>1, Zenon
    <3> QED
      BY <2>1, <3>2, Zenon
  <2> QED
    BY <2>2 DEF p, q, r
<1>6. 1 + 4 = 5 /\ (1 + 4) + 8 = 13
  OBVIOUS
<1> QED
  BY <1>1, <1>2, <1>3, <1>4, <1>5, <1>6, BytesAreCells

\* GetQid returns the qid that was written.
LEMMA QidHeld ==
    ASSUME NEW d \in Seq(Cell), NEW off \in Nat, NEW v \in Qid,
           Holds(d, off, Written("qid", v))
    PROVE  GetQid(d, off) = Got(off + 13, v)
<1>1. /\ Holds(d, off, <<v[1]>>) /\ Holds(d, off + 1, Four(v[2]))
      /\ Holds(d, off + 5, Eight(v[3]))
  <2> DEFINE p == <<v[1]>>
             q == Four(v[2])
             r == Eight(v[3])
  <2>1. /\ p \in Seq(Cell) /\ Len(p) = 1 /\ q \in Seq(Cell) /\ Len(q) = 4
        /\ r \in Seq(Cell)
    BY QidParts
  <2>2. Holds(d, off, p \o q \o r)
    BY QidParts
  <2> HIDE DEF p, q, r
  <2>3. Holds(d, off, p) /\ Holds(d, off + 1, q) /\ Holds(d, off + (1 + 4), r)
    BY <2>1, <2>2, HoldsThree
  <2>4. 1 + 4 = 5
    OBVIOUS
  <2> QED
    BY <2>3, <2>4 DEF p, q, r
<1>2. v[1] \in Byte /\ v[2] \in U32 /\ v[3] \in U64 /\ v = <<v[1], v[2], v[3]>>
  BY QidParts
<1>3. /\ off + 1 \in Nat /\ off + 5 \in Nat
      /\ (off + 1) + 4 = off + 5 /\ (off + 5) + 8 = off + 13
  OBVIOUS
<1>4. GetU8(d, off) = Got(off + 1, v[1])
  BY <1>1, <1>2, GotHeld
<1>5. GetU32(d, off + 1) = Got(off + 5, v[2])
  BY <1>1, <1>2, <1>3, GotHeld
<1>6. GetU64(d, off + 5) = Got(off + 13, v[3])
  BY <1>1, <1>2, <1>3, GotHeld
<1> QED
  BY <1>2, <1>4, <1>5, <1>6, SMTT(40) DEF GetQid, Got

-----------------------------------------------------------------------------
(* Directory entries and fields.                                          *)

\* An entry is a qid, an offset, a type and a name.
LEMMA EntryParts ==
    ASSUME NEW v, Fits("entry", v)
    PROVE  /\ v[1] \in Qid /\ v[2] \in U64 /\ v[3] \in Byte /\ IsText(v[4])
           /\ v = <<v[1], v[2], v[3], v[4]>>
           /\ Written("entry", v) = Written("qid", v[1]) \o Eight(v[2]) \o <<v[3]>>
                                        \o Two(Len(v[4])) \o v[4]
BY DEF Fits, Written

\* Five sequences.
LEMMA JoinedFive ==
    ASSUME NEW p \in Seq(Byte), NEW q \in Seq(Byte), NEW r \in Seq(Byte),
           NEW s \in Seq(Byte), NEW t \in Seq(Byte)
    PROVE  /\ p \o q \o r \o s \o t \in Seq(Byte)
           /\ Len(p \o q \o r \o s \o t) = Len(p) + Len(q) + Len(r) + Len(s) + Len(t)
<1> DEFINE u == p \o q \o r
<1>1. u \in Seq(Byte) /\ Len(u) = Len(p) + Len(q) + Len(r)
  BY JoinedThree
<1> HIDE DEF u
<1> DEFINE w == u \o s
<1>2. w \in Seq(Byte) /\ Len(w) = Len(u) + Len(s)
  BY <1>1, Joined
<1> HIDE DEF w
<1>3. w \o t \in Seq(Byte) /\ Len(w \o t) = Len(w) + Len(t)
  BY <1>2, Joined
<1> QED
  BY <1>1, <1>2, <1>3 DEF u, w

\* Five parts of a message.
LEMMA HoldsFive ==
    ASSUME NEW d \in Seq(Cell), NEW off \in Nat,
           NEW p \in Seq(Cell), NEW q \in Seq(Cell), NEW r \in Seq(Cell),
           NEW s \in Seq(Cell), NEW t \in Seq(Cell)
    PROVE  Holds(d, off, p \o q \o r \o s \o t) <=>
             /\ Holds(d, off, p) /\ Holds(d, off + Len(p), q)
             /\ Holds(d, off + (Len(p) + Len(q)), r)
             /\ Holds(d, off + (Len(p) + Len(q) + Len(r)), s)
             /\ Holds(d, off + (Len(p) + Len(q) + Len(r) + Len(s)), t)
<1> DEFINE u == p \o q \o r
<1>1. u \in Seq(Cell) /\ Len(u) = Len(p) + Len(q) + Len(r)
  BY JoinedThree
<1>2. Holds(d, off, u) <=>
             /\ Holds(d, off, p) /\ Holds(d, off + Len(p), q)
             /\ Holds(d, off + (Len(p) + Len(q)), r)
  BY HoldsThree
<1> HIDE DEF u
<1>3. Holds(d, off, u \o s \o t) <=>
             /\ Holds(d, off, u) /\ Holds(d, off + Len(u), s)
             /\ Holds(d, off + (Len(u) + Len(s)), t)
  BY <1>1, HoldsThree
<1> QED
  BY <1>1, <1>2, <1>3 DEF u

\* What is written for the fields of an entry.
LEMMA EntryCells ==
    ASSUME NEW v, Fits("entry", v)
    PROVE  /\ Written("qid", v[1]) \in Seq(Byte) /\ Len(Written("qid", v[1])) = 13
           /\ Eight(v[2]) \in Seq(Byte) /\ Len(Eight(v[2])) = 8
           /\ <<v[3]>> \in Seq(Byte) /\ Len(<<v[3]>>) = 1
           /\ Two(Len(v[4])) \in Seq(Byte) /\ Len(Two(Len(v[4]))) = 2
           /\ v[4] \in Seq(Byte) /\ Len(v[4]) \in Nat
<1>1. v[1] \in Qid /\ v[2] \in U64 /\ v[3] \in Byte /\ IsText(v[4])
  BY EntryParts
<1>2. Written("qid", v[1]) \in Seq(Byte) /\ Len(Written("qid", v[1])) = 13
  BY <1>1, QidParts
<1>3. Eight(v[2]) \in Seq(Byte) /\ Len(Eight(v[2])) = 8
  BY <1>1, EightIsBytes
<1>4. <<v[3]>> \in Seq(Byte) /\ Len(<<v[3]>>) = 1
  BY <1>1, OneIsByte
<1>5. v[4] \in Seq(Byte) /\ Len(v[4]) \in 0..Two16 - 1
  BY <1>1, TextIsBytes
<1>6. Two(Len(v[4])) \in Seq(Byte) /\ Len(Two(Len(v[4]))) = 2
  BY <1>5, TwoIsBytes
<1>7. Len(v[4]) \in Nat
  BY <1>5
<1> QED
  BY <1>2, <1>3, <1>4, <1>5, <1>6, <1>7, Zenon

\* An entry is as long as the loop of ParseRreaddir counts.
LEMMA EntryIsBytes ==
    ASSUME NEW v, Fits("entry", v)
    PROVE  /\ Written("entry", v) \in Seq(Byte)
           /\ Len(Written("entry", v)) = EntrySize(v[4])
<1> DEFINE p == Written("qid", v[1])
           q == Eight(v[2])
           r == <<v[3]>>
           s == Two(Len(v[4]))
           t == v[4]
<1>1. /\ p \in Seq(Byte) /\ Len(p) = 13 /\ q \in Seq(Byte) /\ Len(q) = 8
      /\ r \in Seq(Byte) /\ Len(r) = 1 /\ s \in Seq(Byte) /\ Len(s) = 2
      /\ t \in Seq(Byte) /\ Len(t) \in Nat
  BY EntryCells, Zenon
<1>2. Written("entry", v) = p \o q \o r \o s \o t
  BY EntryParts, Zenon
<1> HIDE DEF p, q, r, s, t
<1>3. /\ p \o q \o r \o s \o t \in Seq(Byte)
      /\ Len(p \o q \o r \o s \o t) = Len(p) + Len(q) + Len(r) + Len(s) + Len(t)
  <2> DEFINE All(a, b, c, e, f) == a \o b \o c \o e \o f
  <2>1. \A a, b, c, e, f \in Seq(Byte) :
           /\ All(a, b, c, e, f) \in Seq(Byte)
           /\ Len(All(a, b, c, e, f)) = Len(a) + Len(b) + Len(c) + Len(e) + Len(f)
    BY JoinedFive
  <2> HIDE DEF All
  <2>2. /\ All(p, q, r, s, t) \in Seq(Byte)
        /\ Len(All(p, q, r, s, t)) = Len(p) + Len(q) + Len(r) + Len(s) + Len(t)
    <3>1. /\ p \in Seq(Byte) /\ q \in Seq(Byte) /\ r \in Seq(Byte)
          /\ s \in Seq(Byte) /\ t \in Seq(Byte)
      BY <1>1, Zenon
    <3>2. \A b, c, e, f \in Seq(Byte) :
           /\ All(p, b, c, e, f) \in Seq(Byte)
           /\ Len(All(p, b, c, e, f)) = Len(p) + Len(b) + Len(c) + Len(e) + Len(f)
      BY <2>1, <3>1, Zenon
    <3>3. \A e, f \in Seq(Byte) :
           /\ All(p, q, r, e, f) \in Seq(Byte)
           /\ Len(All(p, q, r, e, f)) = Len(p) + Len(q) + Len(r) + Len(e) + Len(f)
      BY <3>2, <3>1, Zenon
    <3> QED
      BY <3>1, <3>3, Zenon
  <2> QED
    BY <2>2, Zenon DEF All
<1>4. Len(p) + Len(q) + Len(r) + Len(s) + Len(t) = 24 + Len(t)
  BY <1>1
<1> QED
  BY <1>2, <1>3, <1>4, Zenon DEF EntrySize, t

\* ParseRreaddir reads the entry that was written.
LEMMA EntryHeld ==
    ASSUME NEW d \in Seq(Cell), NEW off \in Nat, NEW v, Fits("entry", v),
           Holds(d, off, Written("entry", v))
    PROVE  GetEntry(d, off) = Got(off + EntrySize(v[4]), v)
<1> DEFINE p == Written("qid", v[1])
           q == Eight(v[2])
           r == <<v[3]>>
           s == Two(Len(v[4]))
           t == v[4]
<1>1. /\ p \in Seq(Cell) /\ Len(p) = 13 /\ q \in Seq(Cell) /\ Len(q) = 8
      /\ r \in Seq(Cell) /\ Len(r) = 1 /\ s \in Seq(Cell) /\ Len(s) = 2
      /\ t \in Seq(Cell) /\ Len(t) \in Nat
  BY EntryCells, BytesAreCells, Zenon
<1>2. Holds(d, off, p \o q \o r \o s \o t)
  BY EntryParts, Zenon
<1>v. /\ v[1] \in Qid /\ v[2] \in U64 /\ v[3] \in Byte /\ IsText(t)
      /\ v = <<v[1], v[2], v[3], t>>
  BY EntryParts, Zenon
<1> HIDE DEF p, q, r, s, t
<1>3. /\ Holds(d, off, p) /\ Holds(d, off + Len(p), q)
      /\ Holds(d, off + (Len(p) + Len(q)), r)
      /\ Holds(d, off + (Len(p) + Len(q) + Len(r)), s)
      /\ Holds(d, off + (Len(p) + Len(q) + Len(r) + Len(s)), t)
  BY <1>1, <1>2, HoldsFive, Zenon
<1>4. /\ off + 13 \in Nat /\ off + 21 \in Nat /\ off + 22 \in Nat
      /\ (off + 13) + 8 = off + 21 /\ (off + 21) + 1 = off + 22
      /\ 13 + 8 = 21 /\ 21 + 1 = 22 /\ 22 + 2 = 24
      /\ off + 24 = (off + 22) + 2
      /\ (off + 22) + (2 + Len(t)) = off + (24 + Len(t))
  <2> DEFINE n == Len(t)
  <2>1. n \in Nat
    BY <1>1
  <2> HIDE DEF n
  <2>2. (off + 22) + (2 + n) = off + (24 + n)
    BY <2>1
  <2> QED
    BY <2>2 DEF n
<1>5. /\ Holds(d, off + 13, q) /\ Holds(d, off + 21, r)
      /\ Holds(d, off + 22, s) /\ Holds(d, (off + 22) + Len(s), t)
  BY <1>1, <1>3, <1>4, Zenon
<1>6. GetQid(d, off) = Got(off + 13, v[1])
  BY <1>3, <1>v, QidHeld DEF p
<1>7. GetU64(d, off + 13) = Got(off + 21, v[2])
  <2>1. GetU64(d, off + 13) = Got((off + 13) + 8, v[2])
    BY <1>4, <1>5, <1>v, GotHeld DEF q
  <2> QED
    BY <1>4, <2>1, Zenon
<1>8. GetU8(d, off + 21) = Got(off + 22, v[3])
  <2>1. GetU8(d, off + 21) = Got((off + 21) + 1, v[3])
    BY <1>4, <1>5, <1>v, GotHeld, Zenon DEF r
  <2> QED
    BY <1>4, <2>1, Zenon
<1>9. GetString(d, off + 22) = Got(off + (24 + Len(t)), t)
  <2>1. Holds(d, off + 22, s \o t)
    BY <1>1, <1>4, <1>5, HoldsBoth, Zenon
  <2>2. GetString(d, off + 22) = Got((off + 22) + (2 + Len(t)), t)
    BY <1>4, <1>v, <2>1, TextHeld DEF s, t
  <2> QED
    BY <1>4, <2>2, Zenon
<1>10. GetEntry(d, off) = Got(off + (24 + Len(t)), <<v[1], v[2], v[3], t>>)
  <2> DEFINE qid    == GetQid(d, off)
             offset == GetU64(d, qid.off)
             type   == GetU8(d, offset.off)
             name   == GetString(d, type.off)
  <2>1. GetEntry(d, off) = Got(name.off, <<qid.val, offset.val, type.val, name.val>>)
    BY DEF GetEntry
  <2>2. qid.off = off + 13 /\ qid.val = v[1]
    BY <1>6 DEF Got
  <2> HIDE DEF qid
  <2>3. offset.off = off + 21 /\ offset.val = v[2]
    BY <1>7, <2>2 DEF Got
  <2> HIDE DEF offset
  <2>4. type.off = off + 22 /\ type.val = v[3]
    BY <1>8, <2>3 DEF Got
  <2> HIDE DEF type
  <2>5. name.off = off + (24 + Len(t)) /\ name.val = t
    BY <1>9, <2>4 DEF Got
  <2> HIDE DEF name
  <2> QED
    BY <2>1, <2>2, <2>3, <2>4, <2>5, Zenon
<1> QED
  BY <1>v, <1>10, Zenon DEF t, EntrySize

\* The forms that the parsers' Gets read.
Kinds == {"u32", "u64", "s", "qid"}

\* What the server writes for a value that fits is bytes.
LEMMA WrittenIsBytes ==
    ASSUME NEW form \in Kinds \cup {"entry"}, NEW v, Fits(form, v)
    PROVE  Written(form, v) \in Seq(Byte)
<1>1. CASE form = "u32"
  BY <1>1, FourIsBytes DEF Fits, Written
<1>2. CASE form = "u64"
  BY <1>2, EightIsBytes DEF Fits, Written
<1>3. CASE form = "s"
  BY <1>3, TextIsBytes DEF Fits, Written
<1>4. CASE form = "qid"
  <2>1. v \in Qid
    BY <1>4 DEF Fits
  <2> QED
    BY <1>4, <2>1, QidParts
<1>5. CASE form = "entry"
  BY <1>5, EntryIsBytes
<1> QED
  BY <1>1, <1>2, <1>3, <1>4, <1>5 DEF Kinds

\* A Get returns the value that the server wrote, and moves behind it.
LEMMA WrittenHeld ==
    ASSUME NEW d \in Seq(Cell), NEW off \in Nat, NEW form \in Kinds, NEW v,
           Fits(form, v), Holds(d, off, Written(form, v))
    PROVE  Get(form, d, off) = Got(off + Len(Written(form, v)), v)
<1>1. CASE form = "u32"
  <2>1. v \in U32 /\ Written(form, v) = Four(v) /\ Get(form, d, off) = GetU32(d, off)
    BY <1>1 DEF Fits, Written, Get
  <2> QED
    BY <2>1, FourIsBytes, GotHeld, ZenonT(40)
<1>2. CASE form = "u64"
  <2>1. v \in U64 /\ Written(form, v) = Eight(v) /\ Get(form, d, off) = GetU64(d, off)
    BY <1>2 DEF Fits, Written, Get
  <2> QED
    BY <2>1, EightIsBytes, GotHeld, ZenonT(40)
<1>3. CASE form = "s"
  <2>1. /\ IsText(v) /\ Written(form, v) = Two(Len(v)) \o v
        /\ Get(form, d, off) = GetString(d, off)
    BY <1>3 DEF Fits, Written, Get
  <2>2. GetString(d, off) = Got(off + (2 + Len(v)), v)
    BY <2>1, TextHeld
  <2> QED
    BY <2>1, <2>2, TextIsBytes
<1>4. CASE form = "qid"
  <2>1. v \in Qid /\ Get(form, d, off) = GetQid(d, off)
    BY <1>4 DEF Fits, Get
  <2> QED
    BY <1>4, <2>1, QidParts, QidHeld, ZenonT(40)
<1> QED
  BY <1>1, <1>2, <1>3, <1>4 DEF Kinds

-----------------------------------------------------------------------------
(* The fields of a reply.                                                 *)

\* Where the parts of a concatenation lie in a message that holds it.
PartsAt(at, d, off, N, p) ==
    /\ at[0] = off /\ at[N] = off + Len(FlattenSeq(p))
    /\ \A n \in 0..N : at[n] \in Nat
    /\ \A n \in 1..N : Holds(d, at[n - 1], p[n]) /\ at[n] = at[n - 1] + Len(p[n])

\* A message that holds a concatenation holds the parts one behind the other.
LEMMA FlatHeld ==
    ASSUME NEW d \in Seq(Cell), NEW off \in Nat, NEW N \in Nat,
           NEW p \in [1..N -> Seq(Byte)], Holds(d, off, FlattenSeq(p))
    PROVE  \E at : PartsAt(at, d, off, N, p)
<1>1. p \in [1..N -> Seq(Cell)]
  <2>1. \A n \in 1..N : p[n] \in Seq(Cell)
    <3>1. ASSUME NEW n \in 1..N PROVE p[n] \in Seq(Cell)
      <4>1. p[n] \in Seq(Byte)
        OBVIOUS
      <4> QED
        BY <4>1, BytesAreCells
    <3> QED
      BY <3>1
  <2> QED
    BY <2>1
<1>2. PICK r : FlatBy(r, N, p) /\ AllSeqs(r, N, Cell)
  BY <1>1, FlattenTurns
<1>3. Holds(d, off, r[N])
  BY <1>2 DEF FlatBy
<1>4. \A n \in 1..N : /\ Holds(d, off + Len(r[n - 1]), p[n])
                      /\ Len(r[n]) = Len(r[n - 1]) + Len(p[n])
  <2>1. EachHeld(r, d, off, N, p)
    BY <1>1, <1>2, <1>3, HoldsAll
  <2> QED
    BY <2>1 DEF EachHeld
<1>5. ASSUME NEW n \in 0..N PROVE Len(r[n]) \in Nat
  <2>1. r[n] \in Seq(Cell)
    BY <1>2 DEF AllSeqs
  <2> QED
    BY <2>1
<1>6. Len(r[0]) = 0
  <2>1. Len(<< >>) = 0
    OBVIOUS
  <2> QED
    BY <1>2, <2>1, Zenon DEF FlatBy
<1> DEFINE len == [n \in 0..N |-> Len(r[n])]
           at  == [n \in 0..N |-> off + len[n]]
<1>7. /\ len[0] = 0 /\ len[N] = Len(FlattenSeq(p))
      /\ \A n \in 0..N : len[n] \in Nat /\ len[n] = Len(r[n])
  BY <1>2, <1>5, <1>6 DEF FlatBy
<1> HIDE DEF len
<1>8. \A n \in 0..N : at[n] = off + len[n] /\ at[n] \in Nat
  BY <1>7
<1>9. at[0] = off /\ at[N] = off + Len(FlattenSeq(p))
  BY <1>7, <1>8
<1> HIDE DEF at
<1>10. ASSUME NEW n \in 1..N
       PROVE  Holds(d, at[n - 1], p[n]) /\ at[n] = at[n - 1] + Len(p[n])
  <2>1. n - 1 \in 0..N /\ n \in 0..N
    OBVIOUS
  <2>2. /\ /\ at[n - 1] = off + len[n - 1] /\ len[n - 1] = Len(r[n - 1])
        /\ len[n - 1] \in Nat
        /\ at[n] = off + len[n] /\ len[n] = Len(r[n])
    BY <1>7, <1>8, <2>1
  <2>3. Len(p[n]) \in Nat
    BY <1>1
  <2>4. len[n] = len[n - 1] + Len(p[n])
    BY <1>4, <2>2
  <2>5. Holds(d, at[n - 1], p[n])
    BY <1>4, <2>2
  <2> QED
    BY <2>2, <2>3, <2>4, <2>5
<1> QED
  BY <1>8, <1>9, <1>10 DEF PartsAt

\* A concatenation of bytes is bytes.
LEMMA FlatIsBytes ==
    ASSUME NEW N \in Nat, NEW p \in [1..N -> Seq(Byte)]
    PROVE  FlattenSeq(p) \in Seq(Byte)
<1>1. PICK r : FlatBy(r, N, p) /\ AllSeqs(r, N, Byte)
  BY FlattenTurns
<1>2. N \in 0..N
  OBVIOUS
<1> QED
  BY <1>1, <1>2, Zenon DEF FlatBy, AllSeqs

\* What the server writes for values that fit is bytes.
LEMMA WrittenAllIsBytes ==
    ASSUME NEW forms, Len(forms) \in Nat, NEW vals,
           \A n \in 1..Len(forms) : /\ forms[n] \in Kinds \cup {"entry"}
                                    /\ Fits(forms[n], vals[n])
    PROVE  WrittenAll(forms, vals) \in Seq(Byte)
<1> DEFINE N == Len(forms)
           p == [n \in 1..N |-> Written(forms[n], vals[n])]
<1>1. p \in [1..N -> Seq(Byte)]
  BY WrittenIsBytes
<1>2. WrittenAll(forms, vals) = FlattenSeq(p)
  BY DEF WrittenAll
<1> HIDE DEF p
<1> QED
  BY <1>1, <1>2, FlatIsBytes

\* A parser's Gets return the values that the server wrote.
LEMMA GetsWritten ==
    ASSUME NEW d \in Seq(Cell), NEW off \in Nat, NEW forms, Len(forms) \in Nat,
           NEW vals,
           \A n \in 1..Len(forms) : forms[n] \in Kinds /\ Fits(forms[n], vals[n]),
           Holds(d, off, WrittenAll(forms, vals))
    PROVE  Gets(forms, d, off).val = [i \in 1..Len(forms) |-> vals[i]]
<1> DEFINE N == Len(forms)
           p == [n \in 1..N |-> Written(forms[n], vals[n])]
<1>1. p \in [1..N -> Seq(Byte)]
  BY WrittenIsBytes
<1>2. Holds(d, off, FlattenSeq(p))
  BY DEF WrittenAll
<1>3. \A n \in 1..N : p[n] = Written(forms[n], vals[n])
  OBVIOUS
<1> HIDE DEF p
<1>p. PICK at : PartsAt(at, d, off, N, p)
  BY <1>1, <1>2, FlatHeld
<1>4. /\ at[0] = off
      /\ \A n \in 0..N : at[n] \in Nat
      /\ \A n \in 1..N : Holds(d, at[n - 1], p[n]) /\ at[n] = at[n - 1] + Len(p[n])
  BY <1>p DEF PartsAt
<1>g. PICK r : GetsBy(r, forms, d, off)
  BY GetsTurns
<1>5. /\ r[0] = Got(off, << >>) /\ Gets(forms, d, off) = r[N]
      /\ \A n \in 1..N : r[n] = GetTurn(forms, d, n, r[n - 1])
  BY <1>g DEF GetsBy
<1> DEFINE Upto(n) == [i \in 1..n |-> vals[i]]
           T == {n \in 0..N : r[n] = Got(at[n], Upto(n))}
<1>6. 0 \in T
  <2>1. Upto(0) = << >>
    OBVIOUS
  <2> HIDE DEF Upto
  <2> QED
    BY <1>4, <1>5, <2>1
<1>7. ASSUME NEW n \in 1..N, n - 1 \in T PROVE n \in T
  <2>1. Append(Upto(n - 1), vals[n]) = Upto(n)
    BY AppendNext
  <2> HIDE DEF Upto
  <2>2. r[n - 1] = Got(at[n - 1], Upto(n - 1)) /\ at[n - 1] \in Nat
    BY <1>4, <1>7
  <2>3. Get(forms[n], d, at[n - 1]) = Got(at[n], vals[n])
    <3>1. /\ Holds(d, at[n - 1], Written(forms[n], vals[n]))
          /\ at[n] = at[n - 1] + Len(Written(forms[n], vals[n]))
      BY <1>3, <1>4
    <3> QED
      BY <2>2, <3>1, WrittenHeld
  <2>4. r[n] = Got(at[n], Append(Upto(n - 1), vals[n]))
    <3>1. GetTurn(forms, d, n, Got(at[n - 1], Upto(n - 1)))
             = Got(at[n], Append(Upto(n - 1), vals[n]))
      BY <2>3, GetTurnMakes
    <3>2. r[n] = GetTurn(forms, d, n, r[n - 1])
      BY <1>5
    <3> QED
      BY <2>2, <3>1, <3>2, Zenon
  <2>5. r[n] = Got(at[n], Upto(n))
    BY <2>1, <2>4, Zenon
  <2>6. n \in 0..N
    OBVIOUS
  <2> QED
    BY <2>5, <2>6, Zenon
<1> HIDE DEF T
<1>8. N \in T
  <2>1. 0..N \subseteq T
    BY <1>6, <1>7, CountTo
  <2> QED
    BY <2>1
<1> HIDE DEF Upto
<1>9. Gets(forms, d, off) = Got(at[N], Upto(N))
  BY <1>5, <1>8 DEF T
<1> QED
  BY <1>9 DEF Got, Upto

-----------------------------------------------------------------------------
(* The entries of a directory.                                            *)

\* A layout of one form.
LEMMA SameForms ==
    ASSUME NEW N \in Nat, NEW x
    PROVE  Len([i \in 1..N |-> x]) = N /\ \A n \in 1..N : [i \in 1..N |-> x][n] = x
<1> DEFINE f == [i \in 1..N |-> x]
<1>1. f \in [1..N -> {x}] /\ \A n \in 1..N : f[n] = x
  OBVIOUS
<1> HIDE DEF f
<1>2. Len(f) = N
  BY <1>1, FunctionIsSeq
<1> QED
  BY <1>1, <1>2 DEF f

\* What a turn of the loop of ParseRreaddir makes, and what all turns make.
EntryTurn(d, count, r) ==
    LET e == GetEntry(d, r.off)
    IN  IF r.consumed >= count THEN r
        ELSE [off      |-> e.off,
              consumed |-> r.consumed + EntrySize(e.val[4]),
              entries  |-> Append(r.entries, e.val)]
EntriesBy(t, d, off, count) ==
    /\ t[0] = [off |-> off, consumed |-> 0, entries |-> << >>]
    /\ Entries(d, off, count) = t[count].entries
    /\ \A n \in 1..count : t[n] = EntryTurn(d, count, t[n - 1])

\* The recursive function of Entries is there, and takes these turns.
LEMMA EntriesTurns ==
    ASSUME NEW d, NEW off, NEW count \in Nat
    PROVE  \E t : EntriesBy(t, d, off, count)
<1> DEFINE First == [off |-> off, consumed |-> 0, entries |-> << >>]
           Turn(r) == LET e == GetEntry(d, r.off)
                      IN  IF r.consumed >= count THEN r
                          ELSE [off      |-> e.off,
                                consumed |-> r.consumed + EntrySize(e.val[4]),
                                entries  |-> Append(r.entries, e.val)]
           Is(f, m) == f = [n \in 0..m |-> IF n = 0 THEN First ELSE Turn(f[n - 1])]
           T == {m \in Nat : \E f : Is(f, m)}
           turn == CHOOSE f : Is(f, count)
<1>1. Entries(d, off, count) = turn[count].entries
  BY DEF Entries
<1> HIDE DEF Turn, First
<1>2. 0 \in T
  <2>1. Is([n \in 0..0 |-> First], 0)
    OBVIOUS
  <2> QED
    BY <2>1
<1>3. ASSUME NEW m \in 1..count, m - 1 \in T PROVE m \in T
  <2>1. PICK f : Is(f, m - 1)
    BY <1>3
  <2> DEFINE g == [n \in 0..m |-> IF n = m THEN Turn(f[n - 1]) ELSE f[n]]
  <2>2. Is(g, m)
    <3>1. ASSUME NEW n \in 0..m PROVE g[n] = IF n = 0 THEN First ELSE Turn(g[n - 1])
      <4>1. CASE n = m
        BY <1>3, <4>1
      <4>2. CASE n # m
        BY <1>3, <2>1, <4>2
      <4> QED
        BY <4>1, <4>2
    <3> QED
      BY <3>1
  <2>3. m \in Nat
    BY <1>3
  <2> HIDE DEF Is, g
  <2> QED
    BY <2>2, <2>3
<1>4. \E f : Is(f, count)
  <2> HIDE DEF Is
  <2>1. 0..count \subseteq T
    BY <1>2, <1>3, CountTo
  <2> QED
    BY <2>1
<1>5. Is(turn, count)
  BY <1>4
<1> HIDE DEF turn
<1>6. turn[0] = First /\ \A n \in 1..count : turn[n] = Turn(turn[n - 1])
  BY <1>5
<1> QED
  BY <1>1, <1>6 DEF First, Turn, EntryTurn, EntriesBy

\* The loop of ParseRreaddir finds every entry that the server wrote.
LEMMA EntriesWritten ==
    ASSUME NEW d \in Seq(Cell), NEW off \in Nat, NEW items, Len(items) \in Nat,
           \A n \in 1..Len(items) : Fits("entry", items[n]),
           Holds(d, off, Each("entry", items))
    PROVE  Entries(d, off, Len(Each("entry", items))) = [i \in 1..Len(items) |-> items[i]]
<1> DEFINE N == Len(items)
           p == [n \in 1..N |-> Written("entry", items[n])]
           count == Len(FlattenSeq(p))
<1>1. p \in [1..N -> Seq(Byte)]
  BY EntryIsBytes
<1>2. Each("entry", items) = FlattenSeq(p)
  <2> DEFINE forms == [i \in 1..N |-> "entry"]
  <2>1. Len(forms) = N /\ \A n \in 1..N : forms[n] = "entry"
    BY SameForms
  <2> HIDE DEF forms
  <2>2. WrittenAll(forms, items) = FlattenSeq(p)
    BY <2>1 DEF WrittenAll
  <2> QED
    BY <2>2 DEF Each, forms
<1>3. \A n \in 1..N : p[n] = Written("entry", items[n])
  OBVIOUS
<1>4. count \in Nat
  <2> HIDE DEF p
  <2>1. FlattenSeq(p) \in Seq(Byte)
    BY <1>1, FlatIsBytes
  <2> QED
    BY <2>1
<1> HIDE DEF p, count
<1>5. PICK at : PartsAt(at, d, off, N, p)
  BY <1>1, <1>2, FlatHeld
<1>6. /\ at[0] = off /\ at[N] = off + count /\ \A n \in 0..N : at[n] \in Nat
      /\ \A n \in 1..N : Holds(d, at[n - 1], p[n]) /\ at[n] = at[n - 1] + Len(p[n])
  BY <1>5 DEF PartsAt, count
<1>7. ASSUME NEW n \in 1..N
      PROVE  /\ GetEntry(d, at[n - 1]) = Got(at[n], items[n])
             /\ at[n] = at[n - 1] + EntrySize(items[n][4])
             /\ at[n - 1] + 1 <= at[n] /\ at[n - 1] \in Nat /\ at[n] \in Nat
             /\ EntrySize(items[n][4]) \in Nat
  <2>1. /\ Holds(d, at[n - 1], Written("entry", items[n]))
        /\ at[n] = at[n - 1] + Len(Written("entry", items[n])) /\ Fits("entry", items[n])
    BY <1>3, <1>6
  <2>2. at[n - 1] \in Nat /\ at[n] \in Nat
    BY <1>6
  <2>3. Len(Written("entry", items[n])) = EntrySize(items[n][4])
    BY <2>1, EntryIsBytes
  <2>4. GetEntry(d, at[n - 1]) = Got(at[n - 1] + EntrySize(items[n][4]), items[n])
    BY <2>1, <2>2, EntryHeld
  <2>5. EntrySize(items[n][4]) \in Nat /\ 1 <= EntrySize(items[n][4])
    <3>1. Len(items[n][4]) \in Nat
      BY <2>1, EntryCells
    <3> QED
      BY <3>1 DEF EntrySize
  <2> QED
    BY <2>1, <2>2, <2>3, <2>4, <2>5
<1>8. ASSUME NEW n \in 0..N PROVE at[n] + (N - n) <= at[N]
  <2> DEFINE V == {k \in 0..N : at[N - k] + k <= at[N]}
  <2>1. 0 \in V
    BY <1>6
  <2>2. ASSUME NEW k \in 1..N, k - 1 \in V PROVE k \in V
    <3>1. N - (k - 1) \in 1..N /\ (N - (k - 1)) - 1 = N - k
      OBVIOUS
    <3>2. at[N - k] + 1 <= at[N - (k - 1)] /\ at[N - k] \in Nat /\ at[N - (k - 1)] \in Nat
      BY <1>7, <3>1
    <3>3. at[N - (k - 1)] + (k - 1) <= at[N] /\ at[N] \in Nat
      BY <1>6, <2>2
    <3> QED
      BY <3>2, <3>3, SMTT(40)
  <2> HIDE DEF V
  <2>3. 0..N \subseteq V
    BY <2>1, <2>2, CountTo
  <2>4. N - n \in 0..N /\ N - (N - n) = n
    OBVIOUS
  <2> QED
    BY <2>3, <2>4 DEF V
<1>9. N <= count
  BY <1>4, <1>6, <1>8
<1>10. PICK t : EntriesBy(t, d, off, count)
  BY <1>4, EntriesTurns
<1> DEFINE Upto(n) == [i \in 1..n |-> items[i]]
           At(n) == [off |-> at[n], consumed |-> at[n] - off, entries |-> Upto(n)]
           T == {n \in 0..N : t[n] = At(n)}
<1>11. 0 \in T
  <2>1. Upto(0) = << >>
    OBVIOUS
  <2>2. at[0] - off = 0
    BY <1>6
  <2> HIDE DEF Upto
  <2> QED
    BY <1>6, <1>10, <2>1, <2>2 DEF EntriesBy
<1>12. ASSUME NEW n \in 1..N, n - 1 \in T PROVE n \in T
  <2>1. Append(Upto(n - 1), items[n]) = Upto(n)
    BY AppendNext
  <2> HIDE DEF Upto
  <2>2. t[n] = EntryTurn(d, count, At(n - 1))
    <3>1. n \in 1..count
      BY <1>4, <1>9
    <3>2. t[n] = EntryTurn(d, count, t[n - 1])
      BY <1>10, <3>1, Zenon DEF EntriesBy
    <3>3. t[n - 1] = At(n - 1)
      BY <1>12, Zenon
    <3> QED
      BY <3>2, <3>3, Zenon
  <2>3. ~ (at[n - 1] - off >= count)
    <3>1. at[n - 1] + (N - (n - 1)) <= at[N] /\ at[n - 1] \in Nat
      BY <1>6, <1>8
    <3> QED
      BY <1>4, <1>6, <3>1
  <2> DEFINE e == GetEntry(d, At(n - 1).off)
  <2>4. e = Got(at[n], items[n])
    BY <1>7
  <2>5. t[n] = [off |-> e.off, consumed |-> At(n - 1).consumed + EntrySize(e.val[4]),
                entries |-> Append(At(n - 1).entries, e.val)]
    BY <2>2, <2>3 DEF EntryTurn
  <2> HIDE DEF e
  <2>6. e.off = at[n] /\ e.val = items[n]
    BY <2>4 DEF Got
  <2>7. (at[n - 1] - off) + EntrySize(items[n][4]) = at[n] - off
    BY <1>7
  <2>8. t[n] = [off |-> at[n], consumed |-> at[n] - off, entries |-> Upto(n)]
    BY <2>1, <2>5, <2>6, <2>7
  <2> QED
    BY <2>8
<1> HIDE DEF T
<1>13. t[N] = At(N)
  <2>1. 0..N \subseteq T
    BY <1>11, <1>12, CountTo
  <2> QED
    BY <2>1, SMTT(40) DEF T
<1> HIDE DEF Upto
<1>14. \A n \in 0..count - N : t[N + n].entries = Upto(N) /\ t[N + n].consumed = count
  <2> DEFINE V == {n \in 0..count - N : t[N + n].entries = Upto(N) /\ t[N + n].consumed = count}
  <2>1. 0 \in V
    BY <1>4, <1>6, <1>9, <1>13
  <2>2. ASSUME NEW n \in 1..count - N, n - 1 \in V PROVE n \in V
    <3>1. N + n \in 1..count /\ (N + n) - 1 = N + (n - 1)
      BY <1>4, <1>9
    <3>2. t[N + n] = EntryTurn(d, count, t[N + (n - 1)])
      BY <1>10, <3>1 DEF EntriesBy
    <3>3. t[N + (n - 1)].consumed >= count
      BY <1>4, <2>2
    <3>4. t[N + n] = t[N + (n - 1)]
      BY <3>2, <3>3 DEF EntryTurn
    <3> QED
      BY <2>2, <3>4
  <2> HIDE DEF V
  <2>3. 0..count - N \subseteq V
    <3>1. count - N \in Nat
      BY <1>4, <1>9
    <3> QED
      BY <2>1, <2>2, <3>1, CountTo
  <2> QED
    BY <2>3 DEF V
<1>15. t[count].entries = Upto(N)
  <2>1. count - N \in 0..count - N /\ N + (count - N) = count
    BY <1>4, <1>9
  <2> QED
    BY <1>14, <2>1
<1>16. Entries(d, off, count) = Upto(N)
  BY <1>10, <1>15 DEF EntriesBy
<1> QED
  BY <1>2, <1>16 DEF count, Upto

-----------------------------------------------------------------------------
(* Messages.                                                              *)

\* The four parts of a message: size, type, tag and body.
Whole(p, q, r, t) == p \o q \o r \o t

\* Four parts, the first three of a header's widths.
LEMMA WholeHeld ==
    ASSUME NEW S, NEW p \in Seq(S), Len(p) = 4, NEW q \in Seq(S), Len(q) = 1,
           NEW r \in Seq(S), Len(r) = 2, NEW t \in Seq(S)
    PROVE  /\ Whole(p, q, r, t) \in Seq(S) /\ Len(Whole(p, q, r, t)) = 7 + Len(t)
           /\ Holds(Whole(p, q, r, t), 0, p) /\ Holds(Whole(p, q, r, t), 4, q)
           /\ Holds(Whole(p, q, r, t), 5, r) /\ Holds(Whole(p, q, r, t), 7, t)
<1> DEFINE u == p \o q
           v == u \o r
           w == v \o t
<1>1. u \in Seq(S) /\ Len(u) = 5
  <2>1. u \in Seq(S) /\ Len(u) = Len(p) + Len(q)
    BY Joined
  <2> QED
    BY <2>1
<1>2. v \in Seq(S) /\ Len(v) = 7
  <2> HIDE DEF u
  <2>1. v \in Seq(S) /\ Len(v) = Len(u) + Len(r)
    BY <1>1, Joined
  <2> QED
    BY <1>1, <2>1
<1>3. w \in Seq(S) /\ Len(w) = 7 + Len(t)
  <2> HIDE DEF v
  <2>1. w \in Seq(S) /\ Len(w) = Len(v) + Len(t)
    BY <1>2, Joined
  <2> QED
    BY <1>2, <2>1
<1> HIDE DEF w
<1>4. Holds(w, 0, v) /\ Holds(w, 7, t)
  <2> HIDE DEF v
  <2>1. Holds(w, 0, w)
    BY <1>3 DEF Holds
  <2>2. Holds(w, 0, v) /\ Holds(w, 0 + Len(v), t)
    BY <1>2, <1>3, <2>1, HoldsParts DEF w
  <2> QED
    BY <1>2, <2>2
<1>5. Holds(w, 0, u) /\ Holds(w, 5, r)
  <2> HIDE DEF u
  <2>1. Holds(w, 0, u) /\ Holds(w, 0 + Len(u), r)
    BY <1>1, <1>3, <1>4, HoldsParts DEF v
  <2> QED
    BY <1>1, <2>1
<1>6. Holds(w, 0, p) /\ Holds(w, 4, q)
  <2>1. Holds(w, 0, p) /\ Holds(w, 0 + Len(p), q)
    BY <1>3, <1>5, HoldsParts DEF u
  <2> QED
    BY <2>1
<1>7. Whole(p, q, r, t) = w
  BY DEF Whole, w, v, u
<1> HIDE DEF u, v
<1> QED
  BY <1>3, <1>4, <1>5, <1>6, <1>7, Zenon

\* The same of cells.
LEMMA CellsHeld ==
    ASSUME NEW p \in Seq(Cell), Len(p) = 4, NEW q \in Seq(Cell), Len(q) = 1,
           NEW r \in Seq(Cell), Len(r) = 2, NEW t \in Seq(Cell)
    PROVE  /\ Whole(p, q, r, t) \in Seq(Cell) /\ Len(Whole(p, q, r, t)) = 7 + Len(t)
           /\ Holds(Whole(p, q, r, t), 0, p) /\ Holds(Whole(p, q, r, t), 4, q)
           /\ Holds(Whole(p, q, r, t), 5, r) /\ Holds(Whole(p, q, r, t), 7, t)
BY WholeHeld

\* A message is its header, with the size, the type and the tag, and its body.
LEMMA HeaderHeld ==
    ASSUME NEW size \in U32, NEW type \in Cell, NEW tag \in 0..Two16 - 1,
           NEW body \in Seq(Byte), NEW w, w = Whole(Four(size), <<type>>, Two(tag), body)
    PROVE  /\ w \in Seq(Cell) /\ Len(w) = 7 + Len(body)
           /\ FourAt(w, 0) = size /\ w[5] = type /\ TwoAt(w, 5) = tag
           /\ Holds(w, 7, body)
<1>1. /\ Four(size) \in Seq(Cell) /\ Len(Four(size)) = 4
      /\ Two(tag) \in Seq(Cell) /\ Len(Two(tag)) = 2 /\ body \in Seq(Cell)
  BY FourIsBytes, TwoIsBytes, BytesAreCells
<1>2. <<type>> \in Seq(Cell) /\ Len(<<type>>) = 1
  OBVIOUS
<1>3. /\ w \in Seq(Cell) /\ Len(w) = 7 + Len(body) /\ Holds(w, 0, Four(size))
      /\ Holds(w, 4, <<type>>) /\ Holds(w, 5, Two(tag)) /\ Holds(w, 7, body)
  BY <1>1, <1>2, CellsHeld, Zenon
<1>4. FourAt(w, 0) = size
  <2>1. 0 \in Nat
    OBVIOUS
  <2> QED
    BY <1>3, <2>1, FourHeldAs
<1>5. w[5] = type
  <2>1. w[4 + 1] = type
    <3>1. 4 \in Nat
      OBVIOUS
    <3> QED
      BY <1>3, <3>1, OneHeld, Zenon
  <2>2. 4 + 1 = 5
    OBVIOUS
  <2> QED
    BY <2>1, <2>2, Zenon
<1>6. TwoAt(w, 5) = tag
  BY <1>3, TwoHeld
<1> QED
  BY <1>3, <1>4, <1>5, <1>6

\* The layouts of replies are of forms that the parsers read.
LEMMA ReplyForms ==
    ASSUME NEW type \in DOMAIN ReplyLayout
    PROVE  ReplyLayout[type] \in Seq(Kinds)
<1>1. CASE type = "Rgetattr"
  <2> DEFINE p == <<"u64", "qid", "u32", "u32", "u32">>
             q == [i \in 1..15 |-> "u64"]
  <2>1. p \in Seq(Kinds)
    BY DEF Kinds
  <2>2. q \in Seq(Kinds)
    <3>1. q \in [1..15 -> Kinds] /\ 15 \in Nat
      BY DEF Kinds
    <3> HIDE DEF q
    <3> QED
      BY <3>1, FunctionIsSeq
  <2>3. ReplyLayout[type] = p \o q
    BY <1>1 DEF ReplyLayout
  <2> HIDE DEF p, q
  <2>4. ReplyLayout[type] \in Seq(Kinds)
    BY <2>1, <2>2, <2>3, Joined
  <2> QED
    BY <2>4
<1>2. CASE type \in {"Rlerror", "Rversion", "Rattach", "Rlopen", "Rclunk", "Rwrite",
                     "Rlcreate", "Rmkdir", "Runlinkat", "Rrenameat"}
  <2>1. /\ ReplyLayout["Rlerror"] = <<"u32">> /\ ReplyLayout["Rversion"] = <<"u32", "s">>
        /\ ReplyLayout["Rattach"] = <<"qid">> /\ ReplyLayout["Rlopen"] = <<"qid", "u32">>
        /\ ReplyLayout["Rclunk"] = << >> /\ ReplyLayout["Rwrite"] = <<"u32">>
        /\ ReplyLayout["Rlcreate"] = <<"qid", "u32">> /\ ReplyLayout["Rmkdir"] = <<"qid">>
        /\ ReplyLayout["Runlinkat"] = << >> /\ ReplyLayout["Rrenameat"] = << >>
    BY DEF ReplyLayout
  <2>2. /\ << >> \in Seq(Kinds) /\ <<"u32">> \in Seq(Kinds) /\ <<"qid">> \in Seq(Kinds)
        /\ <<"u32", "s">> \in Seq(Kinds) /\ <<"qid", "u32">> \in Seq(Kinds)
    BY DEF Kinds
  <2>3. ReplyLayout[type] \in Seq(Kinds)
    BY <1>2, <2>1, <2>2, Zenon
  <2> QED
    BY <2>3
<1> QED
  BY <1>1, <1>2 DEF ReplyLayout

\* What a server that keeps to the layouts writes for a reply of fixed layout.
LEMMA FieldsFit ==
    ASSUME ServerKeepsToLayouts, NEW a \in Answers, a.type \in DOMAIN ReplyLayout
    PROVE  /\ Body(a) = WrittenAll(ReplyLayout[a.type], a.vals)
           /\ FitAll(ReplyLayout[a.type], a.vals)
<1>1. a.type \notin {"Rread", "Rwalk", "Rreaddir"}
  BY DEF ReplyLayout
<1>2. Body(a) = WrittenAll(ReplyLayout[a.type], a.vals)
  BY <1>1 DEF Body
<1>3. FitAll(ReplyLayout[a.type], a.vals)
  BY <1>1 DEF ServerKeepsToLayouts
<1> QED
  BY <1>2, <1>3

\* Values that fit, one by one.
LEMMA FitEach ==
    ASSUME NEW forms, DOMAIN forms = 1..Len(forms), NEW vals, FitAll(forms, vals)
    PROVE  /\ \A n \in 1..Len(forms) : Fits(forms[n], vals[n])
           /\ vals = [i \in 1..Len(forms) |-> vals[i]]
BY DEF FitAll

-----------------------------------------------------------------------------
(* The parsers.                                                           *)

\* A server's reply is its header and its body.
LEMMA ReplyHeld ==
    ASSUME ServerKeepsToLayouts, NEW a \in Answers, Body(a) \in Seq(Byte)
    PROVE  /\ Reply(a) \in Seq(Cell) /\ Len(Reply(a)) = 7 + Len(Body(a))
           /\ Reply(a)[5] = a.type /\ GetType(Reply(a)) = a.type
           /\ Holds(Reply(a), 7, Body(a))
<1>1. /\ a.type \in Cell /\ a.tag \in 0..Two16 - 1 /\ 7 + Len(Body(a)) < Two32
  BY DEF Cell, ServerKeepsToLayouts
<1>2. Len(Body(a)) \in Nat
  OBVIOUS
<1>3. 7 + Len(Body(a)) \in U32
  BY <1>1, <1>2, Widths DEF U32
<1>4. Reply(a) = Whole(Four(7 + Len(Body(a))), <<a.type>>, Two(a.tag), Body(a))
  BY DEF Reply, Whole
<1>5. /\ Reply(a) \in Seq(Cell) /\ Len(Reply(a)) = 7 + Len(Body(a))
      /\ Reply(a)[5] = a.type /\ Holds(Reply(a), 7, Body(a))
  BY <1>1, <1>3, <1>4, HeaderHeld
<1>6. ~ (Len(Reply(a)) < 7)
  BY <1>2, <1>5
<1> QED
  BY <1>5, <1>6 DEF GetType, kHeaderSize

\* No reply is too long for its size field.
LEMMA ReplyLength ==
    ASSUME ServerKeepsToLayouts, NEW a \in Answers, Body(a) \in Seq(Byte)
    PROVE  Len(Reply(a)) \in Nat /\ Len(Reply(a)) < Two32
<1>1. 7 + Len(Body(a)) < Two32
  BY DEF ServerKeepsToLayouts
<1>2. Len(Body(a)) \in Nat
  OBVIOUS
<1>3. Len(Reply(a)) = 7 + Len(Body(a))
  BY ReplyHeld
<1> QED
  BY <1>1, <1>2, <1>3

\* The fields of a reply of fixed layout.
LEMMA FieldsRead ==
    ASSUME ServerKeepsToLayouts, NEW a \in Answers, a.type \in DOMAIN ReplyLayout
    PROVE  /\ Body(a) \in Seq(Byte)
           /\ ParseFields(Reply(a), a.type, ReplyLayout[a.type])
                = [ok |-> TRUE, vals |-> a.vals]
<1> DEFINE forms == ReplyLayout[a.type]
<1>0. forms \in Seq(Kinds)
  BY ReplyForms
<1>1. /\ Len(forms) \in Nat /\ DOMAIN forms = 1..Len(forms)
      /\ \A n \in 1..Len(forms) : forms[n] \in Kinds
  <2> HIDE DEF forms
  <2> QED
    BY <1>0
<1>2. Body(a) = WrittenAll(forms, a.vals) /\ FitAll(forms, a.vals)
  BY FieldsFit
<1>3. /\ \A n \in 1..Len(forms) : Fits(forms[n], a.vals[n])
      /\ a.vals = [i \in 1..Len(forms) |-> a.vals[i]]
  BY <1>1, <1>2, FitEach
<1> HIDE DEF forms
<1>4. Body(a) \in Seq(Byte)
  BY <1>1, <1>2, <1>3, WrittenAllIsBytes
<1>5. /\ Reply(a) \in Seq(Cell) /\ GetType(Reply(a)) = a.type
      /\ Holds(Reply(a), 7, WrittenAll(forms, a.vals))
  BY <1>2, <1>4, ReplyHeld
<1>6. Gets(forms, Reply(a), 7).val = [i \in 1..Len(forms) |-> a.vals[i]]
  BY <1>1, <1>3, <1>5, GetsWritten
<1>7. Gets(forms, Reply(a), 7).val = a.vals
  BY <1>3, <1>6, Zenon
<1> QED
  BY <1>4, <1>5, <1>7 DEF ParseFields, kHeaderSize, forms

\* Gets of one field.
LEMMA OneGot ==
    ASSUME NEW form, NEW d, NEW off
    PROVE  Gets(<<form>>, d, off).val = <<Get(form, d, off).val>>
<1> DEFINE kinds == <<form>>
<1>1. Len(kinds) = 1 /\ kinds[1] = form
  OBVIOUS
<1> HIDE DEF kinds
<1>2. PICK r : GetsBy(r, kinds, d, off)
  BY <1>1, GetsTurns
<1>3. /\ r[0] = Got(off, << >>) /\ Gets(kinds, d, off) = r[1]
      /\ r[1] = GetTurn(kinds, d, 1, r[0])
  <2>1. 1 \in 1..Len(kinds) /\ 1 - 1 = 0
    BY <1>1
  <2>2. r[1] = GetTurn(kinds, d, 1, r[1 - 1])
    BY <1>2, <2>1, Zenon DEF GetsBy
  <2> QED
    BY <1>1, <1>2, <2>1, <2>2 DEF GetsBy
<1>4. GetTurn(kinds, d, 1, Got(off, << >>)).val = Append(<< >>, Get(form, d, off).val)
  BY <1>1 DEF GetTurn, Got
<1>5. Append(<< >>, Get(form, d, off).val) = <<Get(form, d, off).val>>
  OBVIOUS
<1> QED
  BY <1>3, <1>4, <1>5, Zenon DEF kinds

\* IsRlerror reads the code of an error.
LEMMA ErrorRead ==
    ASSUME ServerKeepsToLayouts, NEW a \in Answers, a.type = "Rlerror"
    PROVE  ErrorCode(Reply(a)) = a.vals[1]
<1>1. a.type \in DOMAIN ReplyLayout /\ ReplyLayout[a.type] = <<"u32">>
  BY DEF ReplyLayout
<1>2. ParseFields(Reply(a), a.type, <<"u32">>) = [ok |-> TRUE, vals |-> a.vals]
  BY <1>1, FieldsRead
<1>3. GetType(Reply(a)) = a.type
  BY <1>1, FieldsRead, ReplyHeld
<1>4. Gets(<<"u32">>, Reply(a), 7).val = a.vals
  BY <1>2, <1>3 DEF ParseFields, kHeaderSize
<1>5. Gets(<<"u32">>, Reply(a), 7).val = <<Get("u32", Reply(a), 7).val>>
  BY OneGot
<1>6. Get("u32", Reply(a), 7) = GetU32(Reply(a), 7)
  BY DEF Get
<1>7. a.vals[1] = GetU32(Reply(a), 7).val
  BY <1>4, <1>5, <1>6
<1> QED
  BY <1>3, <1>7 DEF ErrorCode, kHeaderSize

\* ParseRread reads the data.
LEMMA ReadRead ==
    ASSUME ServerKeepsToLayouts, NEW a \in Answers, a.type = "Rread"
    PROVE  /\ Body(a) \in Seq(Byte)
           /\ ParseRread(Reply(a)) = [ok |-> TRUE, vals |-> a.vals]
<1> DEFINE v == a.vals[1]
<1>1. v \in Seq(Byte) /\ Len(v) < Two32 /\ a.vals = <<v>>
  <2>1. FitAll(<<"data">>, a.vals)
    BY DEF ServerKeepsToLayouts
  <2>2. /\ \A n \in 1..1 : Fits(<<"data">>[n], a.vals[n])
        /\ a.vals = [i \in 1..1 |-> a.vals[i]]
    BY <2>1 DEF FitAll
  <2>3. Fits("data", v)
    BY <2>2
  <2>4. a.vals = <<v>>
    BY <2>2
  <2> QED
    BY <2>3, <2>4 DEF Fits
<1>2. Body(a) = Four(Len(v)) \o v
  BY DEF Body
<1> HIDE DEF v
<1>3. Len(v) \in U32 /\ Len(v) \in Nat
  BY <1>1, Widths DEF U32
<1>4. Four(Len(v)) \in Seq(Byte) /\ Len(Four(Len(v))) = 4
  BY <1>3, FourIsBytes
<1>5. Body(a) \in Seq(Byte)
  BY <1>1, <1>2, <1>4, Joined
<1>6. /\ Reply(a) \in Seq(Cell) /\ GetType(Reply(a)) = "Rread"
      /\ Holds(Reply(a), 7, Four(Len(v)) \o v)
  BY <1>2, <1>5, ReplyHeld
<1> DEFINE w == Reply(a)
<1> HIDE DEF w
<1>7. Holds(w, 7, Four(Len(v))) /\ Holds(w, 11, v)
  <2>1. Four(Len(v)) \in Seq(Cell) /\ v \in Seq(Cell)
    BY <1>1, <1>4, BytesAreCells
  <2>2. Holds(w, 7, Four(Len(v))) /\ Holds(w, 7 + Len(Four(Len(v))), v)
    BY <1>6, <2>1, HoldsParts DEF w
  <2> QED
    BY <1>4, <2>2
<1>8. GetU32(w, 7) = Got(11, Len(v))
  <2>1. GetU32(w, 7) = Got(7 + 4, Len(v))
    BY <1>3, <1>6, <1>7, GotHeld DEF w
  <2> QED
    BY <2>1
<1>9. GetBytes(w, 11, Len(v)) = Got(11 + Len(v), v)
  <2>1. v \in Seq(Cell)
    BY <1>1, BytesAreCells
  <2>2. /\ 11 + Len(v) <= Len(w) /\ SubSeq(w, 11 + 1, 11 + Len(v)) = v
    BY <1>6, <1>7, <2>1, BytesHeld DEF w
  <2>3. Len(w) \in Nat /\ Len(w) < Two32
    BY <1>5, ReplyLength DEF w
  <2>4. 11 + Len(v) \in Nat /\ 11 + Len(v) < Two32
    BY <1>3, <2>2, <2>3, Widths
  <2>5. (11 + Len(v)) % Two32 = 11 + Len(v)
    BY <2>4, Unwrapped
  <2>6. ~ (11 + Len(v) > Len(w))
    BY <1>3, <2>2, <2>3
  <2> QED
    BY <2>2, <2>5, <2>6, Zenon DEF GetBytes
<1>10. GetBytes(w, GetU32(w, 7).off, GetU32(w, 7).val).val = v
  BY <1>8, <1>9 DEF Got
<1>11. ParseRread(w) = [ok |-> TRUE, vals |-> <<v>>]
  BY <1>6, <1>10 DEF ParseRread, kHeaderSize, w
<1> QED
  BY <1>1, <1>5, <1>11 DEF w

\* ParseRwalk reads every qid.
LEMMA WalkRead ==
    ASSUME ServerKeepsToLayouts, NEW a \in Answers, a.type = "Rwalk"
    PROVE  /\ Body(a) \in Seq(Byte)
           /\ ParseRwalk(Reply(a)) = [ok |-> TRUE, vals |-> a.vals]
<1> DEFINE n == Len(a.vals)
           forms == [i \in 1..n |-> "qid"]
<1>1. n \in 0..Two16 - 1 /\ FitAll(forms, a.vals)
  BY DEF ServerKeepsToLayouts
<1>2. n \in Nat
  BY <1>1, Widths
<1>3. Len(forms) = n /\ \A i \in 1..n : forms[i] = "qid"
  BY <1>2, SameForms
<1>4. DOMAIN forms = 1..n
  OBVIOUS
<1>5. Body(a) = Two(n) \o WrittenAll(forms, a.vals)
  BY DEF Body, Each
<1> HIDE DEF forms, n
<1>6. /\ \A i \in 1..Len(forms) : forms[i] \in Kinds /\ Fits(forms[i], a.vals[i])
      /\ a.vals = [i \in 1..Len(forms) |-> a.vals[i]]
  <2>1. /\ \A i \in 1..Len(forms) : Fits(forms[i], a.vals[i])
        /\ a.vals = [i \in 1..Len(forms) |-> a.vals[i]]
    BY <1>1, <1>2, <1>3, <1>4, FitEach
  <2>2. \A i \in 1..Len(forms) : forms[i] \in Kinds
    BY <1>3 DEF Kinds
  <2> QED
    BY <2>1, <2>2
<1> DEFINE qids == WrittenAll(forms, a.vals)
<1>7. qids \in Seq(Byte)
  BY <1>2, <1>3, <1>6, WrittenAllIsBytes
<1>8. Two(n) \in Seq(Byte) /\ Len(Two(n)) = 2
  BY <1>1, TwoIsBytes
<1> HIDE DEF qids
<1>9. Body(a) \in Seq(Byte) /\ Body(a) = Two(n) \o qids
  <2>1. Body(a) = Two(n) \o qids
    BY <1>5 DEF qids
  <2>2. Two(n) \o qids \in Seq(Byte)
    BY <1>7, <1>8, Joined
  <2> QED
    BY <2>1, <2>2
<1>10. /\ Reply(a) \in Seq(Cell) /\ GetType(Reply(a)) = "Rwalk"
       /\ Holds(Reply(a), 7, Two(n) \o qids)
  BY <1>9, ReplyHeld
<1> DEFINE w == Reply(a)
<1> HIDE DEF w
<1>11. Holds(w, 7, Two(n)) /\ Holds(w, 9, qids)
  <2>1. Two(n) \in Seq(Cell) /\ qids \in Seq(Cell)
    BY <1>7, <1>8, BytesAreCells
  <2>2. Holds(w, 7, Two(n)) /\ Holds(w, 7 + Len(Two(n)), qids)
    BY <1>10, <2>1, HoldsParts DEF w
  <2> QED
    BY <1>8, <2>2
<1>12. GetU16(w, 7) = Got(9, n)
  <2>1. GetU16(w, 7) = Got(7 + 2, n)
    BY <1>1, <1>10, <1>11, GotHeld DEF w
  <2> QED
    BY <2>1
<1>13. Gets(forms, w, 9).val = a.vals
  <2>1. Gets(forms, w, 9).val = [i \in 1..Len(forms) |-> a.vals[i]]
    BY <1>2, <1>3, <1>6, <1>10, <1>11, GetsWritten DEF w, qids
  <2> QED
    BY <1>6, <2>1, Zenon
<1>14. GetU16(w, 7).off = 9 /\ GetU16(w, 7).val = n
  BY <1>12 DEF Got
<1>15. Gets([i \in 1..GetU16(w, 7).val |-> "qid"], w, GetU16(w, 7).off).val = a.vals
  BY <1>13, <1>14, Zenon DEF forms
<1>16. ParseRwalk(w) = [ok |-> TRUE, vals |-> a.vals]
  BY <1>10, <1>15 DEF ParseRwalk, kHeaderSize, w
<1> QED
  BY <1>9, <1>16 DEF w

\* ParseRreaddir reads every entry.
LEMMA ReaddirRead ==
    ASSUME ServerKeepsToLayouts, NEW a \in Answers, a.type = "Rreaddir"
    PROVE  /\ Body(a) \in Seq(Byte) /\ FourAt(Reply(a), 7) \in Nat
           /\ GetU32(Reply(a), 7).val = FourAt(Reply(a), 7)
           /\ ParseRreaddir(Reply(a)) = [ok |-> TRUE, vals |-> a.vals]
<1> DEFINE n == Len(a.vals)
           forms == [i \in 1..n |-> "entry"]
           entries == WrittenAll(forms, a.vals)
<1>1. n \in Nat /\ FitAll(forms, a.vals) /\ Len(entries) < Two32
  BY DEF ServerKeepsToLayouts, Each
<1>2. Len(forms) = n /\ \A i \in 1..n : forms[i] = "entry"
  BY <1>1, SameForms
<1>3. DOMAIN forms = 1..n
  OBVIOUS
<1>4. Body(a) = Four(Len(entries)) \o entries /\ entries = Each("entry", a.vals)
  BY DEF Body, Each
<1> HIDE DEF forms, n
<1>5. /\ \A i \in 1..n : Fits("entry", a.vals[i]) /\ forms[i] = "entry"
      /\ a.vals = [i \in 1..n |-> a.vals[i]]
  <2>1. DOMAIN forms = 1..Len(forms)
    BY <1>2, <1>3
  <2>2. /\ \A i \in 1..Len(forms) : Fits(forms[i], a.vals[i])
        /\ a.vals = [i \in 1..Len(forms) |-> a.vals[i]]
    BY <1>1, <2>1, FitEach
  <2> QED
    BY <1>2, <2>2
<1>6. entries \in Seq(Byte)
  <2>1. \A i \in 1..Len(forms) : forms[i] \in Kinds \cup {"entry"} /\ Fits(forms[i], a.vals[i])
    BY <1>2, <1>5
  <2> QED
    BY <1>1, <1>2, <2>1, WrittenAllIsBytes
<1> HIDE DEF entries
<1>7. Len(entries) \in U32 /\ Len(entries) \in Nat
  BY <1>1, <1>6, Widths DEF U32
<1>8. Four(Len(entries)) \in Seq(Byte) /\ Len(Four(Len(entries))) = 4
  BY <1>7, FourIsBytes
<1>9. Body(a) \in Seq(Byte)
  BY <1>4, <1>6, <1>8, Joined
<1>10. /\ Reply(a) \in Seq(Cell) /\ GetType(Reply(a)) = "Rreaddir"
       /\ Holds(Reply(a), 7, Four(Len(entries)) \o entries)
  BY <1>4, <1>9, ReplyHeld
<1> DEFINE w == Reply(a)
<1> HIDE DEF w
<1>11. Holds(w, 7, Four(Len(entries))) /\ Holds(w, 11, entries)
  <2>1. Four(Len(entries)) \in Seq(Cell) /\ entries \in Seq(Cell)
    BY <1>6, <1>8, BytesAreCells
  <2>2. Holds(w, 7, Four(Len(entries))) /\ Holds(w, 7 + Len(Four(Len(entries))), entries)
    BY <1>10, <2>1, HoldsParts DEF w
  <2> QED
    BY <1>8, <2>2
<1>12. GetU32(w, 7) = Got(11, Len(entries)) /\ FourAt(w, 7) = Len(entries)
  <2>1. GetU32(w, 7) = Got(7 + 4, Len(entries))
    BY <1>7, <1>10, <1>11, GotHeld DEF w
  <2>2. FourAt(w, 7) = Len(entries)
    BY <1>7, <1>10, <1>11, FourHeldAs DEF w
  <2> QED
    BY <2>1, <2>2
<1>13. GetU32(w, 7).off = 11 /\ GetU32(w, 7).val = Len(entries)
  BY <1>12 DEF Got
<1>14. Entries(w, 11, Len(entries)) = a.vals
  <2>1. Holds(w, 11, Each("entry", a.vals)) /\ w \in Seq(Cell)
    BY <1>4, <1>10, <1>11 DEF w
  <2>2. Len(a.vals) \in Nat /\ \A i \in 1..Len(a.vals) : Fits("entry", a.vals[i])
    BY <1>1, <1>5 DEF n
  <2>3. Entries(w, 11, Len(Each("entry", a.vals))) = [i \in 1..Len(a.vals) |-> a.vals[i]]
    <3>1. 11 \in Nat
      OBVIOUS
    <3> QED
      BY <2>1, <2>2, <3>1, EntriesWritten, ZenonT(40)
  <2> QED
    BY <1>4, <1>5, <2>3, Zenon DEF n
<1>15. ParseRreaddir(w) = [ok |-> TRUE, vals |-> a.vals]
  BY <1>10, <1>13, <1>14 DEF ParseRreaddir, kHeaderSize, w
<1> QED
  BY <1>7, <1>9, <1>12, <1>13, <1>15 DEF w

\* The requests whose replies have a fixed layout.
FixedReplies == DOMAIN ReplyTo \ {"Twalk", "Tread", "Treaddir"}

\* The parsers of the replies of fixed layout read what the layout says.
LEMMA ParsesByLayout ==
    ASSUME NEW t \in FixedReplies, NEW d
    PROVE  /\ ReplyTo[t] \in DOMAIN ReplyLayout
           /\ Parse(t, d) = ParseFields(d, ReplyTo[t], ReplyLayout[ReplyTo[t]])
<1>1. CASE t = "Tversion"
  BY <1>1 DEF Parse, ReplyTo, ReplyLayout, ParseRversion
<1>2. CASE t = "Tattach"
  BY <1>2 DEF Parse, ReplyTo, ReplyLayout, ParseRattach
<1>3. CASE t = "Tlopen"
  BY <1>3 DEF Parse, ReplyTo, ReplyLayout, ParseRlopen
<1>4. CASE t = "Tclunk"
  BY <1>4 DEF Parse, ReplyTo, ReplyLayout, ParseRclunk
<1>5. CASE t = "Tgetattr"
  <2>1. /\ Parse(t, d) = ParseFields(d, "Rgetattr", StatFields)
        /\ ReplyTo[t] = "Rgetattr" /\ "Rgetattr" \in DOMAIN ReplyLayout
    BY <1>5 DEF Parse, ReplyTo, ReplyLayout, ParseRgetattr
  <2>2. ReplyLayout["Rgetattr"] = StatFields
    BY DEF ReplyLayout, StatFields
  <2> QED
    BY <2>1, <2>2
<1>6. CASE t = "Twrite"
  BY <1>6 DEF Parse, ReplyTo, ReplyLayout, ParseRwrite
<1>7. CASE t = "Tlcreate"
  BY <1>7 DEF Parse, ReplyTo, ReplyLayout, ParseRlcreate
<1>8. CASE t = "Tmkdir"
  BY <1>8 DEF Parse, ReplyTo, ReplyLayout, ParseRmkdir
<1>9. CASE t = "Tunlinkat"
  BY <1>9 DEF Parse, ReplyTo, ReplyLayout, ParseRunlinkat
<1>10. CASE t = "Trenameat"
  BY <1>10 DEF Parse, ReplyTo, ReplyLayout, ParseRrenameat
<1> QED
  BY <1>1, <1>2, <1>3, <1>4, <1>5, <1>6, <1>7, <1>8, <1>9, <1>10 DEF FixedReplies, ReplyTo

\* Whatever the request, the parser of its reply returns what the server put in it.
LEMMA ReplyRead ==
    ASSUME ServerKeepsToLayouts, NEW c, c.type \in DOMAIN ReplyTo, NEW a \in Answers,
           a.type = ReplyTo[c.type]
    PROVE  ReplyResult(c, Reply(a)) = [rc |-> "ok", code |-> 0, vals |-> a.vals]
<1>1. /\ GetType(Reply(a)) = a.type
      /\ Parse(c.type, Reply(a)) = [ok |-> TRUE, vals |-> a.vals]
  <2>1. CASE c.type \in FixedReplies
    <3>1. /\ a.type \in DOMAIN ReplyLayout
          /\ Parse(c.type, Reply(a)) = ParseFields(Reply(a), a.type, ReplyLayout[a.type])
      BY <2>1, ParsesByLayout
    <3> QED
      BY <3>1, FieldsRead, ReplyHeld
  <2>2. CASE c.type = "Twalk"
    <3>1. a.type = "Rwalk" /\ Parse(c.type, Reply(a)) = ParseRwalk(Reply(a))
      BY <2>2 DEF ReplyTo, Parse
    <3> QED
      BY <3>1, WalkRead, ReplyHeld
  <2>3. CASE c.type = "Tread"
    <3>1. a.type = "Rread" /\ Parse(c.type, Reply(a)) = ParseRread(Reply(a))
      BY <2>3 DEF ReplyTo, Parse
    <3> QED
      BY <3>1, ReadRead, ReplyHeld
  <2>4. CASE c.type = "Treaddir"
    <3>1. a.type = "Rreaddir" /\ Parse(c.type, Reply(a)) = ParseRreaddir(Reply(a))
      BY <2>4 DEF ReplyTo, Parse
    <3> QED
      BY <3>1, ReaddirRead, ReplyHeld
  <2> QED
    BY <2>1, <2>2, <2>3, <2>4 DEF FixedReplies
<1>2. a.type # "Rlerror"
  BY DEF ReplyTo
<1>3. ErrorCode(Reply(a)) = 0
  BY <1>1, <1>2 DEF ErrorCode
<1> DEFINE p == Parse(c.type, Reply(a))
<1>4. p.ok /\ p.vals = a.vals
  BY <1>1
<1> HIDE DEF p
<1> QED
  BY <1>3, <1>4 DEF ReplyResult, p

\* An error with a code comes to the session as that code.
LEMMA ErrorReported ==
    ASSUME ServerKeepsToLayouts, NEW c, NEW a \in Answers, a.type = "Rlerror", a.vals[1] # 0
    PROVE  ReplyResult(c, Reply(a)).rc = "error" /\ ReplyResult(c, Reply(a)).code = a.vals[1]
BY ErrorRead DEF ReplyResult

-----------------------------------------------------------------------------
(* What the server reads.                                                 *)

\* What the builders put for a field of each form.
TextCells(v) == Two(Len(v)) \o v
Sent(form, v) ==
    CASE form = "u32"   -> Four(v)
      [] form = "u64"   -> Eight(v)
      [] form = "s"     -> TextCells(v)
      [] form = "data"  -> Four(Len(v)) \o v
      [] form = "names" -> Two(Len(v)) \o FlattenSeq([i \in 1..Len(v) |-> TextCells(v[i])])
SentForms == {"u32", "u64", "s", "data", "names"}

\* What a turn of Texts makes of the names so far, and what all turns make.
TextTurn(d, r) == LET t == Text(d, r.off) IN Got(t.off, Append(r.val, t.val))
TextsBy(r, d, from, n) ==
    /\ r[0] = Got(from, << >>) /\ Texts(d, from, n) = r[n]
    /\ \A k \in 1..n : r[k] = TextTurn(d, r[k - 1])

\* The recursive function of Texts is there, and takes these turns.
LEMMA TextsTurns ==
    ASSUME NEW d, NEW from, NEW N \in Nat
    PROVE  \E r : TextsBy(r, d, from, N)
<1> DEFINE First == Got(from, << >>)
           Turn(r) == LET t == Text(d, r.off) IN Got(t.off, Append(r.val, t.val))
           Is(f, m) == f = [k \in 0..m |-> IF k = 0 THEN First ELSE Turn(f[k - 1])]
           T == {m \in Nat : \E f : Is(f, m)}
           text == CHOOSE f : Is(f, N)
<1>1. Texts(d, from, N) = text[N]
  BY DEF Texts
<1> HIDE DEF Turn, First
<1>2. 0 \in T
  <2>1. Is([n \in 0..0 |-> First], 0)
    OBVIOUS
  <2> QED
    BY <2>1
<1>3. ASSUME NEW m \in 1..N, m - 1 \in T PROVE m \in T
  <2>1. PICK f : Is(f, m - 1)
    BY <1>3
  <2> DEFINE g == [n \in 0..m |-> IF n = m THEN Turn(f[n - 1]) ELSE f[n]]
  <2>2. Is(g, m)
    <3>1. ASSUME NEW n \in 0..m PROVE g[n] = IF n = 0 THEN First ELSE Turn(g[n - 1])
      <4>1. CASE n = m
        BY <1>3, <4>1
      <4>2. CASE n # m
        BY <1>3, <2>1, <4>2
      <4> QED
        BY <4>1, <4>2
    <3> QED
      BY <3>1
  <2>3. m \in Nat
    BY <1>3
  <2> HIDE DEF Is, g
  <2> QED
    BY <2>2, <2>3
<1>4. \E f : Is(f, N)
  <2> HIDE DEF Is
  <2>1. 0..N \subseteq T
    BY <1>2, <1>3, CountTo
  <2> QED
    BY <2>1
<1>5. Is(text, N)
  BY <1>4
<1> HIDE DEF text
<1>6. text[0] = First /\ \A n \in 1..N : text[n] = Turn(text[n - 1])
  BY <1>5
<1> QED
  BY <1>1, <1>6 DEF First, Turn, TextTurn, TextsBy

\* One turn of Texts.
LEMMA TextTurnMakes ==
    ASSUME NEW d, NEW o, NEW v, NEW x, NEW y, Text(d, o) = Got(x, y)
    PROVE  TextTurn(d, Got(o, v)) = Got(x, Append(v, y))
BY DEF TextTurn, Got

\* The server reads the names of a Twalk.
LEMMA TextsHeld ==
    ASSUME NEW d \in Seq(Cell), NEW off \in Nat, NEW v, Len(v) \in Nat,
           \A i \in 1..Len(v) : IsText(v[i]),
           Holds(d, off, FlattenSeq([i \in 1..Len(v) |-> TextCells(v[i])]))
    PROVE  Texts(d, off, Len(v))
             = Got(off + Len(FlattenSeq([i \in 1..Len(v) |-> TextCells(v[i])])),
                   [i \in 1..Len(v) |-> v[i]])
<1> DEFINE N == Len(v)
           p == [i \in 1..N |-> TextCells(v[i])]
<1>1. p \in [1..N -> Seq(Byte)]
  BY TextIsBytes DEF TextCells
<1>2. Holds(d, off, FlattenSeq(p))
  OBVIOUS
<1>3. \A n \in 1..N : p[n] = TextCells(v[n])
  OBVIOUS
<1>a. Len(FlattenSeq([i \in 1..Len(v) |-> TextCells(v[i])])) = Len(FlattenSeq(p))
  OBVIOUS
<1> HIDE DEF p
<1>p. PICK at : PartsAt(at, d, off, N, p)
  BY <1>1, <1>2, FlatHeld
<1>4. /\ at[0] = off /\ at[N] = off + Len(FlattenSeq(p))
      /\ \A n \in 0..N : at[n] \in Nat
      /\ \A n \in 1..N : Holds(d, at[n - 1], p[n]) /\ at[n] = at[n - 1] + Len(p[n])
  BY <1>p DEF PartsAt
<1>g. PICK r : TextsBy(r, d, off, N)
  BY TextsTurns
<1>5. /\ r[0] = Got(off, << >>) /\ Texts(d, off, N) = r[N]
      /\ \A n \in 1..N : r[n] = TextTurn(d, r[n - 1])
  BY <1>g DEF TextsBy
<1> DEFINE Upto(n) == [i \in 1..n |-> v[i]]
           T == {n \in 0..N : r[n] = Got(at[n], Upto(n))}
<1>6. 0 \in T
  <2>1. Upto(0) = << >>
    OBVIOUS
  <2> HIDE DEF Upto
  <2> QED
    BY <1>4, <1>5, <2>1
<1>7. ASSUME NEW n \in 1..N, n - 1 \in T PROVE n \in T
  <2>1. Append(Upto(n - 1), v[n]) = Upto(n)
    BY AppendNext
  <2> HIDE DEF Upto
  <2>2. r[n - 1] = Got(at[n - 1], Upto(n - 1)) /\ at[n - 1] \in Nat
    BY <1>4, <1>7
  <2>3. Text(d, at[n - 1]) = Got(at[n], v[n])
    <3>1. /\ Holds(d, at[n - 1], Two(Len(v[n])) \o v[n]) /\ IsText(v[n])
          /\ at[n] = at[n - 1] + Len(Two(Len(v[n])) \o v[n])
      BY <1>3, <1>4 DEF TextCells
    <3>2. Len(Two(Len(v[n])) \o v[n]) = 2 + Len(v[n])
      BY <3>1, TextIsBytes
    <3>3. Text(d, at[n - 1]) = Got(at[n - 1] + (2 + Len(v[n])), v[n])
      BY <2>2, <3>1, TextHeld
    <3> QED
      BY <3>1, <3>2, <3>3, Zenon
  <2>4. r[n] = Got(at[n], Append(Upto(n - 1), v[n]))
    <3>1. TextTurn(d, Got(at[n - 1], Upto(n - 1))) = Got(at[n], Append(Upto(n - 1), v[n]))
      BY <2>3, TextTurnMakes
    <3>2. r[n] = TextTurn(d, r[n - 1])
      BY <1>5
    <3> QED
      BY <2>2, <3>1, <3>2, Zenon
  <2>5. r[n] = Got(at[n], Upto(n))
    BY <2>1, <2>4, Zenon
  <2>6. n \in 0..N
    OBVIOUS
  <2> QED
    BY <2>5, <2>6, Zenon
<1> HIDE DEF T
<1>8. N \in T
  <2>1. 0..N \subseteq T
    BY <1>6, <1>7, CountTo
  <2> QED
    BY <2>1
<1> HIDE DEF Upto
<1>9. Texts(d, off, N) = Got(off + Len(FlattenSeq(p)), Upto(N))
  BY <1>4, <1>5, <1>8 DEF T
<1> QED
  BY <1>9, <1>a, Zenon DEF Upto

\* What is put for the data of a write.
LEMMA DataIsBytes ==
    ASSUME NEW v \in Seq(Byte), Len(v) < Two32
    PROVE  /\ Len(v) \in U32 /\ Four(Len(v)) \in Seq(Byte) /\ Len(Four(Len(v))) = 4
           /\ Four(Len(v)) \o v \in Seq(Byte) /\ Len(Four(Len(v)) \o v) = 4 + Len(v)
<1>1. Len(v) \in U32
  BY Widths DEF U32
<1>2. Four(Len(v)) \in Seq(Byte) /\ Len(Four(Len(v))) = 4
  BY <1>1, FourIsBytes
<1> QED
  BY <1>1, <1>2, Joined

\* The server reads the data of a Twrite.
LEMMA DataHeld ==
    ASSUME NEW d \in Seq(Cell), NEW off \in Nat, NEW v \in Seq(Byte), Len(v) < Two32,
           Holds(d, off, Four(Len(v)) \o v)
    PROVE  Field("data", d, off) = Got(off + (4 + Len(v)), v)
<1>1. /\ Len(v) \in U32 /\ Four(Len(v)) \in Seq(Cell) /\ Len(Four(Len(v))) = 4
      /\ v \in Seq(Cell)
  BY DataIsBytes, BytesAreCells
<1>2. Holds(d, off, Four(Len(v))) /\ Holds(d, off + 4, v)
  BY <1>1, HoldsParts
<1>3. FourAt(d, off) = Len(v)
  BY <1>1, <1>2, FourHeldAs
<1>4. /\ off + 4 \in Nat /\ (off + 4) + 1 = off + 5
      /\ (off + 4) + Len(v) = off + (4 + Len(v)) /\ off + 4 + Len(v) = off + (4 + Len(v))
  OBVIOUS
<1>5. SubSeq(d, (off + 4) + 1, (off + 4) + Len(v)) = v
  BY <1>1, <1>2, <1>4, BytesHeld
<1>6. Field("data", d, off) = Got(off + 4 + Len(v), SubSeq(d, off + 5, off + 4 + Len(v)))
  BY <1>3 DEF Field
<1> QED
  BY <1>4, <1>5, <1>6, Zenon

\* What is put for the names of a walk, behind their number.
NamesCells(v) == FlattenSeq([i \in 1..Len(v) |-> TextCells(v[i])])

\* What is put for the names of a walk.
LEMMA NamesAreBytes ==
    ASSUME NEW v, Fits("names", v)
    PROVE  /\ Len(v) \in 0..Two16 - 1 /\ Len(v) \in Nat /\ v = [i \in 1..Len(v) |-> v[i]]
           /\ \A i \in 1..Len(v) : IsText(v[i])
           /\ NamesCells(v) \in Seq(Byte)
           /\ Two(Len(v)) \in Seq(Byte) /\ Len(Two(Len(v))) = 2
           /\ Two(Len(v)) \o NamesCells(v) \in Seq(Byte)
           /\ Len(Two(Len(v)) \o NamesCells(v)) = 2 + Len(NamesCells(v))
<1>0. v \in Seq(Seq(Byte)) /\ Len(v) < Two16 /\ \A i \in DOMAIN v : IsText(v[i])
  BY DEF Fits
<1>1. Len(v) \in 0..Two16 - 1 /\ Len(v) \in Nat /\ \A i \in 1..Len(v) : IsText(v[i])
  BY <1>0, Widths
<1>2. v = [i \in 1..Len(v) |-> v[i]]
  BY <1>0
<1>3. NamesCells(v) \in Seq(Byte)
  <2> DEFINE p == [i \in 1..Len(v) |-> TextCells(v[i])]
  <2>1. p \in [1..Len(v) -> Seq(Byte)]
    BY <1>1, TextIsBytes DEF TextCells
  <2>2. NamesCells(v) = FlattenSeq(p)
    BY DEF NamesCells
  <2> HIDE DEF p
  <2> QED
    BY <1>1, <2>1, <2>2, FlatIsBytes
<1>4. Two(Len(v)) \in Seq(Byte) /\ Len(Two(Len(v))) = 2
  BY <1>1, TwoIsBytes
<1>5. /\ Two(Len(v)) \o NamesCells(v) \in Seq(Byte)
      /\ Len(Two(Len(v)) \o NamesCells(v)) = 2 + Len(NamesCells(v))
  BY <1>3, <1>4, Joined
<1> QED
  BY <1>1, <1>2, <1>3, <1>4, <1>5, Zenon

\* The server reads all the names of a Twalk.
LEMMA NamesHeld ==
    ASSUME NEW d \in Seq(Cell), NEW off \in Nat, NEW v, Fits("names", v),
           Holds(d, off, Two(Len(v)) \o NamesCells(v))
    PROVE  Field("names", d, off) = Got(off + (2 + Len(NamesCells(v))), v)
<1>1. /\ Two(Len(v)) \in Seq(Cell) /\ Len(Two(Len(v))) = 2 /\ NamesCells(v) \in Seq(Cell)
      /\ Len(NamesCells(v)) \in Nat
  <2>1. Two(Len(v)) \in Seq(Byte) /\ Len(Two(Len(v))) = 2 /\ NamesCells(v) \in Seq(Byte)
    BY NamesAreBytes
  <2> QED
    BY <2>1, BytesAreCells
<1>2. Holds(d, off, Two(Len(v))) /\ Holds(d, off + 2, NamesCells(v))
  BY <1>1, HoldsParts
<1>3. TwoAt(d, off) = Len(v)
  BY <1>2, NamesAreBytes, TwoHeld
<1>4. off + 2 \in Nat /\ (off + 2) + Len(NamesCells(v)) = off + (2 + Len(NamesCells(v)))
  BY <1>1
<1>5. Texts(d, off + 2, Len(v)) = Got((off + 2) + Len(NamesCells(v)), v)
  <2>1. /\ Len(v) \in Nat /\ \A i \in 1..Len(v) : IsText(v[i])
        /\ v = [i \in 1..Len(v) |-> v[i]]
    BY NamesAreBytes
  <2>2. Texts(d, off + 2, Len(v))
          = Got((off + 2) + Len(NamesCells(v)), [i \in 1..Len(v) |-> v[i]])
    BY <1>2, <1>4, <2>1, TextsHeld, Zenon DEF NamesCells
  <2> QED
    BY <2>1, <2>2, Zenon
<1>6. Field("names", d, off) = Texts(d, off + 2, Len(v))
  BY <1>3 DEF Field
<1> QED
  BY <1>4, <1>5, <1>6, Zenon

\* What is put for an argument that fits is bytes.
LEMMA SentIsBytes ==
    ASSUME NEW form \in SentForms, NEW v, Fits(form, v)
    PROVE  Sent(form, v) \in Seq(Byte)
<1>1. CASE form = "u32"
  BY <1>1, FourIsBytes DEF Fits, Sent
<1>2. CASE form = "u64"
  BY <1>2, EightIsBytes DEF Fits, Sent
<1>3. CASE form = "s"
  BY <1>3, TextIsBytes DEF Fits, Sent, TextCells
<1>4. CASE form = "data"
  BY <1>4, DataIsBytes DEF Fits, Sent
<1>5. CASE form = "names"
  <2>1. Sent(form, v) = Two(Len(v)) \o NamesCells(v)
    BY <1>5 DEF Sent, NamesCells
  <2> QED
    BY <1>5, <2>1, NamesAreBytes
<1> QED
  BY <1>1, <1>2, <1>3, <1>4, <1>5 DEF SentForms

\* The server reads a field of a request as the driver put it.
LEMMA SentHeld ==
    ASSUME NEW d \in Seq(Cell), NEW off \in Nat, NEW form \in SentForms, NEW v,
           Fits(form, v), Holds(d, off, Sent(form, v))
    PROVE  Field(form, d, off) = Got(off + Len(Sent(form, v)), v)
<1>1. CASE form = "u32"
  <2>1. /\ v \in U32 /\ Sent(form, v) = Four(v)
        /\ Field(form, d, off) = Got(off + 4, FourAt(d, off))
    BY <1>1 DEF Fits, Sent, Field
  <2> QED
    BY <2>1, FourIsBytes, FourHeldAs
<1>2. CASE form = "u64"
  <2>1. /\ v \in U64 /\ Sent(form, v) = Eight(v)
        /\ Field(form, d, off) = Got(off + 8, EightAt(d, off))
    BY <1>2 DEF Fits, Sent, Field
  <2> QED
    BY <2>1, EightIsBytes, EightHeldAs
<1>3. CASE form = "s"
  <2>1. /\ IsText(v) /\ Sent(form, v) = Two(Len(v)) \o v
        /\ Field(form, d, off) = Text(d, off)
    BY <1>3 DEF Fits, Sent, Field, TextCells
  <2>2. Text(d, off) = Got(off + (2 + Len(v)), v)
    BY <2>1, TextHeld
  <2> QED
    BY <2>1, <2>2, TextIsBytes
<1>4. CASE form = "data"
  <2>1. v \in Seq(Byte) /\ Len(v) < Two32 /\ Sent(form, v) = Four(Len(v)) \o v
    BY <1>4 DEF Fits, Sent
  <2>2. Field("data", d, off) = Got(off + (4 + Len(v)), v)
    BY <2>1, DataHeld
  <2>3. Len(Four(Len(v)) \o v) = 4 + Len(v)
    BY <2>1, DataIsBytes
  <2> QED
    BY <1>4, <2>1, <2>2, <2>3, Zenon
<1>5. CASE form = "names"
  <2>1. Fits("names", v) /\ Sent(form, v) = Two(Len(v)) \o NamesCells(v)
    BY <1>5 DEF Sent, NamesCells
  <2>2. Field("names", d, off) = Got(off + (2 + Len(NamesCells(v))), v)
    BY <2>1, NamesHeld
  <2>3. Len(Two(Len(v)) \o NamesCells(v)) = 2 + Len(NamesCells(v))
    BY <2>1, NamesAreBytes
  <2> QED
    BY <1>5, <2>1, <2>2, <2>3, Zenon
<1> QED
  BY <1>1, <1>2, <1>3, <1>4, <1>5 DEF SentForms

-----------------------------------------------------------------------------
(* The fields of a request.                                               *)

\* What a turn of the server's Fields makes, and what all turns make.
FieldTurn(forms, d, n, r) == LET f == Field(forms[n], d, r.off)
                             IN  Got(f.off, Append(r.val, f.val))
FieldsBy(r, forms, d) ==
    /\ r[0] = Got(7, << >>) /\ Fields(forms, d) = r[Len(forms)]
    /\ \A n \in 1..Len(forms) : r[n] = FieldTurn(forms, d, n, r[n - 1])

\* One turn of the server's Fields.
LEMMA FieldTurnMakes ==
    ASSUME NEW forms, NEW d, NEW n, NEW o, NEW v, NEW x, NEW y,
           Field(forms[n], d, o) = Got(x, y)
    PROVE  FieldTurn(forms, d, n, Got(o, v)) = Got(x, Append(v, y))
BY DEF FieldTurn, Got

\* The recursive function of Fields is there, and takes these turns.
LEMMA FieldsTurns ==
    ASSUME NEW forms, Len(forms) \in Nat, NEW d
    PROVE  \E r : FieldsBy(r, forms, d)
<1> DEFINE First == Got(7, << >>)
           Turn(n, r) == LET f == Field(forms[n], d, r.off)
                         IN  Got(f.off, Append(r.val, f.val))
           N == Len(forms)
           Is(f, m) == f = [n \in 0..m |-> IF n = 0 THEN First ELSE Turn(n, f[n - 1])]
           T == {m \in Nat : \E f : Is(f, m)}
           field == CHOOSE f : Is(f, N)
<1>1. Fields(forms, d) = field[N]
  BY DEF Fields
<1> HIDE DEF Turn, First
<1>2. 0 \in T
  <2>1. Is([n \in 0..0 |-> First], 0)
    OBVIOUS
  <2> QED
    BY <2>1
<1>3. ASSUME NEW m \in 1..N, m - 1 \in T PROVE m \in T
  <2>1. PICK f : Is(f, m - 1)
    BY <1>3
  <2> DEFINE g == [n \in 0..m |-> IF n = m THEN Turn(n, f[n - 1]) ELSE f[n]]
  <2>2. Is(g, m)
    <3>1. ASSUME NEW n \in 0..m PROVE g[n] = IF n = 0 THEN First ELSE Turn(n, g[n - 1])
      <4>1. CASE n = m
        BY <1>3, <4>1
      <4>2. CASE n # m
        BY <1>3, <2>1, <4>2
      <4> QED
        BY <4>1, <4>2
    <3> QED
      BY <3>1
  <2>3. m \in Nat
    BY <1>3
  <2> HIDE DEF Is, g
  <2> QED
    BY <2>2, <2>3
<1>4. \E f : Is(f, N)
  <2> HIDE DEF Is
  <2>1. 0..N \subseteq T
    BY <1>2, <1>3, CountTo
  <2> QED
    BY <2>1
<1>5. Is(field, N)
  BY <1>4
<1> HIDE DEF field
<1>6. field[0] = First /\ \A n \in 1..N : field[n] = Turn(n, field[n - 1])
  BY <1>5
<1> QED
  BY <1>1, <1>6 DEF First, Turn, FieldTurn, FieldsBy

\* What is put for the arguments of a request.
SentAll(forms, vals) == FlattenSeq([n \in 1..Len(forms) |-> Sent(forms[n], vals[n])])

\* What is put for arguments that fit is bytes.
LEMMA SentAllIsBytes ==
    ASSUME NEW forms, Len(forms) \in Nat, NEW vals,
           \A n \in 1..Len(forms) : forms[n] \in SentForms /\ Fits(forms[n], vals[n])
    PROVE  SentAll(forms, vals) \in Seq(Byte)
<1> DEFINE N == Len(forms)
           p == [n \in 1..N |-> Sent(forms[n], vals[n])]
<1>1. p \in [1..N -> Seq(Byte)]
  BY SentIsBytes
<1>2. SentAll(forms, vals) = FlattenSeq(p)
  BY DEF SentAll
<1> HIDE DEF p
<1> QED
  BY <1>1, <1>2, FlatIsBytes

\* The server reads all the fields of a request, to its last byte.
LEMMA FieldsSent ==
    ASSUME NEW d \in Seq(Cell), NEW forms, Len(forms) \in Nat, NEW vals,
           \A n \in 1..Len(forms) : forms[n] \in SentForms /\ Fits(forms[n], vals[n]),
           Holds(d, 7, SentAll(forms, vals))
    PROVE  Fields(forms, d) = Got(7 + Len(SentAll(forms, vals)),
                                  [i \in 1..Len(forms) |-> vals[i]])
<1> DEFINE N == Len(forms)
           p == [n \in 1..N |-> Sent(forms[n], vals[n])]
<1>1. p \in [1..N -> Seq(Byte)]
  BY SentIsBytes
<1>2. SentAll(forms, vals) = FlattenSeq(p)
  BY DEF SentAll
<1>3. \A n \in 1..N : p[n] = Sent(forms[n], vals[n])
  OBVIOUS
<1> HIDE DEF p
<1>p. PICK at : PartsAt(at, d, 7, N, p)
  BY <1>1, <1>2, FlatHeld
<1>4. /\ at[0] = 7 /\ at[N] = 7 + Len(FlattenSeq(p))
      /\ \A n \in 0..N : at[n] \in Nat
      /\ \A n \in 1..N : Holds(d, at[n - 1], p[n]) /\ at[n] = at[n - 1] + Len(p[n])
  BY <1>p DEF PartsAt
<1>g. PICK r : FieldsBy(r, forms, d)
  BY FieldsTurns
<1>5. /\ r[0] = Got(7, << >>) /\ Fields(forms, d) = r[N]
      /\ \A n \in 1..N : r[n] = FieldTurn(forms, d, n, r[n - 1])
  BY <1>g DEF FieldsBy
<1> DEFINE Upto(n) == [i \in 1..n |-> vals[i]]
           T == {n \in 0..N : r[n] = Got(at[n], Upto(n))}
<1>6. 0 \in T
  <2>1. Upto(0) = << >>
    OBVIOUS
  <2> HIDE DEF Upto
  <2> QED
    BY <1>4, <1>5, <2>1
<1>7. ASSUME NEW n \in 1..N, n - 1 \in T PROVE n \in T
  <2>1. Append(Upto(n - 1), vals[n]) = Upto(n)
    BY AppendNext
  <2> HIDE DEF Upto
  <2>2. r[n - 1] = Got(at[n - 1], Upto(n - 1)) /\ at[n - 1] \in Nat
    BY <1>4, <1>7
  <2>3. Field(forms[n], d, at[n - 1]) = Got(at[n], vals[n])
    <3>1. /\ Holds(d, at[n - 1], Sent(forms[n], vals[n]))
          /\ at[n] = at[n - 1] + Len(Sent(forms[n], vals[n]))
      BY <1>3, <1>4
    <3> QED
      BY <2>2, <3>1, SentHeld
  <2>4. r[n] = Got(at[n], Append(Upto(n - 1), vals[n]))
    <3>1. FieldTurn(forms, d, n, Got(at[n - 1], Upto(n - 1)))
             = Got(at[n], Append(Upto(n - 1), vals[n]))
      BY <2>3, FieldTurnMakes
    <3>2. r[n] = FieldTurn(forms, d, n, r[n - 1])
      BY <1>5
    <3> QED
      BY <2>2, <3>1, <3>2, Zenon
  <2>5. r[n] = Got(at[n], Upto(n))
    BY <2>1, <2>4, Zenon
  <2>6. n \in 0..N
    OBVIOUS
  <2> QED
    BY <2>5, <2>6, Zenon
<1> HIDE DEF T
<1>8. N \in T
  <2>1. 0..N \subseteq T
    BY <1>6, <1>7, CountTo
  <2> QED
    BY <2>1
<1> HIDE DEF Upto
<1>9. Fields(forms, d) = Got(7 + Len(FlattenSeq(p)), Upto(N))
  BY <1>4, <1>5, <1>8 DEF T
<1> QED
  BY <1>2, <1>9, Zenon DEF Upto

-----------------------------------------------------------------------------
(* The builders.                                                          *)

\* PutU32 appends four bytes, whatever the number.
LEMMA PutU32IsBytes ==
    ASSUME NEW v \in Nat
    PROVE  PutU32(v) \in Seq(Byte) /\ Len(PutU32(v)) = 4
<1>1. \A x \in Nat : x % B \in Byte
  BY Widths DEF Byte
<1>2. /\ v \div B \in Nat /\ v \div Two16 \in Nat /\ v \div (Two16 * B) \in Nat
  BY Widths
<1>3. /\ v % B \in Byte /\ (v \div B) % B \in Byte /\ (v \div Two16) % B \in Byte
      /\ (v \div (Two16 * B)) % B \in Byte
  BY <1>1, <1>2
<1> DEFINE x == v % B
           y == (v \div B) % B
           z == (v \div Two16) % B
           w == (v \div (Two16 * B)) % B
<1>4. PutU32(v) = <<x, y, z, w>>
  BY DEF PutU32
<1> HIDE DEF x, y, z, w
<1>5. x \in Byte /\ y \in Byte /\ z \in Byte /\ w \in Byte
  BY <1>3 DEF x, y, z, w
<1> QED
  BY <1>4, <1>5

\* PutU16 of a number of two bytes appends these.
LEMMA PutU16IsTwo ==
    ASSUME NEW v \in 0..Two16 - 1
    PROVE  PutU16(v) = Two(v)
BY TwoBytes DEF PutU16, Two

\* One sequence of bytes behind another, item by item.
LEMMA JoinedAt ==
    ASSUME NEW p \in Seq(Byte), NEW q \in Seq(Byte)
    PROVE  /\ p \o q \in Seq(Byte) /\ Len(p \o q) = Len(p) + Len(q)
           /\ \A i \in 1..Len(p) : (p \o q)[i] = p[i]
           /\ \A i \in 1..Len(q) : (p \o q)[Len(p) + i] = q[i]
OBVIOUS

\* Two and two are four.
LEMMA TwoPairs ==
    ASSUME NEW x \in Byte, NEW y \in Byte, NEW z \in Byte, NEW w \in Byte
    PROVE  <<x, y>> \o <<z, w>> = <<x, y, z, w>>
<1> DEFINE p == <<x, y>>
           q == <<z, w>>
           s == p \o q
           t == <<x, y, z, w>>
<1>1. p \in Seq(Byte) /\ Len(p) = 2 /\ p[1] = x /\ p[2] = y
  OBVIOUS
<1>2. q \in Seq(Byte) /\ Len(q) = 2 /\ q[1] = z /\ q[2] = w
  OBVIOUS
<1>3. t \in Seq(Byte) /\ Len(t) = 4 /\ t[1] = x /\ t[2] = y /\ t[3] = z /\ t[4] = w
  OBVIOUS
<1> HIDE DEF p, q
<1>4. /\ s \in Seq(Byte) /\ Len(s) = 2 + 2
      /\ \A i \in 1..2 : s[i] = p[i]
      /\ \A i \in 1..2 : s[2 + i] = q[i]
  <2>1. /\ s \in Seq(Byte) /\ Len(s) = Len(p) + Len(q)
        /\ \A i \in 1..Len(p) : s[i] = p[i]
        /\ \A i \in 1..Len(q) : s[Len(p) + i] = q[i]
    <3>1. p \in Seq(Byte) /\ q \in Seq(Byte)
      BY <1>1, <1>2
    <3> QED
      BY <3>1, JoinedAt
  <2> HIDE DEF s
  <2> QED
    BY <1>1, <1>2, <2>1, Zenon
<1> HIDE DEF s, t
<1>5. Len(s) = 4 /\ s[1] = x /\ s[2] = y /\ s[3] = z /\ s[4] = w
  <2>1. s[2 + 1] = z /\ s[2 + 2] = w /\ s[1] = x /\ s[2] = y
    BY <1>1, <1>2, <1>4
  <2> QED
    BY <1>4, <2>1
<1>6. s = t
  BY <1>3, <1>4, <1>5, SameSeq
<1> QED
  BY <1>6 DEF s, t, p, q

\* PutU32 of a number of four bytes appends its two halves.
LEMMA PutU32IsFour ==
    ASSUME NEW v \in U32
    PROVE  PutU32(v) = Four(v)
<1> DEFINE lo == v % Two16
           hi == v \div Two16
<1>1. /\ v % B = lo % B /\ (v \div B) % B = lo \div B
      /\ (v \div Two16) % B = hi % B /\ (v \div (Two16 * B)) % B = hi \div B
  BY FourBytes
<1> HIDE DEF lo, hi
<1>2. PutU32(v) = <<lo % B, lo \div B, hi % B, hi \div B>>
  BY <1>1 DEF PutU32
<1>3. Four(v) = <<lo % B, lo \div B>> \o <<hi % B, hi \div B>>
  BY DEF Four, Two, lo, hi
<1> DEFINE x == lo % B
           y == lo \div B
           z == hi % B
           w == hi \div B
<1>0. x \in Byte /\ y \in Byte /\ z \in Byte /\ w \in Byte
  BY FourBytes, TwoBytes DEF lo, hi
<1> HIDE DEF x, y, z, w
<1>4. <<x, y>> \o <<z, w>> = <<x, y, z, w>>
  BY <1>0, TwoPairs
<1> QED
  BY <1>2, <1>3, <1>4 DEF x, y, z, w

\* Concatenation is associative.
LEMMA Associates ==
    ASSUME NEW p \in Seq(Byte), NEW q \in Seq(Byte), NEW r \in Seq(Byte)
    PROVE  p \o q \o r = p \o (q \o r)
<1> DEFINE x == p \o q
           y == q \o r
           s == x \o r
           t == p \o y
<1>1. /\ x \in Seq(Byte) /\ Len(x) = Len(p) + Len(q)
      /\ \A i \in 1..Len(p) : x[i] = p[i]
      /\ \A i \in 1..Len(q) : x[Len(p) + i] = q[i]
  OBVIOUS
<1>2. /\ y \in Seq(Byte) /\ Len(y) = Len(q) + Len(r)
      /\ \A i \in 1..Len(q) : y[i] = q[i]
      /\ \A i \in 1..Len(r) : y[Len(q) + i] = r[i]
  OBVIOUS
<1> HIDE DEF x, y
<1>3. /\ s \in Seq(Byte) /\ Len(s) = Len(x) + Len(r)
      /\ \A i \in 1..Len(x) : s[i] = x[i]
      /\ \A i \in 1..Len(r) : s[Len(x) + i] = r[i]
  BY <1>1, JoinedAt
<1>4. /\ t \in Seq(Byte) /\ Len(t) = Len(p) + Len(y)
      /\ \A i \in 1..Len(p) : t[i] = p[i]
      /\ \A i \in 1..Len(y) : t[Len(p) + i] = y[i]
  BY <1>2, JoinedAt
<1>5. Len(p) \in Nat /\ Len(q) \in Nat /\ Len(r) \in Nat
  OBVIOUS
<1> HIDE DEF s, t
<1>6. ASSUME NEW i \in 1..Len(s) PROVE s[i] = t[i]
  <2>1. CASE i <= Len(p)
    BY <1>1, <1>3, <1>4, <1>5, <2>1
  <2>2. CASE i > Len(p) /\ i <= Len(x)
    <3>1. PICK j \in 1..Len(q) : i = Len(p) + j
      <4>1. i - Len(p) \in 1..Len(q) /\ i = Len(p) + (i - Len(p))
        BY <1>1, <1>5, <2>2
      <4> QED
        BY <4>1
    <3>2. s[i] = q[j]
      BY <1>1, <1>3, <2>2, <3>1
    <3>3. t[i] = q[j]
      <4>1. j \in 1..Len(y)
        BY <1>2, <1>5
      <4> QED
        BY <1>2, <1>4, <3>1, <4>1
    <3> QED
      BY <3>2, <3>3
  <2>3. CASE i > Len(x)
    <3>1. PICK j \in 1..Len(r) : i = Len(x) + j
      <4>1. i - Len(x) \in 1..Len(r) /\ i = Len(x) + (i - Len(x))
        BY <1>1, <1>3, <1>5, <2>3
      <4> QED
        BY <4>1
    <3>2. s[i] = r[j]
      BY <1>3, <3>1
    <3>3. t[i] = r[j]
      <4>1. Len(q) + j \in 1..Len(y) /\ i = Len(p) + (Len(q) + j)
        BY <1>1, <1>2, <1>5, <3>1
      <4> QED
        BY <1>2, <1>4, <4>1
    <3> QED
      BY <3>2, <3>3
  <2> QED
    BY <1>1, <1>5, <2>1, <2>2, <2>3
<1>7. s = t
  <2>1. Len(s) = Len(t)
    BY <1>1, <1>2, <1>3, <1>4, <1>5
  <2> QED
    BY <1>3, <1>4, <1>6, <2>1, SameSeq
<1> QED
  BY <1>7 DEF s, t, x, y

\* The builders put for every field what the layout says.
LEMMA PutsSend ==
    /\ \A v : Fits("u32", v) => PutU32(v) = Sent("u32", v)
    /\ \A v : Fits("u64", v) => PutU64(v) = Sent("u64", v)
    /\ \A v : Fits("s", v) => PutString(v) = Sent("s", v)
    /\ \A v : Fits("data", v) => PutU32(Len(v)) \o PutBytes(v) = Sent("data", v)
    /\ \A v : Fits("names", v) =>
         PutU16(Len(v)) \o FlattenSeq([i \in DOMAIN v |-> PutString(v[i])]) = Sent("names", v)
<1>1. ASSUME NEW v, Fits("u32", v) PROVE PutU32(v) = Sent("u32", v)
  BY <1>1, PutU32IsFour DEF Fits, Sent
<1>2. ASSUME NEW v, Fits("u64", v) PROVE PutU64(v) = Sent("u64", v)
  <2>1. v % Two32 \in U32 /\ v \div Two32 \in U32
    BY <1>2, EightBytes DEF Fits
  <2>2. PutU32(v % Two32) = Four(v % Two32) /\ PutU32(v \div Two32) = Four(v \div Two32)
    BY <2>1, PutU32IsFour
  <2>3. PutU64(v) = Eight(v)
    BY <2>2, Zenon DEF PutU64, Eight
  <2> QED
    BY <2>3 DEF Sent
<1>3. ASSUME NEW v, IsText(v) PROVE PutString(v) = TextCells(v)
  <2>1. PutU16(Len(v)) = Two(Len(v))
    BY <1>3, TextIsBytes, PutU16IsTwo
  <2> QED
    BY <2>1, Zenon DEF PutString, TextCells
<1>4. ASSUME NEW v, Fits("s", v) PROVE PutString(v) = Sent("s", v)
  BY <1>3, <1>4 DEF Fits, Sent
<1>5. ASSUME NEW v, Fits("data", v) PROVE PutU32(Len(v)) \o PutBytes(v) = Sent("data", v)
  <2>1. PutU32(Len(v)) = Four(Len(v))
    BY <1>5, DataIsBytes, PutU32IsFour DEF Fits
  <2>2. Sent("data", v) = Four(Len(v)) \o v
    BY DEF Sent
  <2> QED
    BY <2>1, <2>2, Zenon DEF PutBytes
<1>6. ASSUME NEW v, Fits("names", v)
      PROVE  PutU16(Len(v)) \o FlattenSeq([i \in DOMAIN v |-> PutString(v[i])]) = Sent("names", v)
  <2>1. PutU16(Len(v)) = Two(Len(v))
    BY <1>6, NamesAreBytes, PutU16IsTwo
  <2>2. [i \in DOMAIN v |-> PutString(v[i])] = [i \in 1..Len(v) |-> TextCells(v[i])]
    <3>1. DOMAIN v = 1..Len(v) /\ \A i \in 1..Len(v) : IsText(v[i])
      BY <1>6, NamesAreBytes DEF Fits
    <3>2. \A i \in 1..Len(v) : PutString(v[i]) = TextCells(v[i])
      BY <1>3, <3>1
    <3> QED
      BY <3>1, <3>2
  <2>3. Sent("names", v) = Two(Len(v)) \o FlattenSeq([i \in 1..Len(v) |-> TextCells(v[i])])
    BY DEF Sent
  <2> QED
    BY <2>1, <2>2, <2>3, Zenon
<1> QED
  BY <1>1, <1>2, <1>4, <1>5, <1>6

\* A concatenation of up to five parts.
LEMMA FlatUpTo ==
    ASSUME NEW N \in Nat, NEW p \in [1..N -> Seq(Byte)]
    PROVE  /\ N = 1 => FlattenSeq(p) = p[1]
           /\ N = 2 => FlattenSeq(p) = p[1] \o p[2]
           /\ N = 3 => FlattenSeq(p) = p[1] \o p[2] \o p[3]
           /\ N = 4 => FlattenSeq(p) = p[1] \o p[2] \o p[3] \o p[4]
           /\ N = 5 => FlattenSeq(p) = p[1] \o p[2] \o p[3] \o p[4] \o p[5]
<1>1. PICK r : FlatBy(r, N, p) /\ AllSeqs(r, N, Byte)
  BY FlattenTurns
<1> DEFINE Next1(x, y) == x \o y
<1>2. /\ r[0] = << >> /\ FlattenSeq(p) = r[N]
      /\ \A n \in 1..N : r[n] = Next1(r[n - 1], p[n])
  BY <1>1 DEF FlatBy
<1> HIDE DEF Next1
<1>3. N >= 1 => r[1] = Next1(<< >>, p[1])
  BY <1>2
<1>4. N >= 1 => Next1(<< >>, p[1]) = p[1]
  <2> SUFFICES ASSUME N >= 1 PROVE << >> \o p[1] = p[1]
    BY DEF Next1
  <2>1. p[1] \in Seq(Byte)
    OBVIOUS
  <2> QED
    BY <2>1
<1>5. /\ N >= 1 => r[1] = p[1]
      /\ N >= 2 => r[2] = Next1(r[1], p[2])
      /\ N >= 3 => r[3] = Next1(r[2], p[3])
      /\ N >= 4 => r[4] = Next1(r[3], p[4])
      /\ N >= 5 => r[5] = Next1(r[4], p[5])
  BY <1>2, <1>3, <1>4
<1>6. /\ N = 1 => FlattenSeq(p) = p[1]
      /\ N = 2 => FlattenSeq(p) = Next1(p[1], p[2])
      /\ N = 3 => FlattenSeq(p) = Next1(Next1(p[1], p[2]), p[3])
      /\ N = 4 => FlattenSeq(p) = Next1(Next1(Next1(p[1], p[2]), p[3]), p[4])
      /\ N = 5 => FlattenSeq(p) = Next1(Next1(Next1(Next1(p[1], p[2]), p[3]), p[4]), p[5])
  BY <1>2, <1>5
<1> QED
  BY <1>6, Zenon DEF Next1

\* The arguments of a request, of which there are up to five.
LEMMA SentUpTo ==
    ASSUME NEW forms \in Seq(SentForms), NEW vals, FitAll(forms, vals)
    PROVE  LET S(i) == Sent(forms[i], vals[i])
               N == Len(forms)
           IN  /\ \A i \in 1..N : Fits(forms[i], vals[i])
               /\ N = 1 => SentAll(forms, vals) = S(1)
               /\ N = 2 => SentAll(forms, vals) = S(1) \o S(2)
               /\ N = 3 => SentAll(forms, vals) = S(1) \o S(2) \o S(3)
               /\ N = 4 => SentAll(forms, vals) = S(1) \o S(2) \o S(3) \o S(4)
               /\ N = 5 => SentAll(forms, vals) = S(1) \o S(2) \o S(3) \o S(4) \o S(5)
<1> DEFINE N == Len(forms)
           p == [n \in 1..N |-> Sent(forms[n], vals[n])]
<1>1. N \in Nat /\ \A i \in 1..N : forms[i] \in SentForms
  OBVIOUS
<1>2. \A i \in 1..N : Fits(forms[i], vals[i])
  <2>1. DOMAIN forms = 1..N
    OBVIOUS
  <2> HIDE DEF N, p
  <2> QED
    BY <2>1, Zenon DEF FitAll
<1>3. p \in [1..N -> Seq(Byte)] /\ \A i \in 1..N : p[i] = Sent(forms[i], vals[i])
  BY <1>1, <1>2, SentIsBytes
<1>4. SentAll(forms, vals) = FlattenSeq(p)
  BY DEF SentAll
<1> HIDE DEF p, N
<1>5. /\ N = 1 => FlattenSeq(p) = p[1]
      /\ N = 2 => FlattenSeq(p) = p[1] \o p[2]
      /\ N = 3 => FlattenSeq(p) = p[1] \o p[2] \o p[3]
      /\ N = 4 => FlattenSeq(p) = p[1] \o p[2] \o p[3] \o p[4]
      /\ N = 5 => FlattenSeq(p) = p[1] \o p[2] \o p[3] \o p[4] \o p[5]
  BY <1>1, <1>3, FlatUpTo
<1>6. /\ N >= 1 => p[1] = Sent(forms[1], vals[1])
      /\ N >= 2 => p[2] = Sent(forms[2], vals[2])
      /\ N >= 3 => p[3] = Sent(forms[3], vals[3])
      /\ N >= 4 => p[4] = Sent(forms[4], vals[4])
      /\ N >= 5 => p[5] = Sent(forms[5], vals[5])
  BY <1>1, <1>3
<1>7. /\ N = 1 => N >= 1
      /\ N = 2 => N >= 1 /\ N >= 2
      /\ N = 3 => N >= 1 /\ N >= 2 /\ N >= 3
      /\ N = 4 => N >= 1 /\ N >= 2 /\ N >= 3 /\ N >= 4
      /\ N = 5 => N >= 1 /\ N >= 2 /\ N >= 3 /\ N >= 4 /\ N >= 5
  OBVIOUS
<1> QED
  BY <1>2, <1>4, <1>5, <1>6, <1>7, Zenon DEF N

\* The message of every request is the header and the fields of its layout.
LEMMA BuildSends ==
    ASSUME NEW c, c.type \in DOMAIN RequestLayout,
           FitAll(RequestLayout[c.type], c.args), c.type = "Tversion" => c.tag = kNoTag
    PROVE  /\ RequestLayout[c.type] \in Seq(SentForms)
           /\ Build(c) = Message(c.type, c.tag, SentAll(RequestLayout[c.type], c.args))
<1> DEFINE a == c.args
<1>1. CASE c.type = "Tversion"
  <2> DEFINE f == <<"u32", "s">>
  <2>1. RequestLayout[c.type] = f
    BY <1>1 DEF RequestLayout
  <2>2. /\ f \in Seq(SentForms) /\ Len(f) = 2
        /\ f[1] = "u32" /\ f[2] = "s"
    BY DEF SentForms
  <2>3. Build(c) = Message("Tversion", kNoTag, PutU32(a[1]) \o PutString(a[2]))
    BY <1>1 DEF Build, BuildTversion
  <2> HIDE DEF f
  <2>4. \A i \in 1..2 : Fits(f[i], a[i])
    BY <2>1, <2>2, SentUpTo
  <2>5. Fits("u32", a[1]) /\ Fits("s", a[2])
    BY <2>2, <2>4
  <2>6. SentAll(f, a) = Sent(f[1], a[1]) \o Sent(f[2], a[2])
    BY <2>1, <2>2, SentUpTo, Zenon
  <2>7. SentAll(f, a) = Sent("u32", a[1]) \o Sent("s", a[2])
    BY <2>2, <2>6, Zenon
  <2>8. PutU32(a[1]) = Sent("u32", a[1]) /\ PutString(a[2]) = Sent("s", a[2])
    BY <2>5, PutsSend, Zenon
  <2>9. Build(c) = Message(c.type, c.tag, SentAll(f, a))
    BY <1>1, <2>3, <2>7, <2>8, Zenon
  <2> QED
    BY <2>1, <2>2, <2>9, Zenon
<1>2. CASE c.type = "Tattach"
  <2> DEFINE f == <<"u32", "u32", "s", "s", "u32">>
  <2>1. RequestLayout[c.type] = f
    BY <1>2 DEF RequestLayout
  <2>2. /\ f \in Seq(SentForms) /\ Len(f) = 5
        /\ f[1] = "u32" /\ f[2] = "u32" /\ f[3] = "s" /\ f[4] = "s" /\ f[5] = "u32"
    BY DEF SentForms
  <2>3. Build(c) = Message("Tattach", c.tag, PutU32(a[1]) \o PutU32(a[2])
                                              \o PutString(a[3]) \o PutString(a[4])
                                              \o PutU32(a[5]))
    BY <1>2 DEF Build, BuildTattach
  <2> HIDE DEF f
  <2>4. \A i \in 1..5 : Fits(f[i], a[i])
    BY <2>1, <2>2, SentUpTo
  <2>5. /\ Fits("u32", a[1]) /\ Fits("u32", a[2]) /\ Fits("s", a[3])
        /\ Fits("s", a[4]) /\ Fits("u32", a[5])
    BY <2>2, <2>4
  <2>6. SentAll(f, a) = Sent(f[1], a[1]) \o Sent(f[2], a[2]) \o Sent(f[3], a[3])
                         \o Sent(f[4], a[4]) \o Sent(f[5], a[5])
    BY <2>1, <2>2, SentUpTo, Zenon
  <2>7. SentAll(f, a) = Sent("u32", a[1]) \o Sent("u32", a[2]) \o Sent("s", a[3])
                         \o Sent("s", a[4]) \o Sent("u32", a[5])
    BY <2>2, <2>6, Zenon
  <2>8. /\ PutU32(a[1]) = Sent("u32", a[1]) /\ PutU32(a[2]) = Sent("u32", a[2])
        /\ PutString(a[3]) = Sent("s", a[3]) /\ PutString(a[4]) = Sent("s", a[4])
        /\ PutU32(a[5]) = Sent("u32", a[5])
    BY <2>5, PutsSend, Zenon
  <2>9. Build(c) = Message(c.type, c.tag, SentAll(f, a))
    BY <1>2, <2>3, <2>7, <2>8, Zenon
  <2> QED
    BY <2>1, <2>2, <2>9, Zenon
<1>3. CASE c.type = "Twalk"
  <2> DEFINE f == <<"u32", "u32", "names">>
  <2>1. RequestLayout[c.type] = f
    BY <1>3 DEF RequestLayout
  <2>2. /\ f \in Seq(SentForms) /\ Len(f) = 3
        /\ f[1] = "u32" /\ f[2] = "u32" /\ f[3] = "names"
    BY DEF SentForms
  <2>3. Build(c) = Message("Twalk", c.tag, PutU32(a[1]) \o PutU32(a[2])
                                            \o PutU16(Len(a[3]))
                \o FlattenSeq([i \in DOMAIN a[3] |-> PutString(a[3][i])]))
    BY <1>3 DEF Build, BuildTwalk
  <2> HIDE DEF f
  <2>4. \A i \in 1..3 : Fits(f[i], a[i])
    BY <2>1, <2>2, SentUpTo
  <2>5. Fits("u32", a[1]) /\ Fits("u32", a[2]) /\ Fits("names", a[3])
    BY <2>2, <2>4
  <2>6. SentAll(f, a) = Sent(f[1], a[1]) \o Sent(f[2], a[2]) \o Sent(f[3], a[3])
    BY <2>1, <2>2, SentUpTo, Zenon
  <2>7. SentAll(f, a) = Sent("u32", a[1]) \o Sent("u32", a[2]) \o Sent("names", a[3])
    BY <2>2, <2>6, Zenon
  <2> DEFINE p == PutU32(a[1]) \o PutU32(a[2])
             q == PutU16(Len(a[3]))
             r == FlattenSeq([i \in DOMAIN a[3] |-> PutString(a[3][i])])
  <2>8. p \in Seq(Byte) /\ q \in Seq(Byte) /\ r \in Seq(Byte)
    <3>1. Sent("u32", a[1]) \in Seq(Byte) /\ Sent("u32", a[2]) \in Seq(Byte)
      BY <2>5, SentIsBytes DEF SentForms
    <3>2. p = Sent("u32", a[1]) \o Sent("u32", a[2])
      BY <2>5, PutsSend, Zenon
    <3>3. p \in Seq(Byte)
      BY <3>1, <3>2, Joined
    <3>4. q \in Seq(Byte)
      BY <2>5, NamesAreBytes, PutU16IsTwo
    <3>5. r \in Seq(Byte)
      <4>1. r = NamesCells(a[3])
        <5>1. DOMAIN a[3] = 1..Len(a[3]) /\ \A i \in 1..Len(a[3]) : Fits("s", a[3][i])
          BY <2>5, NamesAreBytes DEF Fits
        <5>2. \A i \in 1..Len(a[3]) : PutString(a[3][i]) = TextCells(a[3][i])
          BY <5>1, PutsSend DEF Sent
        <5>3. [i \in DOMAIN a[3] |-> PutString(a[3][i])] = [i \in 1..Len(a[3]) |-> TextCells(a[3][i])]
          BY <5>1, <5>2
        <5> QED
          BY <5>3, Zenon DEF NamesCells
      <4> QED
        BY <2>5, <4>1, NamesAreBytes
    <3> HIDE DEF p, q, r
    <3> QED
      BY <3>3, <3>4, <3>5
  <2>9. Sent("names", a[3]) = q \o r
    BY <2>5, PutsSend, Zenon
  <2>10. p = Sent("u32", a[1]) \o Sent("u32", a[2])
    BY <2>5, PutsSend, Zenon
  <2>11. Build(c) = Message("Twalk", c.tag, p \o q \o r)
    BY <2>3
  <2> HIDE DEF p, q, r
  <2>12. p \o q \o r = p \o (q \o r)
    BY <2>8, Associates
  <2> QED
    BY <1>3, <2>1, <2>2, <2>7, <2>9, <2>10, <2>11, <2>12, Zenon
<1>4. CASE c.type = "Tlopen"
  <2> DEFINE f == <<"u32", "u32">>
  <2>1. RequestLayout[c.type] = f
    BY <1>4 DEF RequestLayout
  <2>2. /\ f \in Seq(SentForms) /\ Len(f) = 2
        /\ f[1] = "u32" /\ f[2] = "u32"
    BY DEF SentForms
  <2>3. Build(c) = Message("Tlopen", c.tag, PutU32(a[1]) \o PutU32(a[2]))
    BY <1>4 DEF Build, BuildTlopen
  <2> HIDE DEF f
  <2>4. \A i \in 1..2 : Fits(f[i], a[i])
    BY <2>1, <2>2, SentUpTo
  <2>5. Fits("u32", a[1]) /\ Fits("u32", a[2])
    BY <2>2, <2>4
  <2>6. SentAll(f, a) = Sent(f[1], a[1]) \o Sent(f[2], a[2])
    BY <2>1, <2>2, SentUpTo, Zenon
  <2>7. SentAll(f, a) = Sent("u32", a[1]) \o Sent("u32", a[2])
    BY <2>2, <2>6, Zenon
  <2>8. PutU32(a[1]) = Sent("u32", a[1]) /\ PutU32(a[2]) = Sent("u32", a[2])
    BY <2>5, PutsSend, Zenon
  <2>9. Build(c) = Message(c.type, c.tag, SentAll(f, a))
    BY <1>4, <2>3, <2>7, <2>8, Zenon
  <2> QED
    BY <2>1, <2>2, <2>9, Zenon
<1>5. CASE c.type = "Tread"
  <2> DEFINE f == <<"u32", "u64", "u32">>
  <2>1. RequestLayout[c.type] = f
    BY <1>5 DEF RequestLayout
  <2>2. /\ f \in Seq(SentForms) /\ Len(f) = 3
        /\ f[1] = "u32" /\ f[2] = "u64" /\ f[3] = "u32"
    BY DEF SentForms
  <2>3. Build(c) = Message("Tread", c.tag, PutU32(a[1]) \o PutU64(a[2]) \o PutU32(a[3]))
    BY <1>5 DEF Build, BuildTread
  <2> HIDE DEF f
  <2>4. \A i \in 1..3 : Fits(f[i], a[i])
    BY <2>1, <2>2, SentUpTo
  <2>5. Fits("u32", a[1]) /\ Fits("u64", a[2]) /\ Fits("u32", a[3])
    BY <2>2, <2>4
  <2>6. SentAll(f, a) = Sent(f[1], a[1]) \o Sent(f[2], a[2]) \o Sent(f[3], a[3])
    BY <2>1, <2>2, SentUpTo, Zenon
  <2>7. SentAll(f, a) = Sent("u32", a[1]) \o Sent("u64", a[2]) \o Sent("u32", a[3])
    BY <2>2, <2>6, Zenon
  <2>8. /\ PutU32(a[1]) = Sent("u32", a[1]) /\ PutU64(a[2]) = Sent("u64", a[2])
        /\ PutU32(a[3]) = Sent("u32", a[3])
    BY <2>5, PutsSend, Zenon
  <2>9. Build(c) = Message(c.type, c.tag, SentAll(f, a))
    BY <1>5, <2>3, <2>7, <2>8, Zenon
  <2> QED
    BY <2>1, <2>2, <2>9, Zenon
<1>6. CASE c.type = "Tclunk"
  <2> DEFINE f == <<"u32">>
  <2>1. RequestLayout[c.type] = f
    BY <1>6 DEF RequestLayout
  <2>2. /\ f \in Seq(SentForms) /\ Len(f) = 1
        /\ f[1] = "u32"
    BY DEF SentForms
  <2>3. Build(c) = Message("Tclunk", c.tag, PutU32(a[1]))
    BY <1>6 DEF Build, BuildTclunk
  <2> HIDE DEF f
  <2>4. \A i \in 1..1 : Fits(f[i], a[i])
    BY <2>1, <2>2, SentUpTo
  <2>5. Fits("u32", a[1])
    BY <2>2, <2>4
  <2>6. SentAll(f, a) = Sent(f[1], a[1])
    BY <2>1, <2>2, SentUpTo, Zenon
  <2>7. SentAll(f, a) = Sent("u32", a[1])
    BY <2>2, <2>6, Zenon
  <2>8. PutU32(a[1]) = Sent("u32", a[1])
    BY <2>5, PutsSend, Zenon
  <2>9. Build(c) = Message(c.type, c.tag, SentAll(f, a))
    BY <1>6, <2>3, <2>7, <2>8, Zenon
  <2> QED
    BY <2>1, <2>2, <2>9, Zenon
<1>7. CASE c.type = "Tgetattr"
  <2> DEFINE f == <<"u32", "u64">>
  <2>1. RequestLayout[c.type] = f
    BY <1>7 DEF RequestLayout
  <2>2. /\ f \in Seq(SentForms) /\ Len(f) = 2
        /\ f[1] = "u32" /\ f[2] = "u64"
    BY DEF SentForms
  <2>3. Build(c) = Message("Tgetattr", c.tag, PutU32(a[1]) \o PutU64(a[2]))
    BY <1>7 DEF Build, BuildTgetattr
  <2> HIDE DEF f
  <2>4. \A i \in 1..2 : Fits(f[i], a[i])
    BY <2>1, <2>2, SentUpTo
  <2>5. Fits("u32", a[1]) /\ Fits("u64", a[2])
    BY <2>2, <2>4
  <2>6. SentAll(f, a) = Sent(f[1], a[1]) \o Sent(f[2], a[2])
    BY <2>1, <2>2, SentUpTo, Zenon
  <2>7. SentAll(f, a) = Sent("u32", a[1]) \o Sent("u64", a[2])
    BY <2>2, <2>6, Zenon
  <2>8. PutU32(a[1]) = Sent("u32", a[1]) /\ PutU64(a[2]) = Sent("u64", a[2])
    BY <2>5, PutsSend, Zenon
  <2>9. Build(c) = Message(c.type, c.tag, SentAll(f, a))
    BY <1>7, <2>3, <2>7, <2>8, Zenon
  <2> QED
    BY <2>1, <2>2, <2>9, Zenon
<1>8. CASE c.type = "Treaddir"
  <2> DEFINE f == <<"u32", "u64", "u32">>
  <2>1. RequestLayout[c.type] = f
    BY <1>8 DEF RequestLayout
  <2>2. /\ f \in Seq(SentForms) /\ Len(f) = 3
        /\ f[1] = "u32" /\ f[2] = "u64" /\ f[3] = "u32"
    BY DEF SentForms
  <2>3. Build(c) = Message("Treaddir", c.tag, PutU32(a[1]) \o PutU64(a[2])
                                               \o PutU32(a[3]))
    BY <1>8 DEF Build, BuildTreaddir
  <2> HIDE DEF f
  <2>4. \A i \in 1..3 : Fits(f[i], a[i])
    BY <2>1, <2>2, SentUpTo
  <2>5. Fits("u32", a[1]) /\ Fits("u64", a[2]) /\ Fits("u32", a[3])
    BY <2>2, <2>4
  <2>6. SentAll(f, a) = Sent(f[1], a[1]) \o Sent(f[2], a[2]) \o Sent(f[3], a[3])
    BY <2>1, <2>2, SentUpTo, Zenon
  <2>7. SentAll(f, a) = Sent("u32", a[1]) \o Sent("u64", a[2]) \o Sent("u32", a[3])
    BY <2>2, <2>6, Zenon
  <2>8. /\ PutU32(a[1]) = Sent("u32", a[1]) /\ PutU64(a[2]) = Sent("u64", a[2])
        /\ PutU32(a[3]) = Sent("u32", a[3])
    BY <2>5, PutsSend, Zenon
  <2>9. Build(c) = Message(c.type, c.tag, SentAll(f, a))
    BY <1>8, <2>3, <2>7, <2>8, Zenon
  <2> QED
    BY <2>1, <2>2, <2>9, Zenon
<1>9. CASE c.type = "Twrite"
  <2> DEFINE f == <<"u32", "u64", "data">>
  <2>1. RequestLayout[c.type] = f
    BY <1>9 DEF RequestLayout
  <2>2. /\ f \in Seq(SentForms) /\ Len(f) = 3
        /\ f[1] = "u32" /\ f[2] = "u64" /\ f[3] = "data"
    BY DEF SentForms
  <2>3. Build(c) = Message("Twrite", c.tag, PutU32(a[1]) \o PutU64(a[2])
                                             \o PutU32(Len(a[3])) \o PutBytes(a[3]))
    BY <1>9 DEF Build, BuildTwrite
  <2> HIDE DEF f
  <2>4. \A i \in 1..3 : Fits(f[i], a[i])
    BY <2>1, <2>2, SentUpTo
  <2>5. Fits("u32", a[1]) /\ Fits("u64", a[2]) /\ Fits("data", a[3])
    BY <2>2, <2>4
  <2>6. SentAll(f, a) = Sent(f[1], a[1]) \o Sent(f[2], a[2]) \o Sent(f[3], a[3])
    BY <2>1, <2>2, SentUpTo, Zenon
  <2>7. SentAll(f, a) = Sent("u32", a[1]) \o Sent("u64", a[2]) \o Sent("data", a[3])
    BY <2>2, <2>6, Zenon
  <2> DEFINE p == PutU32(a[1]) \o PutU64(a[2])
             q == PutU32(Len(a[3]))
             r == PutBytes(a[3])
  <2>8. p \in Seq(Byte) /\ q \in Seq(Byte) /\ r \in Seq(Byte)
    <3>1. Sent("u32", a[1]) \in Seq(Byte) /\ Sent("u64", a[2]) \in Seq(Byte)
      BY <2>5, SentIsBytes DEF SentForms
    <3>2. p = Sent("u32", a[1]) \o Sent("u64", a[2])
      BY <2>5, PutsSend, Zenon
    <3>3. p \in Seq(Byte)
      BY <3>1, <3>2, Joined
    <3>4. q \in Seq(Byte)
      BY <2>5, DataIsBytes, PutU32IsFour DEF Fits
    <3>5. r \in Seq(Byte)
      BY <2>5 DEF Fits, PutBytes
    <3> HIDE DEF p, q, r
    <3> QED
      BY <3>3, <3>4, <3>5
  <2>9. Sent("data", a[3]) = q \o r
    BY <2>5, PutsSend, Zenon
  <2>10. p = Sent("u32", a[1]) \o Sent("u64", a[2])
    BY <2>5, PutsSend, Zenon
  <2>11. Build(c) = Message("Twrite", c.tag, p \o q \o r)
    BY <2>3
  <2> HIDE DEF p, q, r
  <2>12. p \o q \o r = p \o (q \o r)
    BY <2>8, Associates
  <2> QED
    BY <1>9, <2>1, <2>2, <2>7, <2>9, <2>10, <2>11, <2>12, Zenon
<1>10. CASE c.type = "Tlcreate"
  <2> DEFINE f == <<"u32", "s", "u32", "u32", "u32">>
  <2>1. RequestLayout[c.type] = f
    BY <1>10 DEF RequestLayout
  <2>2. /\ f \in Seq(SentForms) /\ Len(f) = 5
        /\ f[1] = "u32" /\ f[2] = "s" /\ f[3] = "u32" /\ f[4] = "u32" /\ f[5] = "u32"
    BY DEF SentForms
  <2>3. Build(c) = Message("Tlcreate", c.tag, PutU32(a[1]) \o PutString(a[2])
                                               \o PutU32(a[3]) \o PutU32(a[4])
                                               \o PutU32(a[5]))
    BY <1>10 DEF Build, BuildTlcreate
  <2> HIDE DEF f
  <2>4. \A i \in 1..5 : Fits(f[i], a[i])
    BY <2>1, <2>2, SentUpTo
  <2>5. /\ Fits("u32", a[1]) /\ Fits("s", a[2]) /\ Fits("u32", a[3])
        /\ Fits("u32", a[4]) /\ Fits("u32", a[5])
    BY <2>2, <2>4
  <2>6. SentAll(f, a) = Sent(f[1], a[1]) \o Sent(f[2], a[2]) \o Sent(f[3], a[3])
                         \o Sent(f[4], a[4]) \o Sent(f[5], a[5])
    BY <2>1, <2>2, SentUpTo, Zenon
  <2>7. SentAll(f, a) = Sent("u32", a[1]) \o Sent("s", a[2]) \o Sent("u32", a[3])
                         \o Sent("u32", a[4]) \o Sent("u32", a[5])
    BY <2>2, <2>6, Zenon
  <2>8. /\ PutU32(a[1]) = Sent("u32", a[1]) /\ PutString(a[2]) = Sent("s", a[2])
        /\ PutU32(a[3]) = Sent("u32", a[3]) /\ PutU32(a[4]) = Sent("u32", a[4])
        /\ PutU32(a[5]) = Sent("u32", a[5])
    BY <2>5, PutsSend, Zenon
  <2>9. Build(c) = Message(c.type, c.tag, SentAll(f, a))
    BY <1>10, <2>3, <2>7, <2>8, Zenon
  <2> QED
    BY <2>1, <2>2, <2>9, Zenon
<1>11. CASE c.type = "Tmkdir"
  <2> DEFINE f == <<"u32", "s", "u32", "u32">>
  <2>1. RequestLayout[c.type] = f
    BY <1>11 DEF RequestLayout
  <2>2. /\ f \in Seq(SentForms) /\ Len(f) = 4
        /\ f[1] = "u32" /\ f[2] = "s" /\ f[3] = "u32" /\ f[4] = "u32"
    BY DEF SentForms
  <2>3. Build(c) = Message("Tmkdir", c.tag, PutU32(a[1]) \o PutString(a[2])
                                             \o PutU32(a[3]) \o PutU32(a[4]))
    BY <1>11 DEF Build, BuildTmkdir
  <2> HIDE DEF f
  <2>4. \A i \in 1..4 : Fits(f[i], a[i])
    BY <2>1, <2>2, SentUpTo
  <2>5. Fits("u32", a[1]) /\ Fits("s", a[2]) /\ Fits("u32", a[3]) /\ Fits("u32", a[4])
    BY <2>2, <2>4
  <2>6. SentAll(f, a) = Sent(f[1], a[1]) \o Sent(f[2], a[2]) \o Sent(f[3], a[3])
                         \o Sent(f[4], a[4])
    BY <2>1, <2>2, SentUpTo, Zenon
  <2>7. SentAll(f, a) = Sent("u32", a[1]) \o Sent("s", a[2]) \o Sent("u32", a[3])
                         \o Sent("u32", a[4])
    BY <2>2, <2>6, Zenon
  <2>8. /\ PutU32(a[1]) = Sent("u32", a[1]) /\ PutString(a[2]) = Sent("s", a[2])
        /\ PutU32(a[3]) = Sent("u32", a[3]) /\ PutU32(a[4]) = Sent("u32", a[4])
    BY <2>5, PutsSend, Zenon
  <2>9. Build(c) = Message(c.type, c.tag, SentAll(f, a))
    BY <1>11, <2>3, <2>7, <2>8, Zenon
  <2> QED
    BY <2>1, <2>2, <2>9, Zenon
<1>12. CASE c.type = "Tunlinkat"
  <2> DEFINE f == <<"u32", "s", "u32">>
  <2>1. RequestLayout[c.type] = f
    BY <1>12 DEF RequestLayout
  <2>2. /\ f \in Seq(SentForms) /\ Len(f) = 3
        /\ f[1] = "u32" /\ f[2] = "s" /\ f[3] = "u32"
    BY DEF SentForms
  <2>3. Build(c) = Message("Tunlinkat", c.tag, PutU32(a[1]) \o PutString(a[2])
                                                \o PutU32(a[3]))
    BY <1>12 DEF Build, BuildTunlinkat
  <2> HIDE DEF f
  <2>4. \A i \in 1..3 : Fits(f[i], a[i])
    BY <2>1, <2>2, SentUpTo
  <2>5. Fits("u32", a[1]) /\ Fits("s", a[2]) /\ Fits("u32", a[3])
    BY <2>2, <2>4
  <2>6. SentAll(f, a) = Sent(f[1], a[1]) \o Sent(f[2], a[2]) \o Sent(f[3], a[3])
    BY <2>1, <2>2, SentUpTo, Zenon
  <2>7. SentAll(f, a) = Sent("u32", a[1]) \o Sent("s", a[2]) \o Sent("u32", a[3])
    BY <2>2, <2>6, Zenon
  <2>8. /\ PutU32(a[1]) = Sent("u32", a[1]) /\ PutString(a[2]) = Sent("s", a[2])
        /\ PutU32(a[3]) = Sent("u32", a[3])
    BY <2>5, PutsSend, Zenon
  <2>9. Build(c) = Message(c.type, c.tag, SentAll(f, a))
    BY <1>12, <2>3, <2>7, <2>8, Zenon
  <2> QED
    BY <2>1, <2>2, <2>9, Zenon
<1>13. CASE c.type = "Trenameat"
  <2> DEFINE f == <<"u32", "s", "u32", "s">>
  <2>1. RequestLayout[c.type] = f
    BY <1>13 DEF RequestLayout
  <2>2. /\ f \in Seq(SentForms) /\ Len(f) = 4
        /\ f[1] = "u32" /\ f[2] = "s" /\ f[3] = "u32" /\ f[4] = "s"
    BY DEF SentForms
  <2>3. Build(c) = Message("Trenameat", c.tag, PutU32(a[1]) \o PutString(a[2])
                                                \o PutU32(a[3]) \o PutString(a[4]))
    BY <1>13 DEF Build, BuildTrenameat
  <2> HIDE DEF f
  <2>4. \A i \in 1..4 : Fits(f[i], a[i])
    BY <2>1, <2>2, SentUpTo
  <2>5. Fits("u32", a[1]) /\ Fits("s", a[2]) /\ Fits("u32", a[3]) /\ Fits("s", a[4])
    BY <2>2, <2>4
  <2>6. SentAll(f, a) = Sent(f[1], a[1]) \o Sent(f[2], a[2]) \o Sent(f[3], a[3])
                         \o Sent(f[4], a[4])
    BY <2>1, <2>2, SentUpTo, Zenon
  <2>7. SentAll(f, a) = Sent("u32", a[1]) \o Sent("s", a[2]) \o Sent("u32", a[3])
                         \o Sent("s", a[4])
    BY <2>2, <2>6, Zenon
  <2>8. /\ PutU32(a[1]) = Sent("u32", a[1]) /\ PutString(a[2]) = Sent("s", a[2])
        /\ PutU32(a[3]) = Sent("u32", a[3]) /\ PutString(a[4]) = Sent("s", a[4])
    BY <2>5, PutsSend, Zenon
  <2>9. Build(c) = Message(c.type, c.tag, SentAll(f, a))
    BY <1>13, <2>3, <2>7, <2>8, Zenon
  <2> QED
    BY <2>1, <2>2, <2>9, Zenon
<1> QED
  BY <1>1, <1>2, <1>3, <1>4, <1>5, <1>6, <1>7, <1>8, <1>9, <1>10, <1>11, <1>12, <1>13
     DEF RequestLayout

\* A server that knows the layouts alone reads every request as it was meant.
LEMMA BuildRead ==
    ASSUME NEW c \in Calls
    PROVE  LET f == Fields(RequestLayout[c.type], Build(c)) IN
           /\ FourAt(Build(c), 0) = Len(Build(c)) /\ f.off = Len(Build(c))
           /\ Build(c)[5] = c.type /\ TwoAt(Build(c), 5) = c.tag
           /\ f.val = c.args
<1> DEFINE forms == RequestLayout[c.type]
           body  == SentAll(forms, c.args)
           w     == Build(c)
<1>1. /\ c.type \in DOMAIN RequestLayout /\ c.tag \in 0..Two16 - 1
      /\ c.type = "Tversion" => c.tag = kNoTag
      /\ FitAll(forms, c.args) /\ Len(w) < Two32
  BY CallsAssumption
<1>2. forms \in Seq(SentForms) /\ w = Message(c.type, c.tag, body)
  BY <1>1, BuildSends
<1> HIDE DEF forms, w
<1>3. /\ Len(forms) \in Nat /\ DOMAIN forms = 1..Len(forms)
      /\ \A n \in 1..Len(forms) : forms[n] \in SentForms
  BY <1>2
<1>4. /\ \A n \in 1..Len(forms) : forms[n] \in SentForms /\ Fits(forms[n], c.args[n])
      /\ c.args = [i \in 1..Len(forms) |-> c.args[i]]
  BY <1>1, <1>3, FitEach
<1>5. body \in Seq(Byte)
  BY <1>3, <1>4, SentAllIsBytes
<1>f. \A d \in Seq(Cell) : Holds(d, 7, body) =>
         Fields(forms, d) = Got(7 + Len(body), [i \in 1..Len(forms) |-> c.args[i]])
  BY <1>3, <1>4, FieldsSent
<1> HIDE DEF body
<1>6. Len(body) \in Nat /\ 7 + Len(body) \in Nat
  BY <1>5
<1>7. PutU16(c.tag) = Two(c.tag)
  BY <1>1, PutU16IsTwo
<1>8. w = Whole(PutU32(7 + Len(body)), <<c.type>>, Two(c.tag), body)
  BY <1>2, <1>7, Zenon DEF Message, Whole, kHeaderSize
<1>9. Len(w) = 7 + Len(body)
  <2>1. PutU32(7 + Len(body)) \in Seq(Cell) /\ Len(PutU32(7 + Len(body))) = 4
    BY <1>6, PutU32IsBytes, BytesAreCells
  <2>2. Two(c.tag) \in Seq(Cell) /\ Len(Two(c.tag)) = 2 /\ body \in Seq(Cell)
    BY <1>1, <1>5, TwoIsBytes, BytesAreCells
  <2>3. <<c.type>> \in Seq(Cell) /\ Len(<<c.type>>) = 1
    <3>1. c.type \in Cell
      BY DEF Cell
    <3> QED
      BY <3>1
  <2> QED
    BY <1>8, <2>1, <2>2, <2>3, CellsHeld, Zenon
<1>10. 7 + Len(body) \in U32
  BY <1>1, <1>6, <1>9, Widths DEF U32
<1>11. PutU32(7 + Len(body)) = Four(7 + Len(body))
  BY <1>10, PutU32IsFour
<1>12. w = Whole(Four(7 + Len(body)), <<c.type>>, Two(c.tag), body)
  BY <1>8, <1>11, Zenon
<1>13. /\ w \in Seq(Cell) /\ FourAt(w, 0) = 7 + Len(body) /\ w[5] = c.type
       /\ TwoAt(w, 5) = c.tag /\ Holds(w, 7, body)
  <2>1. c.type \in Cell
    BY DEF Cell
  <2> QED
    BY <1>1, <1>5, <1>10, <1>12, <2>1, HeaderHeld
<1>14. Fields(forms, w) = Got(7 + Len(body), [i \in 1..Len(forms) |-> c.args[i]])
  BY <1>13, <1>f
<1>15. Fields(forms, w) = Got(Len(w), c.args)
  BY <1>4, <1>9, <1>14, Zenon
<1> QED
  BY <1>9, <1>13, <1>15 DEF forms, w, Got

-----------------------------------------------------------------------------
(* What is read of a reply that was cut short.                             *)

\* What is left of a message that was cut short.
Cut(d, w) == /\ d \in Seq(Cell) /\ w \in Seq(Cell) /\ Len(d) < Len(w)
             /\ \A i \in 1..Len(d) : d[i] = w[i]

\* What is left holds every part of the message that ends before the cut.
LEMMA CutHolds ==
    ASSUME NEW d, NEW w, Cut(d, w), NEW off \in Nat, NEW p \in Seq(Cell),
           Holds(w, off, p), off + Len(p) <= Len(d)
    PROVE  Holds(d, off, p)
<1>1. Len(d) \in Nat /\ Len(p) \in Nat
  BY DEF Cut
<1>2. ASSUME NEW i \in 1..Len(p) PROVE d[off + i] = p[i]
  <2>1. off + i \in 1..Len(d)
    BY <1>1
  <2> QED
    BY <2>1 DEF Cut, Holds
<1> QED
  BY <1>2 DEF Holds

\* Where no integer of four bytes can be read any more.
Stuck(d, off) == off \in Nat /\ off <= Len(d) /\ off + 4 > Len(d)

\* There every integer is 0, and the offset stays.
LEMMA GetStuck ==
    ASSUME NEW d \in Seq(Cell), NEW off, Stuck(d, off)
    PROVE  GetU32(d, off) = Got(off, 0) /\ GetU64(d, off) = Got(off, 0)
<1>1. GetU32(d, off) = Got(off, 0)
  BY DEF GetU32, Stuck
<1>2. 0 + Two32 * 0 = 0
  BY Widths
<1> QED
  BY <1>1, <1>2 DEF GetU64, Got

\* A byte that is read there can be a byte of something else.
LEMMA GetQidStuck ==
    ASSUME NEW d \in Seq(Cell), NEW off, Stuck(d, off)
    PROVE  \E o, t : /\ GetQid(d, off) = Got(o, <<t, 0, 0>>) /\ Stuck(d, o) /\ o >= off
                     /\ t = 0 \/ (off + 1 <= Len(d) /\ t = d[off + 1])
<1>1. off \in Nat /\ Len(d) \in Nat /\ off <= Len(d) /\ off + 4 > Len(d)
  BY DEF Stuck
<1>2. PICK o, t : /\ GetU8(d, off) = Got(o, t) /\ o >= off /\ Stuck(d, o)
                  /\ t = 0 \/ (off + 1 <= Len(d) /\ t = d[off + 1])
  <2>1. CASE off = Len(d)
    <3>1. GetU8(d, off) = Got(off, 0)
      BY <1>1, <2>1 DEF GetU8
    <3> QED
      BY <1>1, <3>1
  <2>2. CASE off # Len(d)
    <3>1. GetU8(d, off) = Got(off + 1, d[off + 1]) /\ off + 1 <= Len(d)
      BY <1>1, <2>2 DEF GetU8
    <3>2. off + 1 >= off /\ Stuck(d, off + 1)
      BY <1>1, <3>1 DEF Stuck
    <3> QED
      BY <3>1, <3>2
  <2> QED
    BY <2>1, <2>2
<1>3. GetU32(d, o) = Got(o, 0) /\ GetU64(d, o) = Got(o, 0)
  BY <1>2, GetStuck
<1>4. GetQid(d, off) = Got(o, <<t, 0, 0>>)
  BY <1>2, <1>3 DEF GetQid, Got
<1> QED
  BY <1>2, <1>4

\* An integer of four bytes that the cut goes through.
LEMMA U32Cut ==
    ASSUME NEW d \in Seq(Cell), NEW off \in Nat, off <= Len(d), off + 4 > Len(d)
    PROVE  GetU32(d, off) = Got(off, 0) /\ Stuck(d, off)
BY GetStuck DEF Stuck

\* Of an integer of eight bytes there may be the low half.
LEMMA U64Cut ==
    ASSUME NEW d, NEW w, Cut(d, w), NEW off \in Nat, off <= Len(d), off + 8 > Len(d),
           NEW v \in U64, Holds(w, off, Eight(v))
    PROVE  \E o, x : /\ GetU64(d, off) = Got(o, x) /\ Stuck(d, o) /\ o >= off
                     /\ x \in {v, v % Two32, 0}
<1>1. d \in Seq(Cell) /\ w \in Seq(Cell) /\ Len(d) \in Nat
  BY DEF Cut
<1>2. CASE off + 4 > Len(d)
  <2>1. Stuck(d, off) /\ off >= off
    BY <1>1, <1>2 DEF Stuck
  <2>2. GetU64(d, off) = Got(off, 0)
    BY <1>1, <2>1, GetStuck
  <2> QED
    BY <2>1, <2>2
<1>3. CASE ~ (off + 4 > Len(d))
  <2> DEFINE lo == v % Two32
             hi == v \div Two32
  <2>1. lo \in U32 /\ hi \in U32
    BY EightBytes
  <2>2. Eight(v) = Four(lo) \o Four(hi)
    BY DEF Eight
  <2> HIDE DEF lo, hi
  <2>3. /\ Four(lo) \in Seq(Cell) /\ Len(Four(lo)) = 4 /\ Four(hi) \in Seq(Cell)
    BY <2>1, FourIsBytes, BytesAreCells
  <2>4. Holds(w, off, Four(lo))
    BY <1>1, <2>2, <2>3, HoldsParts
  <2>5. Holds(d, off, Four(lo))
    <3>1. off + Len(Four(lo)) <= Len(d)
      BY <1>1, <1>3, <2>3
    <3> QED
      BY <2>3, <2>4, <3>1, CutHolds, Zenon
  <2>6. GetU32(d, off) = Got(off + 4, lo)
    BY <1>1, <2>1, <2>5, GotHeld
  <2>7. Stuck(d, off + 4) /\ off + 4 >= off
    BY <1>1, <1>3 DEF Stuck
  <2>8. GetU32(d, off + 4) = Got(off + 4, 0)
    BY <1>1, <2>7, GetStuck
  <2>9. lo + Two32 * 0 = lo
    BY <2>1, Widths DEF U32
  <2>10. GetU64(d, off) = Got(off + 4, lo)
    BY <2>6, <2>8, <2>9 DEF GetU64, Got
  <2> QED
    BY <2>7, <2>10 DEF lo
<1> QED
  BY <1>2, <1>3

\* Of a qid there may be the first fields, and the low half of its path.
LEMMA QidCut ==
    ASSUME NEW d, NEW w, Cut(d, w), NEW off \in Nat, off <= Len(d), off + 13 > Len(d),
           NEW v \in Qid, Holds(w, off, Written("qid", v))
    PROVE  \E o, x : /\ GetQid(d, off) = Got(o, x) /\ Stuck(d, o) /\ o >= off
                     /\ x \in Remains("qid", v)
<1>1. d \in Seq(Cell) /\ w \in Seq(Cell) /\ Len(d) \in Nat
  BY DEF Cut
<1>2. v[1] \in Byte /\ v[2] \in U32 /\ v[3] \in U64
  BY QidParts
<1>3. Remains("qid", v) = {v[1], 0} \X {v[2], 0} \X {v[3], v[3] % Two32, 0}
  BY DEF Remains
<1>4. /\ Holds(w, off, <<v[1]>>) /\ Holds(w, off + 1, Four(v[2]))
      /\ Holds(w, off + 5, Eight(v[3]))
  <2> DEFINE p == <<v[1]>>
             q == Four(v[2])
             r == Eight(v[3])
  <2>1. /\ p \in Seq(Cell) /\ Len(p) = 1 /\ q \in Seq(Cell) /\ Len(q) = 4
        /\ r \in Seq(Cell)
    BY QidParts
  <2>2. Holds(w, off, p \o q \o r)
    BY QidParts
  <2> HIDE DEF p, q, r
  <2>3. Holds(w, off, p) /\ Holds(w, off + 1, q) /\ Holds(w, off + (1 + 4), r)
    BY <1>1, <2>1, <2>2, HoldsThree
  <2>4. 1 + 4 = 5
    OBVIOUS
  <2> QED
    BY <2>3, <2>4 DEF p, q, r
<1>5. CASE off + 1 > Len(d)
  <2>1. Stuck(d, off) /\ off >= off
    BY <1>1, <1>5 DEF Stuck
  <2>2. PICK o, t : /\ GetQid(d, off) = Got(o, <<t, 0, 0>>) /\ Stuck(d, o) /\ o >= off
                    /\ t = 0 \/ (off + 1 <= Len(d) /\ t = d[off + 1])
    BY <1>1, <2>1, GetQidStuck
  <2>3. t = 0
    BY <1>1, <1>5, <2>2
  <2>4. <<t, 0, 0>> \in Remains("qid", v)
    BY <1>3, <2>3
  <2> QED
    BY <2>2, <2>4
<1>6. CASE ~ (off + 1 > Len(d))
  <2>1. /\ off + 1 \in Nat /\ off + 1 <= Len(d) /\ off + 5 \in Nat
        /\ (off + 1) + 4 = off + 5
    BY <1>1, <1>6
  <2>2. GetU8(d, off) = Got(off + 1, v[1])
    <3>1. <<v[1]>> \in Seq(Cell) /\ Len(<<v[1]>>) = 1
      BY QidParts
    <3>2. Holds(d, off, <<v[1]>>)
      BY <1>4, <2>1, <3>1, CutHolds
    <3> QED
      BY <1>1, <1>2, <3>2, GotHeld
  <2>3. CASE off + 5 > Len(d)
    <3>1. Stuck(d, off + 1) /\ off + 1 >= off
      BY <1>1, <2>1, <2>3 DEF Stuck
    <3>2. /\ GetU32(d, off + 1) = Got(off + 1, 0) /\ GetU64(d, off + 1) = Got(off + 1, 0)
      BY <1>1, <3>1, GetStuck
    <3>3. GetQid(d, off) = Got(off + 1, <<v[1], 0, 0>>)
      <4>1. GetU8(d, off).off = off + 1 /\ GetU8(d, off).val = v[1]
        BY <2>2 DEF Got
      <4>2. GetU32(d, off + 1).off = off + 1 /\ GetU32(d, off + 1).val = 0
        BY <3>2 DEF Got
      <4>3. GetU64(d, off + 1).off = off + 1 /\ GetU64(d, off + 1).val = 0
        BY <3>2 DEF Got
      <4> QED
        BY <4>1, <4>2, <4>3, Zenon DEF GetQid
    <3>4. <<v[1], 0, 0>> \in Remains("qid", v)
      BY <1>3
    <3> QED
      BY <3>1, <3>3, <3>4
  <2>4. CASE ~ (off + 5 > Len(d))
    <3>1. GetU32(d, off + 1) = Got(off + 5, v[2])
      <4>1. Four(v[2]) \in Seq(Cell) /\ Len(Four(v[2])) = 4
        BY QidParts
      <4>2. (off + 1) + Len(Four(v[2])) <= Len(d)
        BY <1>1, <2>1, <2>4, <4>1
      <4>3. Holds(d, off + 1, Four(v[2]))
        BY <1>4, <2>1, <4>1, <4>2, CutHolds, Zenon
      <4> QED
        BY <1>1, <1>2, <2>1, <4>3, GotHeld
    <3>2. off + 5 <= Len(d) /\ (off + 5) + 8 > Len(d)
      BY <1>1, <2>4
    <3>3. PICK o, x : /\ GetU64(d, off + 5) = Got(o, x) /\ Stuck(d, o) /\ o >= off + 5
                      /\ x \in {v[3], v[3] % Two32, 0}
      BY <1>2, <1>4, <2>1, <3>2, U64Cut
    <3>4. GetQid(d, off) = Got(o, <<v[1], v[2], x>>)
      BY <2>2, <3>1, <3>3 DEF GetQid, Got
    <3>5. <<v[1], v[2], x>> \in Remains("qid", v)
      BY <1>3, <3>3
    <3>6. o >= off
      BY <3>3 DEF Stuck
    <3> QED
      BY <3>3, <3>4, <3>5, <3>6
  <2> QED
    BY <2>3, <2>4
<1> QED
  BY <1>5, <1>6

\* Where the next Get reads: where the field is, or where nothing can be read.
ReadsAt(d, off, from, o) ==
    /\ o \in Nat /\ off <= o /\ o <= Len(d)
    /\ o = from \/ (Stuck(d, o) /\ Len(d) < from)

\* What it returns: what may be left of the field, or the byte of an earlier one.
Left(d, off, from, form, v, x) ==
    \/ x \in Remains(form, v)
    \/ /\ form = "qid" /\ x[2] = 0 /\ x[3] = 0 /\ Len(d) < from
       /\ \E k \in off + 1..Len(d) : x[1] = d[k]

\* The forms of fixed width.
Fixed == {"u32", "u64", "qid"}

\* The widths of the forms, and that a whole value is what may be left of it.
LEMMA FixedWidth ==
    ASSUME NEW form \in Fixed, NEW v, Fits(form, v)
    PROVE  /\ Written(form, v) \in Seq(Cell) /\ v \in Remains(form, v) /\ form \in Kinds
           /\ Len(Written(form, v)) =
                 IF form = "u32" THEN 4 ELSE IF form = "u64" THEN 8 ELSE 13
<1>1. CASE form = "u32"
  <2>1. v \in U32 /\ Written(form, v) = Four(v) /\ Remains(form, v) = {v, 0}
    BY <1>1 DEF Fits, Written, Remains
  <2> QED
    BY <1>1, <2>1, FourIsBytes, BytesAreCells DEF Kinds
<1>2. CASE form = "u64"
  <2>1. v \in U64 /\ Written(form, v) = Eight(v) /\ Remains(form, v) = {v, v % Two32, 0}
    BY <1>2 DEF Fits, Written, Remains
  <2> QED
    BY <1>2, <2>1, EightIsBytes, BytesAreCells DEF Kinds
<1>3. CASE form = "qid"
  <2>1. /\ v \in Qid
        /\ Remains(form, v) = {v[1], 0} \X {v[2], 0} \X {v[3], v[3] % Two32, 0}
    BY <1>3 DEF Fits, Remains
  <2>2. /\ v = <<v[1], v[2], v[3]>> /\ Written("qid", v) \in Seq(Byte)
        /\ Len(Written("qid", v)) = 13
    BY <2>1, QidParts
  <2>3. <<v[1], v[2], v[3]>> \in Remains(form, v)
    BY <2>1
  <2>4. v \in Remains(form, v)
    BY <2>2, <2>3, Zenon
  <2>5. Written("qid", v) \in Seq(Cell)
    BY <2>2, BytesAreCells
  <2> QED
    BY <1>3, <2>2, <2>4, <2>5 DEF Kinds
<1> QED
  BY <1>1, <1>2, <1>3 DEF Fixed

\* One field of a reply that was cut short.
LEMMA FieldCut ==
    ASSUME NEW d, NEW w, Cut(d, w), NEW off \in Nat, NEW from \in Nat, NEW o,
           ReadsAt(d, off, from, o), NEW form \in Fixed, NEW v, Fits(form, v),
           Holds(w, from, Written(form, v))
    PROVE  LET g == Get(form, d, o)
           IN  /\ ReadsAt(d, off, from + Len(Written(form, v)), g.off)
               /\ Left(d, off, from, form, v, g.val)
<1> DEFINE g == Get(form, d, o)
           len == Len(Written(form, v))
<1>1. d \in Seq(Cell) /\ w \in Seq(Cell) /\ Len(d) \in Nat
  BY DEF Cut
<1>2. /\ o \in Nat /\ off <= o /\ o <= Len(d)
      /\ o = from \/ (Stuck(d, o) /\ Len(d) < from)
  BY DEF ReadsAt
<1>3. /\ Written(form, v) \in Seq(Cell) /\ v \in Remains(form, v) /\ form \in Kinds
      /\ len = IF form = "u32" THEN 4 ELSE IF form = "u64" THEN 8 ELSE 13
  BY FixedWidth
<1>4. len \in Nat
  BY <1>3
<1>5. CASE o = from /\ from + len <= Len(d)
  <2>1. Holds(d, from, Written(form, v))
    BY <1>3, <1>5, CutHolds, Zenon
  <2>2. g = Got(from + len, v)
    <3>1. Get(form, d, from) = Got(from + len, v)
      BY <1>1, <1>3, <2>1, WrittenHeld, ZenonT(40)
    <3> QED
      BY <1>5, <3>1
  <2>3. g.off = from + len /\ g.val = v
    BY <2>2 DEF Got
  <2> HIDE DEF g, len
  <2>4. ReadsAt(d, off, from + len, g.off)
    BY <1>2, <1>4, <1>5, <2>3 DEF ReadsAt
  <2>5. Left(d, off, from, form, v, g.val)
    BY <1>3, <2>3 DEF Left
  <2> QED
    BY <2>4, <2>5 DEF g, len
<1>6. ASSUME ~ (o = from /\ from + len <= Len(d)),
             NEW p, NEW x, g = Got(p, x), Stuck(d, p), p >= o,
             Left(d, off, from, form, v, x)
      PROVE  ReadsAt(d, off, from + len, g.off) /\ Left(d, off, from, form, v, g.val)
  <2>1. g.off = p /\ g.val = x
    BY <1>6 DEF Got
  <2> HIDE DEF g, len
  <2>2. p \in Nat /\ p <= Len(d)
    BY <1>6 DEF Stuck
  <2>3. Len(d) < from + len
    BY <1>1, <1>2, <1>4, <1>6
  <2>4. off <= p
    BY <1>2, <1>6, <2>2
  <2> QED
    BY <1>6, <2>1, <2>2, <2>3, <2>4 DEF ReadsAt
<1>7. CASE o = from /\ ~ (from + len <= Len(d))
  <2>1. PICK p, x : g = Got(p, x) /\ Stuck(d, p) /\ p >= o /\ x \in Remains(form, v)
    <3>1. CASE form = "u32"
      <4>1. GetU32(d, o) = Got(o, 0) /\ Stuck(d, o) /\ o >= o
        BY <1>1, <1>2, <1>3, <1>7, <3>1, U32Cut
      <4>2. 0 \in Remains(form, v)
        BY <3>1 DEF Remains
      <4>3. g = Got(o, 0)
        BY <3>1, <4>1 DEF Get
      <4> QED
        BY <4>1, <4>2, <4>3
    <3>2. CASE form = "u64"
      <4>1. v \in U64 /\ Holds(w, o, Eight(v)) /\ Remains(form, v) = {v, v % Two32, 0}
        BY <1>7, <3>2 DEF Fits, Written, Remains
      <4>2. o + 8 > Len(d)
        BY <1>1, <1>2, <1>3, <1>7, <3>2
      <4>3. \E p, x : /\ GetU64(d, o) = Got(p, x) /\ Stuck(d, p) /\ p >= o
                      /\ x \in {v, v % Two32, 0}
        BY <1>2, <4>1, <4>2, U64Cut
      <4>4. g = GetU64(d, o)
        BY <3>2 DEF Get
      <4> QED
        BY <4>1, <4>3, <4>4
    <3>3. CASE form = "qid"
      <4>1. v \in Qid /\ Holds(w, o, Written("qid", v))
        BY <1>7, <3>3 DEF Fits
      <4>2. o + 13 > Len(d)
        BY <1>1, <1>2, <1>3, <1>7, <3>3
      <4>3. \E p, x : /\ GetQid(d, o) = Got(p, x) /\ Stuck(d, p) /\ p >= o
                      /\ x \in Remains("qid", v)
        BY <1>2, <4>1, <4>2, QidCut
      <4>4. g = GetQid(d, o)
        BY <3>3 DEF Get
      <4> QED
        BY <3>3, <4>3, <4>4
    <3> QED
      BY <3>1, <3>2, <3>3 DEF Fixed
  <2>2. Left(d, off, from, form, v, x)
    BY <2>1 DEF Left
  <2> HIDE DEF g, len
  <2>3. ReadsAt(d, off, from + len, g.off) /\ Left(d, off, from, form, v, g.val)
    BY <1>6, <1>7, <2>1, <2>2
  <2> QED
    BY <2>3 DEF g, len
<1>8. CASE Stuck(d, o) /\ Len(d) < from
  <2>1. ~ (o = from /\ from + len <= Len(d))
    BY <1>1, <1>2, <1>4, <1>8
  <2>2. CASE form \in {"u32", "u64"}
    <3>1. GetU32(d, o) = Got(o, 0) /\ GetU64(d, o) = Got(o, 0)
      BY <1>1, <1>8, GetStuck
    <3>2. g = Got(o, 0)
      BY <2>2, <3>1 DEF Get
    <3>3. Left(d, off, from, form, v, 0)
      BY <2>2 DEF Left, Remains
    <3>4. o >= o
      BY <1>2
    <3> HIDE DEF g, len
    <3>5. ReadsAt(d, off, from + len, g.off) /\ Left(d, off, from, form, v, g.val)
      BY <1>6, <1>8, <2>1, <3>2, <3>3, <3>4
    <3> QED
      BY <3>5 DEF g, len
  <2>3. CASE form = "qid"
    <3>1. PICK p, t : /\ GetQid(d, o) = Got(p, <<t, 0, 0>>) /\ Stuck(d, p) /\ p >= o
                      /\ t = 0 \/ (o + 1 <= Len(d) /\ t = d[o + 1])
      BY <1>1, <1>8, GetQidStuck
    <3>2. g = Got(p, <<t, 0, 0>>)
      BY <2>3, <3>1 DEF Get
    <3>3. Left(d, off, from, form, v, <<t, 0, 0>>)
      <4>1. CASE t = 0
        <5>1. Remains(form, v) = {v[1], 0} \X {v[2], 0} \X {v[3], v[3] % Two32, 0}
          BY <2>3 DEF Remains
        <5>2. <<0, 0, 0>> \in Remains(form, v)
          BY <5>1
        <5> QED
          BY <4>1, <5>2 DEF Left
      <4>2. CASE o + 1 <= Len(d) /\ t = d[o + 1]
        <5>1. o + 1 \in off + 1..Len(d)
          BY <1>1, <1>2, <4>2
        <5>2. \E k \in off + 1..Len(d) : t = d[k]
          BY <4>2, <5>1
        <5> QED
          BY <1>8, <2>3, <5>2 DEF Left
      <4> QED
        BY <3>1, <4>1, <4>2
    <3> HIDE DEF g, len
    <3>4. ReadsAt(d, off, from + len, g.off) /\ Left(d, off, from, form, v, g.val)
      BY <1>6, <2>1, <3>1, <3>2, <3>3
    <3> QED
      BY <3>4 DEF g, len
  <2> QED
    BY <2>2, <2>3 DEF Fixed
<1> QED
  BY <1>2, <1>5, <1>7, <1>8

\* The values and the offsets of Gets are those that the single Gets return.
GotBy(r, kinds, d, off) ==
    /\ Gets(kinds, d, off).val = [i \in 1..Len(kinds) |-> Get(kinds[i], d, r[i - 1].off).val]
    /\ r[0].off = off
    /\ \A n \in 1..Len(kinds) : r[n].off = Get(kinds[n], d, r[n - 1].off).off

\* The single Gets of Gets.
LEMMA GetsEach ==
    ASSUME NEW r, NEW kinds, Len(kinds) \in Nat, NEW d, NEW off, GetsBy(r, kinds, d, off)
    PROVE  GotBy(r, kinds, d, off)
<1> DEFINE N == Len(kinds)
           x == [i \in 1..N |-> Get(kinds[i], d, r[i - 1].off).val]
           Upto(n) == [i \in 1..n |-> x[i]]
           T == {n \in 0..N : r[n].val = Upto(n)}
<1>1. /\ r[0] = Got(off, << >>) /\ Gets(kinds, d, off) = r[N]
      /\ \A n \in 1..N : r[n] = GetTurn(kinds, d, n, r[n - 1])
  BY DEF GetsBy
<1>2. r[0].off = off /\ r[0].val = << >>
  BY <1>1 DEF Got
<1>3. ASSUME NEW n \in 1..N
      PROVE  /\ r[n].off = Get(kinds[n], d, r[n - 1].off).off
             /\ r[n].val = Append(r[n - 1].val, Get(kinds[n], d, r[n - 1].off).val)
  <2>1. r[n] = GetTurn(kinds, d, n, r[n - 1])
    BY <1>1
  <2> DEFINE g == Get(kinds[n], d, r[n - 1].off)
  <2>2. GetTurn(kinds, d, n, r[n - 1]) = Got(g.off, Append(r[n - 1].val, g.val))
    BY DEF GetTurn
  <2> HIDE DEF g
  <2>3. /\ GetTurn(kinds, d, n, r[n - 1]).off = g.off
        /\ GetTurn(kinds, d, n, r[n - 1]).val = Append(r[n - 1].val, g.val)
    BY <2>2 DEF Got
  <2>4. r[n].off = g.off /\ r[n].val = Append(r[n - 1].val, g.val)
    BY <2>1, <2>3, Zenon
  <2> QED
    BY <2>4 DEF g
<1>4. \A n \in 1..N : x[n] = Get(kinds[n], d, r[n - 1].off).val
  OBVIOUS
<1> HIDE DEF x
<1>5. 0 \in T
  <2>1. Upto(0) = << >>
    OBVIOUS
  <2> HIDE DEF Upto
  <2> QED
    BY <1>2, <2>1
<1>6. ASSUME NEW n \in 1..N, n - 1 \in T PROVE n \in T
  <2>1. Append(Upto(n - 1), x[n]) = Upto(n)
    BY AppendNext
  <2> HIDE DEF Upto
  <2>2. r[n].val = Append(r[n - 1].val, x[n])
    BY <1>3, <1>4
  <2>3. r[n - 1].val = Upto(n - 1)
    BY <1>6
  <2>4. r[n].val = Upto(n)
    BY <2>1, <2>2, <2>3, Zenon
  <2>5. n \in 0..N
    OBVIOUS
  <2> QED
    BY <2>4, <2>5, Zenon
<1> HIDE DEF T
<1>7. N \in T
  <2>1. 0..N \subseteq T
    BY <1>5, <1>6, CountTo
  <2> QED
    BY <2>1
<1>8. r[N].val = x
  <2>1. Upto(N) = x
    BY DEF x
  <2> HIDE DEF Upto
  <2> QED
    BY <1>7, <2>1 DEF T
<1> QED
  BY <1>1, <1>2, <1>3, <1>8 DEF x, GotBy

\* The fields that the server wrote, wherever the cut is.
LEMMA GetsCut ==
    ASSUME NEW d, NEW w, Cut(d, w), NEW off \in Nat, off <= Len(d),
           NEW forms, Len(forms) \in Nat, NEW vals,
           \A n \in 1..Len(forms) : /\ forms[n] \in Kinds /\ Fits(forms[n], vals[n])
                                    /\ forms[n] = "s" => n = Len(forms),
           Holds(w, off, WrittenAll(forms, vals))
    PROVE  /\ Len(Gets(forms, d, off).val) = Len(forms)
           /\ \E at : /\ at[0] = off
                      /\ \A n \in 1..Len(forms) :
                           /\ at[n] = at[n - 1] + Len(Written(forms[n], vals[n]))
                           /\ at[n - 1] \in Nat
                           /\ Holds(w, at[n - 1], Written(forms[n], vals[n]))
                           /\ \/ forms[n] = "s"
                              \/ Left(d, off, at[n - 1], forms[n], vals[n],
                                      Gets(forms, d, off).val[n])
<1> DEFINE N == Len(forms)
           p == [n \in 1..N |-> Written(forms[n], vals[n])]
<1>1. p \in [1..N -> Seq(Byte)]
  BY WrittenIsBytes
<1>2. Holds(w, off, FlattenSeq(p))
  BY DEF WrittenAll
<1>3. \A n \in 1..N : p[n] = Written(forms[n], vals[n])
  OBVIOUS
<1> HIDE DEF p
<1>4. PICK at : PartsAt(at, w, off, N, p)
  BY <1>1, <1>2, FlatHeld DEF Cut
<1>5. /\ at[0] = off /\ \A n \in 0..N : at[n] \in Nat
      /\ \A n \in 1..N : /\ Holds(w, at[n - 1], Written(forms[n], vals[n]))
                         /\ at[n] = at[n - 1] + Len(Written(forms[n], vals[n]))
  BY <1>3, <1>4 DEF PartsAt
<1>6. PICK r : GetsBy(r, forms, d, off)
  BY GetsTurns
<1> DEFINE x == Gets(forms, d, off).val
<1>7. /\ x = [i \in 1..N |-> Get(forms[i], d, r[i - 1].off).val]
      /\ r[0].off = off
      /\ \A n \in 1..N : r[n].off = Get(forms[n], d, r[n - 1].off).off
  <2>1. GotBy(r, forms, d, off)
    BY <1>6, GetsEach
  <2> QED
    BY <2>1 DEF GotBy
<1>8. \A n \in 1..N : x[n] = Get(forms[n], d, r[n - 1].off).val
  BY <1>7
<1>9. Len(x) = N
  <2>1. DOMAIN x = 1..N
    BY <1>7
  <2>2. x \in [1..N -> {x[i] : i \in 1..N}]
    BY <1>7
  <2> HIDE DEF x
  <2> QED
    BY <2>2, FunctionIsSeq
<1> HIDE DEF x
<1> DEFINE T == {n \in 0..N : \/ n = N /\ n > 0 /\ forms[n] = "s"
                              \/ ReadsAt(d, off, at[n], r[n].off)}
<1>10. ASSUME NEW n \in 1..N, n - 1 \in T, forms[n] # "s"
       PROVE  /\ ReadsAt(d, off, at[n], r[n].off)
              /\ Left(d, off, at[n - 1], forms[n], vals[n], x[n])
  <2>1. n - 1 # N /\ n - 1 \in 0..N
    OBVIOUS
  <2>2. ReadsAt(d, off, at[n - 1], r[n - 1].off) /\ at[n - 1] \in Nat
    BY <1>5, <1>10, <2>1
  <2>3. forms[n] \in Fixed /\ Fits(forms[n], vals[n])
    BY <1>10 DEF Kinds, Fixed
  <2>4. Holds(w, at[n - 1], Written(forms[n], vals[n]))
    BY <1>5
  <2> DEFINE g == Get(forms[n], d, r[n - 1].off)
  <2>5. /\ ReadsAt(d, off, at[n - 1] + Len(Written(forms[n], vals[n])), g.off)
        /\ Left(d, off, at[n - 1], forms[n], vals[n], g.val)
    BY <2>2, <2>3, <2>4, FieldCut
  <2>6. /\ g.off = r[n].off /\ g.val = x[n]
        /\ at[n] = at[n - 1] + Len(Written(forms[n], vals[n]))
    BY <1>5, <1>7, <1>8
  <2> HIDE DEF g
  <2> QED
    BY <2>5, <2>6
<1>11. 0 \in T
  BY <1>5, <1>7 DEF ReadsAt
<1>12. ASSUME NEW n \in 1..N, n - 1 \in T PROVE n \in T
  <2>1. n \in 0..N /\ n > 0
    OBVIOUS
  <2>2. CASE forms[n] = "s"
    BY <2>1, <2>2
  <2>3. CASE forms[n] # "s"
    BY <1>10, <1>12, <2>1, <2>3
  <2> QED
    BY <2>2, <2>3
<1>13. 0..N \subseteq T
  <2> HIDE DEF T
  <2> QED
    BY <1>11, <1>12, CountTo
<1>14. ASSUME NEW n \in 1..N
       PROVE  forms[n] = "s" \/ Left(d, off, at[n - 1], forms[n], vals[n], x[n])
  <2>1. n - 1 \in T
    <3> HIDE DEF T
    <3> QED
      BY <1>13
  <2> HIDE DEF T
  <2> QED
    BY <1>10, <2>1
<1>15. ASSUME NEW n \in 1..N PROVE at[n - 1] \in Nat
  BY <1>5
<1> QED
  BY <1>5, <1>9, <1>14, <1>15 DEF x

-----------------------------------------------------------------------------
(* The calls.                                                              *)

\* The parser of a reply of fixed layout takes no message of another type.
LEMMA FieldsCheckTheType ==
    ASSUME NEW d, NEW type, NEW kinds, ParseFields(d, type, kinds).ok
    PROVE  GetType(d) = type
BY DEF ParseFields, NotParsed

\* No parser takes a message of another type, whatever follows its header.
LEMMA ParsersCheckTheType ==
    ASSUME NEW t \in DOMAIN ReplyTo, NEW d, Parse(t, d).ok
    PROVE  GetType(d) = ReplyTo[t]
<1>1. CASE t \in FixedReplies
  BY <1>1, ParsesByLayout, FieldsCheckTheType
<1>2. CASE t = "Twalk"
  BY <1>2 DEF Parse, ReplyTo, ParseRwalk, NotParsed
<1>3. CASE t = "Tread"
  BY <1>3 DEF Parse, ReplyTo, ParseRread, NotParsed
<1>4. CASE t = "Treaddir"
  BY <1>4 DEF Parse, ReplyTo, ParseRreaddir, NotParsed
<1> QED
  BY <1>1, <1>2, <1>3, <1>4 DEF FixedReplies

\* Two cells.
LEMMA TwoCells ==
    ASSUME NEW v
    PROVE  \E S : Two(v) \in Seq(S) /\ Len(Two(v)) = 2
<1> DEFINE S == {v % B, v \div B}
<1>1. PICK x, y : x = v % B /\ y = v \div B
  OBVIOUS
<1>2. <<x, y>> \in Seq({x, y}) /\ Len(<<x, y>>) = 2
  OBVIOUS
<1>3. Two(v) = <<x, y>>
  BY <1>1 DEF Two
<1> QED
  BY <1>2, <1>3, Zenon

\* A reply is a message with its type in the fifth byte, whatever it says.
LEMMA ReplyIsMessage ==
    ASSUME NEW a \in Answers
    PROVE  \E S : /\ Reply(a) \in Seq(S) /\ Len(Reply(a)) >= 7
                  /\ Reply(a)[5] = a.type
<1> DEFINE low  == Two((7 + Len(Body(a))) % Two16)
           high == Two((7 + Len(Body(a))) \div Two16)
           tag  == Two(a.tag)
           body == Body(a)
<1>1. PICK S1 : low \in Seq(S1) /\ Len(low) = 2
  BY TwoCells, Zenon
<1>2. PICK S2 : high \in Seq(S2) /\ Len(high) = 2
  BY TwoCells, Zenon
<1>3. PICK S3 : tag \in Seq(S3) /\ Len(tag) = 2
  BY TwoCells, Zenon
<1>4. PICK S4 : body \in Seq(S4)
  BY AnswersAssumption
<1>5. Reply(a) = Whole(low \o high, <<a.type>>, tag, body)
  BY DEF Reply, Whole, Four
<1> HIDE DEF low, high, tag, body
<1>6. PICK S : S = S1 \cup S2 \cup S3 \cup S4 \cup {a.type}
  OBVIOUS
<1>7. /\ low \in Seq(S) /\ high \in Seq(S) /\ tag \in Seq(S) /\ body \in Seq(S)
      /\ <<a.type>> \in Seq(S) /\ Len(<<a.type>>) = 1
  <2>1. /\ S1 \subseteq S /\ S2 \subseteq S /\ S3 \subseteq S /\ S4 \subseteq S
        /\ a.type \in S
    BY <1>6
  <2>2. low \in Seq(S) /\ high \in Seq(S) /\ tag \in Seq(S) /\ body \in Seq(S)
    BY <1>1, <1>2, <1>3, <1>4, <2>1, SeqGrows, Zenon
  <2>3. <<a.type>> \in Seq(S) /\ Len(<<a.type>>) = 1
    BY <2>1
  <2> QED
    BY <2>2, <2>3
<1> DEFINE size == low \o high
<1>8. size \in Seq(S) /\ Len(size) = 4
  <2>1. low \o high \in Seq(S) /\ Len(low \o high) = Len(low) + Len(high)
    BY <1>7, Joined
  <2> QED
    BY <1>1, <1>2, <2>1
<1> DEFINE w == Whole(size, <<a.type>>, tag, body)
<1> HIDE DEF size
<1>9. w \in Seq(S) /\ Len(w) = 7 + Len(body) /\ Holds(w, 4, <<a.type>>)
  <2> DEFINE type == <<a.type>>
  <2>1. type \in Seq(S) /\ Len(type) = 1
    BY <1>7
  <2> HIDE DEF type
  <2>2. /\ Whole(size, type, tag, body) \in Seq(S)
        /\ Len(Whole(size, type, tag, body)) = 7 + Len(body)
        /\ Holds(Whole(size, type, tag, body), 4, type)
    BY <1>3, <1>7, <1>8, <2>1, WholeHeld
  <2> QED
    BY <2>2 DEF type
<1> HIDE DEF w
<1>10. w[5] = a.type
  <2>1. 4 \in Nat /\ 4 + 1 = 5
    OBVIOUS
  <2>2. w[4 + 1] = a.type
    BY <1>9, <2>1, OneHeld, Zenon
  <2> QED
    BY <2>1, <2>2, Zenon
<1>11. Len(w) >= 7
  BY <1>7, <1>9
<1>12. Reply(a) = w
  BY <1>5, Zenon DEF w, size
<1> QED
  BY <1>9, <1>10, <1>11, <1>12, Zenon

\* A message that was cut short has its type, or no header.
LEMMA CutMessage ==
    ASSUME NEW S, NEW s \in Seq(S), NEW n \in 0..Len(s) - 1
    PROVE  LET c == SubSeq(s, 1, n) IN
             Len(c) = n /\ (n >= 7 => c[5] = s[5])
OBVIOUS

\* What is left of a reply that was cut short.
IsCut(d, a) == \E n \in 0..Len(Reply(a)) - 1 : d = SubSeq(Reply(a), 1, n)

\* A reply, whole or cut short, has the type its server gave it, or no header.
LEMMA TypeOfReply ==
    ASSUME NEW a \in Answers, NEW d, d = Reply(a) \/ IsCut(d, a)
    PROVE  /\ GetType(d) \in {a.type, "Tlerror"}
           /\ Len(d) < 7 => GetType(d) = "Tlerror"
<1>1. PICK S : /\ Reply(a) \in Seq(S) /\ Len(Reply(a)) >= 7
               /\ Reply(a)[5] = a.type
  BY ReplyIsMessage
<1>2. Len(Reply(a)) \in Nat
  BY <1>1
<1>3. CASE d = Reply(a)
  BY <1>1, <1>2, <1>3 DEF GetType, kHeaderSize
<1>4. CASE IsCut(d, a)
  <2>1. PICK n \in 0..Len(Reply(a)) - 1 : d = SubSeq(Reply(a), 1, n)
    BY <1>4 DEF IsCut
  <2>2. Len(d) = n /\ (n >= 7 => d[5] = a.type)
    BY <1>1, <2>1, CutMessage
  <2> QED
    BY <2>2 DEF GetType, kHeaderSize
<1> QED
  BY <1>3, <1>4

-----------------------------------------------------------------------------

\* What is known of a call between its steps: the message that is here is the
\* request's, or the reply's, or what is left of that; and the result is what
\* was made of it.
WireInv ==
    /\ phase # "idle" => call \in Calls
    /\ phase = "sent" => wire = Build(call)
    /\ phase \in {"answered", "done"} => answer \in Answers /\ wire = Reply(answer)
    /\ phase \in {"cut", "doneCut"} => answer \in Answers /\ IsCut(wire, answer)
    /\ Done => got = ReplyResult(call, wire)

\* Every step keeps what is known of the call.
LEMMA WireStep ==
    ASSUME WireInv, [Next]_vars
    PROVE  WireInv'
<1>1. CASE UNCHANGED vars
  BY <1>1 DEF vars, WireInv, Done
<1>2. ASSUME NEW c \in Calls, Send(c) PROVE WireInv'
  BY <1>2 DEF Send, WireInv, Done
<1>3. ASSUME NEW a \in Answers, ServerReplies(a) PROVE WireInv'
  BY <1>3 DEF ServerReplies, WireInv, Done
<1>4. ASSUME phase = "answered", NEW n \in 0..Len(wire) - 1, CutShort(n)
      PROVE  WireInv'
  <2>1. answer \in Answers /\ wire = Reply(answer) /\ call \in Calls
    BY <1>4 DEF WireInv
  <2>2. wire' = SubSeq(wire, 1, n) /\ phase' = "cut" /\ answer' = answer /\ call' = call
    BY <1>4 DEF CutShort
  <2>3. IsCut(SubSeq(wire, 1, n), answer)
    BY <2>1 DEF IsCut
  <2> QED
    BY <2>1, <2>2, <2>3 DEF WireInv, Done
<1>5. CASE Receive
  BY <1>5 DEF Receive, WireInv, Done
<1>6. CASE NextCall
  BY <1>6 DEF NextCall, WireInv, Done
<1> QED
  BY <1>1, <1>2, <1>3, <1>4, <1>5, <1>6 DEF Next

\* What is known of the call, at every step.
LEMMA WireInvariant == Spec => []WireInv
<1>1. Init => WireInv
  BY DEF Init, WireInv, Done
<1> QED
  BY <1>1, WireStep, PTL DEF Spec

\* The thirteen builders: for all arguments of the C++ types, a server that
\* knows the layouts alone reads the type, the tag and every argument of each
\* request, to its last byte.
THEOREM RequestsUnderstood == Spec => []RequestUnderstood
<1>1. WireInv => RequestUnderstood
  BY BuildRead DEF WireInv, RequestUnderstood
<1> QED
  BY <1>1, WireInvariant, PTL

\* A request can be answered.
LEMMA RequestsHaveReplies ==
    ASSUME NEW c \in Calls
    PROVE  c.type \in DOMAIN ReplyTo
BY CallsAssumption DEF RequestLayout, ReplyTo

\* The thirteen parsers and IsRlerror: of a server that keeps to the layouts,
\* the session gets every value of a whole reply of the right type, whatever
\* the values, the texts and the number of names or entries, and the code of
\* every error.
THEOREM RepliesUnderstood == ServerKeepsToLayouts => (Spec => []ReplyUnderstood)
<1>1. ASSUME ServerKeepsToLayouts PROVE WireInv => ReplyUnderstood
  <2> SUFFICES ASSUME WireInv, phase = "done" PROVE ReplyUnderstood
    BY DEF ReplyUnderstood
  <2>1. /\ call \in Calls /\ answer \in Answers
        /\ got = ReplyResult(call, Reply(answer))
    BY DEF WireInv, Done
  <2>2. answer.type = ReplyTo[call.type] =>
            got = [rc |-> "ok", code |-> 0, vals |-> answer.vals]
    BY <1>1, <2>1, RequestsHaveReplies, ReplyRead
  <2>3. answer.type = "Rlerror" /\ answer.vals[1] # 0 =>
            got.rc = "error" /\ got.code = answer.vals[1]
    BY <1>1, <2>1, ErrorReported
  <2> QED
    BY <2>2, <2>3 DEF ReplyUnderstood
<1>2. ASSUME ServerKeepsToLayouts PROVE Spec => []ReplyUnderstood
  <2>1. WireInv => ReplyUnderstood
    BY <1>1, <1>2
  <2> QED
    BY <2>1, WireInvariant, PTL
<1> QED
  BY <1>2

\* A result of "ok" was parsed from a message of the type asked for.
LEMMA OkIsParsed ==
    ASSUME NEW c, c.type \in DOMAIN ReplyTo, NEW d, ReplyResult(c, d).rc = "ok"
    PROVE  GetType(d) = ReplyTo[c.type] /\ GetType(d) # "Tlerror"
<1>1. Parse(c.type, d).ok
  BY DEF ReplyResult
<1>2. GetType(d) = ReplyTo[c.type]
  BY <1>1, ParsersCheckTheType
<1> QED
  BY <1>2 DEF ReplyTo

\* A reply of another type, or one too short for a header, is taken for the
\* answer by none of the thirteen parsers, for all values and texts.
THEOREM ForeignRepliesRejected == Spec => []ForeignReplyRejected
<1>1. ASSUME WireInv, Done, got.rc = "ok"
      PROVE  answer.type = ReplyTo[call.type] /\ ~(Len(wire) < 7)
  <2>1. call.type \in DOMAIN ReplyTo /\ ReplyResult(call, wire).rc = "ok"
    BY <1>1, RequestsHaveReplies DEF WireInv, Done
  <2>2. GetType(wire) = ReplyTo[call.type] /\ GetType(wire) # "Tlerror"
    BY <2>1, OkIsParsed
  <2>3. answer \in Answers /\ (wire = Reply(answer) \/ IsCut(wire, answer))
    BY <1>1 DEF WireInv, Done
  <2> QED
    BY <2>2, <2>3, TypeOfReply
<1>2. WireInv => ForeignReplyRejected
  BY <1>1 DEF ForeignReplyRejected
<1> QED
  BY <1>2, WireInvariant, PTL

-----------------------------------------------------------------------------
(* Replies that were cut short.                                            *)

\* One sequence behind another.
Behind(u, s, t) == /\ Len(u) = Len(s) + Len(t)
                   /\ \A i \in 1..Len(s) : u[i] = s[i]
                   /\ \A i \in 1..Len(t) : u[Len(s) + i] = t[i]

\* The items of a concatenation.
LEMMA JoinedItems ==
    ASSUME NEW S, NEW s \in Seq(S), NEW t \in Seq(S)
    PROVE  Behind(s \o t, s, t)
BY DEF Behind

\* A text is the last field of a layout, and a qid the first, or the second
\* after an integer of eight bytes.
LEMMA LayoutForms ==
    ASSUME NEW type \in DOMAIN ReplyLayout, NEW n \in 1..Len(ReplyLayout[type])
    PROVE  /\ ReplyLayout[type][n] = "s" => n = Len(ReplyLayout[type])
           /\ ReplyLayout[type][n] = "qid" =>
                 n = 1 \/ (type = "Rgetattr" /\ n = 2 /\ ReplyLayout[type][1] = "u64")
<1>1. CASE type = "Rgetattr"
  <2> DEFINE p == <<"u64", "qid", "u32", "u32", "u32">>
             q == [i \in 1..15 |-> "u64"]
             l == ReplyLayout[type]
  <2>1. p \in Seq(Kinds) /\ Len(p) = 5
    BY DEF Kinds
  <2>2. q \in Seq(Kinds) /\ Len(q) = 15
    <3>1. q \in [1..15 -> Kinds] /\ 15 \in Nat
      BY DEF Kinds
    <3> HIDE DEF q
    <3> QED
      BY <3>1, FunctionIsSeq, ZenonT(40)
  <2>3. \A i \in 1..15 : q[i] = "u64"
    OBVIOUS
  <2>4. /\ p[1] = "u64" /\ p[2] = "qid" /\ p[3] = "u32" /\ p[4] = "u32" /\ p[5] = "u32"
    OBVIOUS
  <2>5. l = p \o q
    BY <1>1 DEF ReplyLayout
  <2> HIDE DEF p, q, l
  <2>6. /\ Len(l) = 20 /\ \A i \in 1..5 : l[i] = p[i]
        /\ \A i \in 1..20 : i > 5 => i - 5 \in 1..15 /\ l[i] = q[i - 5]
    <3>1. Behind(l, p, q)
      <4>1. Behind(p \o q, p, q)
        BY <2>1, <2>2, JoinedItems
      <4> QED
        BY <2>5, <4>1, Zenon
    <3>2. /\ Len(l) = 20 /\ \A i \in 1..5 : l[i] = p[i]
          /\ \A i \in 1..15 : l[5 + i] = q[i]
      BY <2>1, <2>2, <3>1 DEF Behind
    <3>3. \A i \in 1..20 : i > 5 => i - 5 \in 1..15 /\ 5 + (i - 5) = i
      OBVIOUS
    <3> QED
      BY <3>2, <3>3, Zenon
  <2>7. \A i \in 1..20 : i > 5 => l[i] = "u64"
    BY <2>3, <2>6
  <2>8. l[1] = "u64" /\ l[2] = "qid" /\ l[3] = "u32" /\ l[4] = "u32" /\ l[5] = "u32"
    BY <2>4, <2>6, SMTT(40)
  <2>9. n \in 1..20
    BY <2>6 DEF l
  <2>10. l[n] # "s" /\ (l[n] = "qid" => n = 2)
    <3>1. CASE n > 5
      BY <2>7, <2>9, <3>1
    <3>2. CASE n \in 1..5
      BY <2>8, <3>2
    <3> QED
      BY <2>9, <3>1, <3>2
  <2> QED
    BY <1>1, <2>8, <2>10 DEF l
<1>2. CASE type \in {"Rlerror", "Rversion", "Rattach", "Rlopen", "Rclunk", "Rwrite",
                     "Rlcreate", "Rmkdir", "Runlinkat", "Rrenameat"}
  <2>1. ReplyLayout[type] \in {<<"u32">>, <<"u32", "s">>, <<"qid">>, <<"qid", "u32">>, << >>}
    BY <1>2, SMTT(40) DEF ReplyLayout
  <2> DEFINE l == ReplyLayout[type]
  <2> HIDE DEF l
  <2>2. /\ l \in {<<"u32">>, <<"u32", "s">>, <<"qid">>, <<"qid", "u32">>, << >>}
        /\ n \in 1..Len(l)
    BY <2>1 DEF l
  <2>3. /\ l[n] = "s" => n = Len(l)
        /\ l[n] = "qid" => n = 1
    BY <2>2
  <2> QED
    BY <2>3 DEF l
<1> QED
  BY <1>1, <1>2 DEF ReplyLayout

\* What is left of a reply, with its type.
LEMMA CutOfReply ==
    ASSUME ServerKeepsToLayouts, NEW a \in Answers, Body(a) \in Seq(Byte),
           NEW d, IsCut(d, a), GetType(d) # "Tlerror"
    PROVE  /\ Cut(d, Reply(a)) /\ 7 <= Len(d)
           /\ \A i \in 8..Len(d) : d[i] \in Byte
<1> DEFINE w == Reply(a)
<1>1. /\ w \in Seq(Cell) /\ Len(w) = 7 + Len(Body(a)) /\ Holds(w, 7, Body(a))
  BY ReplyHeld
<1> HIDE DEF w
<1>2. PICK n \in 0..Len(w) - 1 : d = SubSeq(w, 1, n)
  BY DEF IsCut, w
<1>3. /\ d \in Seq(Cell) /\ Len(d) = n /\ \A i \in 1..n : d[i] = w[i]
  BY <1>1, <1>2
<1>4. Cut(d, w)
  BY <1>1, <1>2, <1>3 DEF Cut
<1>5. 7 <= Len(d)
  <2>1. ~ (Len(d) < 7)
    BY DEF GetType, kHeaderSize
  <2> QED
    BY <1>3, <2>1
<1>6. ASSUME NEW i \in 8..Len(d) PROVE d[i] \in Byte
  <2>1. i - 7 \in 1..Len(Body(a)) /\ 7 + (i - 7) = i /\ i \in 1..n
    BY <1>1, <1>2, <1>3
  <2>2. w[7 + (i - 7)] = Body(a)[i - 7]
    BY <1>1, <2>1 DEF Holds
  <2>3. Body(a)[i - 7] \in Byte
    BY <2>1
  <2> QED
    BY <1>3, <2>1, <2>2, <2>3
<1> QED
  BY <1>4, <1>5, <1>6 DEF w

\* A reply of fixed layout that was cut short.
LEMMA LayoutCut ==
    ASSUME ServerKeepsToLayouts, NEW a \in Answers, a.type \in DOMAIN ReplyLayout,
           NEW d, IsCut(d, a), GetType(d) # "Tlerror"
    PROVE  LET forms == ReplyLayout[a.type]
               x     == Gets(forms, d, 7).val
           IN  /\ Len(x) = Len(forms)
               /\ \A i \in DOMAIN forms :
                    \/ forms[i] = "s"
                    \/ x[i] \in Remains(forms[i], a.vals[i])
                    \/ /\ a.type = "Rgetattr" /\ i = 2
                       /\ x[2][1] \in Range(Eight(a.vals[1]))
                       /\ x[2][2] = 0 /\ x[2][3] = 0
<1> DEFINE forms == ReplyLayout[a.type]
           x == Gets(forms, d, 7).val
           w == Reply(a)
<1>1. /\ Len(forms) \in Nat /\ DOMAIN forms = 1..Len(forms)
      /\ \A n \in 1..Len(forms) : forms[n] \in Kinds
  <2>1. forms \in Seq(Kinds)
    BY ReplyForms
  <2> HIDE DEF forms
  <2> QED
    BY <2>1
<1>2. /\ \A n \in 1..Len(forms) : Fits(forms[n], a.vals[n])
      /\ Body(a) = WrittenAll(forms, a.vals)
  <2>1. Body(a) = WrittenAll(forms, a.vals) /\ FitAll(forms, a.vals)
    BY FieldsFit
  <2> QED
    BY <1>1, <2>1, FitEach
<1>3. \A n \in 1..Len(forms) :
         /\ forms[n] = "s" => n = Len(forms)
         /\ forms[n] = "qid" => n = 1 \/ (a.type = "Rgetattr" /\ n = 2 /\ forms[1] = "u64")
  BY LayoutForms
<1>4. /\ Cut(d, w) /\ 7 <= Len(d) /\ Holds(w, 7, WrittenAll(forms, a.vals))
  <2>1. Body(a) \in Seq(Byte)
    BY FieldsRead
  <2> QED
    BY <1>2, <2>1, CutOfReply, ReplyHeld
<1> HIDE DEF forms, w
<1>5. /\ Len(x) = Len(forms)
      /\ \E at : /\ at[0] = 7
                 /\ \A n \in 1..Len(forms) :
                      /\ at[n] = at[n - 1] + Len(Written(forms[n], a.vals[n]))
                      /\ at[n - 1] \in Nat
                      /\ Holds(w, at[n - 1], Written(forms[n], a.vals[n]))
                      /\ forms[n] = "s" \/ Left(d, 7, at[n - 1], forms[n], a.vals[n], x[n])
  <2>1. 7 \in Nat
    OBVIOUS
  <2>2. \A n \in 1..Len(forms) : /\ forms[n] \in Kinds /\ Fits(forms[n], a.vals[n])
                                 /\ forms[n] = "s" => n = Len(forms)
    BY <1>1, <1>2, <1>3
  <2> QED
    BY <1>1, <1>4, <2>1, <2>2, GetsCut, ZenonT(40)
<1> HIDE DEF x
<1>6. PICK at : /\ at[0] = 7
                /\ \A n \in 1..Len(forms) :
                      /\ at[n] = at[n - 1] + Len(Written(forms[n], a.vals[n]))
                      /\ at[n - 1] \in Nat
                      /\ Holds(w, at[n - 1], Written(forms[n], a.vals[n]))
                      /\ forms[n] = "s" \/ Left(d, 7, at[n - 1], forms[n], a.vals[n], x[n])
  BY <1>5
<1>7. ASSUME NEW n \in 1..Len(forms), forms[n] # "s", x[n] \notin Remains(forms[n], a.vals[n])
      PROVE  /\ a.type = "Rgetattr" /\ n = 2
             /\ x[2][1] \in Range(Eight(a.vals[1])) /\ x[2][2] = 0 /\ x[2][3] = 0
  <2>1. /\ forms[n] = "qid" /\ x[n][2] = 0 /\ x[n][3] = 0 /\ Len(d) < at[n - 1]
        /\ \E k \in 7 + 1..Len(d) : x[n][1] = d[k]
    BY <1>6, <1>7 DEF Left
  <2>2. Len(d) \in Nat /\ d \in Seq(Cell)
    BY <1>4 DEF Cut
  <2>3. n # 1
    BY <1>4, <1>6, <2>1, <2>2
  <2>4. a.type = "Rgetattr" /\ n = 2 /\ forms[1] = "u64"
    BY <1>3, <2>1, <2>3
  <2>5. 1 \in 1..Len(forms) /\ 2 \in 1..Len(forms) /\ 1 - 1 = 0 /\ 2 - 1 = 1
    BY <1>1, <2>4
  <2> DEFINE v == a.vals[1]
             e == Eight(v)
  <2>6. v \in U64 /\ Written(forms[1], v) = e
    BY <1>2, <2>4, <2>5 DEF Fits, Written
  <2>7. e \in Seq(Byte) /\ Len(e) = 8
    BY <2>6, EightIsBytes
  <2> HIDE DEF v, e
  <2>8. at[1] = 7 + 8 /\ Holds(w, 7, e)
    <3>1. /\ at[1] = at[1 - 1] + Len(Written(forms[1], v))
          /\ Holds(w, at[1 - 1], Written(forms[1], v))
      BY <1>6, <2>5 DEF v
    <3> QED
      BY <1>6, <2>5, <2>6, <2>7, <3>1
  <2>9. PICK k \in 7 + 1..Len(d) : x[2][1] = d[k]
    BY <2>1, <2>4
  <2>10. k - 7 \in 1..Len(e) /\ 7 + (k - 7) = k /\ k \in 1..Len(d)
    BY <2>1, <2>2, <2>4, <2>5, <2>7, <2>8
  <2>11. d[k] = e[k - 7]
    BY <1>4, <2>8, <2>10 DEF Cut, Holds
  <2>12. e[k - 7] \in Range(e)
    BY <2>7, <2>10, SMTT(40) DEF Range
  <2> QED
    BY <2>1, <2>4, <2>9, <2>11, <2>12 DEF v, e
<1>8. \A i \in DOMAIN forms :
         \/ forms[i] = "s"
         \/ x[i] \in Remains(forms[i], a.vals[i])
         \/ /\ a.type = "Rgetattr" /\ i = 2
            /\ x[2][1] \in Range(Eight(a.vals[1]))
            /\ x[2][2] = 0 /\ x[2][3] = 0
  BY <1>1, <1>7
<1> QED
  BY <1>5, <1>8 DEF x, forms

\* An Rread that was cut short brings no data.
LEMMA ReadCut ==
    ASSUME ServerKeepsToLayouts, NEW a \in Answers, a.type = "Rread",
           NEW d, IsCut(d, a), GetType(d) # "Tlerror"
    PROVE  GetType(d) = "Rread" => ParseRread(d).vals = << << >> >>
<1> DEFINE v == a.vals[1]
           w == Reply(a)
<1>1. v \in Seq(Byte) /\ Len(v) < Two32
  <2>1. FitAll(<<"data">>, a.vals)
    BY DEF ServerKeepsToLayouts
  <2>2. \A n \in 1..1 : Fits(<<"data">>[n], a.vals[n])
    BY <2>1 DEF FitAll
  <2>3. Fits("data", v)
    BY <2>2
  <2> QED
    BY <2>3 DEF Fits
<1>2. Body(a) = Four(Len(v)) \o v
  BY DEF Body
<1>3. /\ Len(v) \in U32 /\ Len(v) \in Nat /\ v \in Seq(Cell)
      /\ Four(Len(v)) \in Seq(Cell) /\ Len(Four(Len(v))) = 4
  <2> HIDE DEF v
  <2> QED
    BY <1>1, DataIsBytes, BytesAreCells DEF U32
<1>4. /\ Cut(d, w) /\ 7 <= Len(d) /\ Len(w) = 11 + Len(v) /\ w \in Seq(Cell)
      /\ Holds(w, 7, Four(Len(v)) \o v)
  <2>1. Body(a) \in Seq(Byte)
    BY ReadRead
  <2>2. /\ Cut(d, w) /\ 7 <= Len(d) /\ w \in Seq(Cell) /\ Len(w) = 7 + Len(Body(a))
        /\ Holds(w, 7, Body(a))
    BY <2>1, CutOfReply, ReplyHeld
  <2> HIDE DEF v, w
  <2>3. Len(Body(a)) = 4 + Len(v)
    BY <1>1, <1>2, DataIsBytes
  <2> QED
    BY <1>2, <1>3, <2>2, <2>3
<1>5. Len(w) < Two32
  BY ReadRead, ReplyLength
<1> HIDE DEF v, w
<1>6. Len(d) \in Nat /\ d \in Seq(Cell) /\ Len(d) < 11 + Len(v)
  BY <1>4 DEF Cut
<1> DEFINE count == GetU32(d, 7)
<1>7. GetBytes(d, count.off, count.val).val = << >>
  <2>1. CASE Len(d) < 11
    <3>1. count = Got(7, 0)
      BY <1>4, <1>6, <2>1 DEF GetU32
    <3>2. count.off = 7 /\ count.val = 0
      BY <3>1 DEF Got
    <3>3. SubSeq(d, 8, 7) = << >>
      BY <1>6
    <3>4. GetBytes(d, 7, 0) = Got(7, << >>)
      <4>1. ~ (7 > Len(d)) /\ 7 + 0 = 7 /\ 7 + 1 = 8
        BY <1>4, <1>6
      <4>2. 7 \in Nat /\ 7 < Two32
        BY <1>3, <1>4, <1>5, <1>6, Widths
      <4>3. 7 % Two32 = 7
        BY <4>2, Unwrapped
      <4> QED
        BY <3>3, <4>1, <4>3, Zenon DEF GetBytes
    <3> HIDE DEF count
    <3> QED
      BY <3>2, <3>4 DEF Got
  <2>2. CASE ~ (Len(d) < 11)
    <3>1. Holds(w, 7, Four(Len(v)))
      BY <1>3, <1>4, HoldsParts
    <3>2. 7 \in Nat /\ 7 + Len(Four(Len(v))) <= Len(d)
      BY <1>3, <1>6, <2>2
    <3>3. Holds(d, 7, Four(Len(v)))
      BY <1>3, <1>4, <3>1, <3>2, CutHolds, Zenon
    <3>4. count = Got(7 + 4, Len(v))
      BY <1>3, <1>6, <3>2, <3>3, GotHeld
    <3>5. count.off = 11 /\ count.val = Len(v)
      BY <3>4 DEF Got
    <3> HIDE DEF count
    <3>6. GetBytes(d, 11, Len(v)) = Got(11, << >>)
      <4>1. 11 + Len(v) \in Nat /\ 11 + Len(v) < Two32
        BY <1>3, <1>4, <1>5
      <4>2. (11 + Len(v)) % Two32 = 11 + Len(v)
        BY <4>1, Unwrapped
      <4>3. 11 + Len(v) > Len(d)
        BY <1>3, <1>6
      <4> QED
        BY <4>2, <4>3, Zenon DEF GetBytes
    <3> QED
      BY <3>5, <3>6 DEF Got
  <2> QED
    BY <2>1, <2>2
<1>8. GetType(d) = "Rread" => ParseRread(d).vals = <<GetBytes(d, count.off, count.val).val>>
  BY DEF ParseRread, kHeaderSize
<1> HIDE DEF count
<1> QED
  BY <1>7, <1>8, Zenon

\* Where an entry of a directory is read, and that its name has a length.
LEMMA EntryOffsets ==
    ASSUME NEW d \in Seq(Cell), \A i \in 8..Len(d) : d[i] \in Byte,
           NEW off \in Nat, off >= 7
    PROVE  /\ GetEntry(d, off).off \in Nat /\ GetEntry(d, off).off >= 7
           /\ Len(GetEntry(d, off).val[4]) \in Nat
<1> DEFINE Far(o) == o \in Nat /\ o >= 7
<1>1. Len(d) \in Nat
  OBVIOUS
<1>2. ASSUME NEW o, Far(o)
      PROVE  Far(GetU8(d, o).off) /\ Far(GetU16(d, o).off) /\ Far(GetU32(d, o).off)
  BY <1>1, <1>2 DEF GetU8, GetU16, GetU32, Got
<1>3. ASSUME NEW o, Far(o) PROVE Far(GetU64(d, o).off)
  <2> HIDE DEF Far
  <2>1. Far(GetU32(d, GetU32(d, o).off).off)
    BY <1>2, <1>3
  <2> QED
    BY <2>1 DEF GetU64, Got
<1>4. ASSUME NEW o, Far(o) PROVE Far(GetQid(d, o).off)
  <2> HIDE DEF Far
  <2>1. Far(GetU64(d, GetU32(d, GetU8(d, o).off).off).off)
    BY <1>2, <1>3, <1>4
  <2> QED
    BY <2>1 DEF GetQid, Got
<1>5. ASSUME NEW o, Far(o) PROVE GetU16(d, o).val \in Nat
  <2>1. CASE o + 2 > Len(d)
    BY <1>1, <1>5, <2>1 DEF GetU16, Got
  <2>2. CASE ~ (o + 2 > Len(d))
    <3>1. d[o + 1] \in Nat /\ d[o + 2] \in Nat
      <4>1. o + 1 \in 8..Len(d) /\ o + 2 \in 8..Len(d)
        BY <1>1, <1>5, <2>2
      <4> QED
        BY <4>1, CellsOfBytes
    <3>2. \A x \in Nat, y \in Nat : x + B * y \in Nat
      BY Widths
    <3>3. U16At(d, o) \in Nat
      BY <3>1, <3>2, Zenon DEF U16At
    <3> QED
      BY <2>2, <3>3 DEF GetU16, Got
  <2> QED
    BY <2>1, <2>2
<1>6. ASSUME NEW o, Far(o), NEW n \in Nat
      PROVE  Far(Take(d, o, n).off) /\ Len(Take(d, o, n).val) \in Nat
  <2>1. CASE o + n > Len(d)
    BY <1>6, <2>1 DEF Take, Got
  <2>2. CASE ~ (o + n > Len(d))
    <3>1. Len(SubSeq(d, o + 1, o + n)) \in Nat
      BY <1>1, <1>6, <2>2
    <3> QED
      BY <1>6, <2>2, <3>1 DEF Take, Got
  <2> QED
    BY <2>1, <2>2
<1>7. ASSUME NEW o, Far(o)
      PROVE  Far(GetString(d, o).off) /\ Len(GetString(d, o).val) \in Nat
  <2> HIDE DEF Far
  <2>1. Far(GetU16(d, o).off) /\ GetU16(d, o).val \in Nat
    BY <1>2, <1>5, <1>7
  <2>2. GetString(d, o) = Take(d, GetU16(d, o).off, GetU16(d, o).val)
    BY DEF GetString
  <2> QED
    BY <1>6, <2>1, <2>2
<1> HIDE DEF Far
<1> DEFINE qid    == GetQid(d, off)
           offset == GetU64(d, qid.off)
           type   == GetU8(d, offset.off)
           name   == GetString(d, type.off)
<1>8. Far(off)
  BY DEF Far
<1>9. Far(name.off) /\ Len(name.val) \in Nat
  BY <1>2, <1>3, <1>4, <1>7, <1>8
<1>10. GetEntry(d, off) = Got(name.off, <<qid.val, offset.val, type.val, name.val>>)
  BY DEF GetEntry
<1> HIDE DEF name, type, offset, qid
<1>11. GetEntry(d, off).off = name.off /\ GetEntry(d, off).val[4] = name.val
  BY <1>10 DEF Got
<1> QED
  BY <1>9, <1>11 DEF Far

\* What the loop of ParseRreaddir has made by each turn.
LEMMA EntriesBounded ==
    ASSUME NEW d \in Seq(Cell), \A i \in 8..Len(d) : d[i] \in Byte,
           NEW off \in Nat, off >= 7, NEW count \in Nat
    PROVE  Len(Entries(d, off, count)) * 24 < count + 24
<1>1. PICK t : EntriesBy(t, d, off, count)
  BY EntriesTurns
<1>2. /\ t[0] = [off |-> off, consumed |-> 0, entries |-> << >>]
      /\ Entries(d, off, count) = t[count].entries
      /\ \A n \in 1..count : t[n] = EntryTurn(d, count, t[n - 1])
  BY <1>1 DEF EntriesBy
<1> DEFINE S == {GetEntry(d, t[n].off).val : n \in 0..count}
           Known(r) == /\ r.off \in Nat /\ r.off >= 7 /\ r.consumed \in Nat
                       /\ r.entries \in Seq(S) /\ Len(r.entries) * 24 <= r.consumed
                       /\ Len(r.entries) * 24 < count + 24
           T == {n \in 0..count : Known(t[n])}
<1>3. 0 \in T
  <2> HIDE DEF S
  <2>1. << >> \in Seq(S) /\ Len(<< >>) = 0
    OBVIOUS
  <2>2. t[0].off = off /\ t[0].consumed = 0 /\ t[0].entries = << >>
    BY <1>2
  <2>3. Known(t[0])
    BY <2>1, <2>2
  <2> QED
    BY <2>3
<1>4. ASSUME NEW n \in 1..count, n - 1 \in T PROVE n \in T
  <2> DEFINE r == t[n - 1]
             e == GetEntry(d, r.off)
  <2>1. Known(r)
    BY <1>4
  <2>2. t[n] = EntryTurn(d, count, r)
    BY <1>2
  <2>3. e.val \in S
    OBVIOUS
  <2>4. /\ e.off \in Nat /\ e.off >= 7 /\ Len(e.val[4]) \in Nat
    <3> HIDE DEF S
    <3>1. r.off \in Nat /\ r.off >= 7
      BY <2>1
    <3> HIDE DEF r
    <3> QED
      BY <3>1, EntryOffsets
  <2> HIDE DEF S, r
  <2>5. CASE r.consumed >= count
    <3>1. t[n] = r
      BY <2>2, <2>5 DEF EntryTurn
    <3>2. Known(t[n])
      BY <2>1, <3>1
    <3> QED
      BY <3>2
  <2>6. CASE ~ (r.consumed >= count)
    <3>1. t[n] = [off |-> e.off, consumed |-> r.consumed + EntrySize(e.val[4]),
                  entries |-> Append(r.entries, e.val)]
      BY <2>2, <2>6 DEF EntryTurn
    <3> HIDE DEF e
    <3>2. /\ t[n].off = e.off /\ t[n].consumed = r.consumed + (24 + Len(e.val[4]))
          /\ t[n].entries = Append(r.entries, e.val)
      BY <3>1 DEF EntrySize
    <3>3. /\ r.consumed \in Nat /\ r.entries \in Seq(S)
          /\ Len(r.entries) * 24 <= r.consumed
      BY <2>1
    <3>4. /\ Append(r.entries, e.val) \in Seq(S) /\ Len(r.entries) \in Nat
          /\ Len(Append(r.entries, e.val)) = Len(r.entries) + 1
      BY <2>3, <3>3
    <3>5. /\ (Len(r.entries) + 1) * 24 = Len(r.entries) * 24 + 24
          /\ Len(r.entries) * 24 \in Nat
      BY <3>4
    <3>6. /\ (Len(r.entries) + 1) * 24 <= r.consumed + (24 + Len(e.val[4]))
          /\ (Len(r.entries) + 1) * 24 < count + 24
      BY <2>4, <2>6, <3>3, <3>5, SMTT(40)
    <3>7. r.consumed + (24 + Len(e.val[4])) \in Nat
      BY <2>4, <3>3, SMTT(40)
    <3>8. Known(t[n])
      BY <2>4, <3>2, <3>4, <3>6, <3>7
    <3> QED
      BY <3>8
  <2> QED
    BY <2>5, <2>6
<1> HIDE DEF T
<1>5. count \in T
  <2>1. 0..count \subseteq T
    BY <1>3, <1>4, CountTo
  <2> QED
    BY <2>1
<1> HIDE DEF S
<1> QED
  BY <1>2, <1>5 DEF T

\* An Rreaddir that was cut short gives no more entries than its count can hold.
LEMMA ReaddirCut ==
    ASSUME ServerKeepsToLayouts, NEW a \in Answers, a.type = "Rreaddir",
           NEW d, IsCut(d, a), GetType(d) = "Rreaddir"
    PROVE  Len(ParseRreaddir(d).vals) * 24 < FourAt(Reply(a), 7) + 24
<1> DEFINE w == Reply(a)
           count == GetU32(d, 7)
           whole == FourAt(w, 7)
<1>1. Body(a) \in Seq(Byte) /\ whole \in Nat /\ GetU32(w, 7).val = whole
  BY ReaddirRead
<1>2. /\ Cut(d, w) /\ 7 <= Len(d) /\ \A i \in 8..Len(d) : d[i] \in Byte
  BY <1>1, CutOfReply
<1>3. ParseRreaddir(d).vals = Entries(d, count.off, count.val)
  BY DEF ParseRreaddir, kHeaderSize
<1> HIDE DEF w, whole
<1>4. /\ d \in Seq(Cell) /\ w \in Seq(Cell) /\ Len(d) \in Nat /\ Len(d) < Len(w)
      /\ Len(w) \in Nat
  BY <1>2 DEF Cut
<1>5. CASE Len(d) < 11
  <2>1. count = Got(7, 0)
    BY <1>2, <1>4, <1>5 DEF GetU32
  <2>2. count.off = 7 /\ count.val = 0
    BY <2>1 DEF Got
  <2> HIDE DEF count
  <2>3. Entries(d, 7, 0) = << >>
    <3>1. PICK t : EntriesBy(t, d, 7, 0)
      BY EntriesTurns
    <3> QED
      BY <3>1 DEF EntriesBy
  <2>4. Len(ParseRreaddir(d).vals) = 0
    BY <1>3, <2>2, <2>3
  <2> QED
    BY <1>1, <2>4 DEF whole, w
<1>6. CASE ~ (Len(d) < 11)
  <2>1. d[8] = w[8] /\ d[9] = w[9] /\ d[10] = w[10] /\ d[11] = w[11]
    BY <1>2, <1>4, <1>6 DEF Cut
  <2>2. U32At(d, 7) = U32At(w, 7)
    BY <2>1 DEF U32At
  <2>3. /\ GetU32(d, 7) = Got(11, U32At(d, 7)) /\ GetU32(w, 7) = Got(11, U32At(w, 7))
    BY <1>4, <1>6 DEF GetU32
  <2>4. count.off = 11 /\ count.val = whole
    BY <1>1, <2>2, <2>3 DEF Got
  <2> HIDE DEF count
  <2>5. Len(Entries(d, 11, whole)) * 24 < whole + 24
    <3>1. 11 \in Nat /\ 11 >= 7
      OBVIOUS
    <3> QED
      BY <1>1, <1>2, <1>4, <3>1, EntriesBounded
  <2> QED
    BY <1>3, <2>4, <2>5 DEF whole, w
<1> QED
  BY <1>5, <1>6

\* The replies that were cut short, whatever their values, and wherever the cut
\* is: integers that the server sent, the low half of one, or 0, with the two
\* exceptions of the property; no data; and entries for no more than a count.
THEOREM CutRepliesInventNothing == ServerKeepsToLayouts => (Spec => []CutReplyInventsNothing)
<1>1. ASSUME ServerKeepsToLayouts, WireInv PROVE CutReplyInventsNothing
  <2> SUFFICES ASSUME phase = "doneCut", got.rc = "ok" PROVE CutReplyInventsNothing
    BY DEF CutReplyInventsNothing
  <2>1. /\ call \in Calls /\ answer \in Answers /\ IsCut(wire, answer)
        /\ got = ReplyResult(call, wire) /\ call.type \in DOMAIN ReplyTo
    BY <1>1, RequestsHaveReplies DEF WireInv, Done
  <2>2. /\ GetType(wire) = ReplyTo[call.type] /\ GetType(wire) # "Tlerror"
        /\ GetType(wire) = answer.type
    BY <2>1, OkIsParsed, TypeOfReply
  <2>3. got.vals = Parse(call.type, wire).vals
    BY <2>1 DEF ReplyResult
  <2>4. ASSUME answer.type \in DOMAIN ReplyLayout
        PROVE  LET forms == ReplyLayout[answer.type] IN
               /\ Len(got.vals) = Len(forms)
               /\ \A i \in DOMAIN forms :
                    \/ forms[i] = "s"
                    \/ got.vals[i] \in Remains(forms[i], answer.vals[i])
                    \/ /\ answer.type = "Rgetattr" /\ i = 2
                       /\ got.vals[2][1] \in Range(Eight(answer.vals[1]))
                       /\ got.vals[2][2] = 0 /\ got.vals[2][3] = 0
    <3>1. call.type \in FixedReplies
      BY <2>1, <2>2, <2>4 DEF FixedReplies, ReplyTo, ReplyLayout
    <3>2. Parse(call.type, wire) = ParseFields(wire, answer.type, ReplyLayout[answer.type])
      BY <2>2, <3>1, ParsesByLayout
    <3>3. got.vals = Gets(ReplyLayout[answer.type], wire, 7).val
      BY <2>2, <2>3, <3>2 DEF ParseFields, kHeaderSize
    <3> QED
      BY <1>1, <2>1, <2>2, <2>4, <3>3, LayoutCut
  <2>5. ASSUME answer.type = "Rread" PROVE got.vals = << << >> >>
    <3>1. call.type = "Tread"
      BY <2>1, <2>2, <2>5 DEF ReplyTo
    <3>2. got.vals = ParseRread(wire).vals
      BY <2>3, <3>1 DEF Parse
    <3> QED
      BY <1>1, <2>1, <2>2, <2>5, <3>2, ReadCut
  <2>6. ASSUME answer.type = "Rreaddir"
        PROVE  Len(got.vals) * 24 < FourAt(Reply(answer), 7) + 24
    <3>1. call.type = "Treaddir"
      BY <2>1, <2>2, <2>6 DEF ReplyTo
    <3>2. got.vals = ParseRreaddir(wire).vals
      BY <2>3, <3>1 DEF Parse
    <3> QED
      BY <1>1, <2>1, <2>2, <2>6, <3>2, ReaddirCut
  <2> QED
    BY <2>4, <2>5, <2>6 DEF CutReplyInventsNothing
<1>2. ASSUME ServerKeepsToLayouts PROVE Spec => []CutReplyInventsNothing
  <2>1. WireInv => CutReplyInventsNothing
    BY <1>1, <1>2
  <2> QED
    BY <2>1, WireInvariant, PTL
<1> QED
  BY <1>2
=============================================================================
