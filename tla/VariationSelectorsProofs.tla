---------------------- MODULE VariationSelectorsProofs ----------------------
(***************************************************************************)
(* Texts and the codec of src/vs.rs.                                       *)
(*                                                                         *)
(* First mathematical induction, then byte offsets: PrefixLen is a         *)
(* recursive function, so its defining equation has to be proved before it *)
(* can be used; everything else about byte lengths follows from that       *)
(* equation by induction on the prefix.  Then the codec: a byte and its    *)
(* selector determine each other, and a run decodes to the bytes it        *)
(* encodes wherever it stands in a text.                                   *)
(***************************************************************************)
EXTENDS VariationSelectors, WellFoundedInduction, SequenceTheorems, TLAPS

-----------------------------------------------------------------------------
(* Induction, stated for a set of naturals instead of a predicate: to prove *)
(* P(n) for every natural n, take {n \in Nat : P(n)}.                       *)

\* A set of naturals that holds 0 and the successor of each of its elements is
\* the set of all naturals: otherwise a least element of its complement, which
\* exists because < is well founded on Nat, would have a predecessor in the set.
LEMMA NatSetInduction ==
  ASSUME NEW S, S \subseteq Nat, 0 \in S, \A n \in S : n + 1 \in S
  PROVE  S = Nat
<1>1. SUFFICES ASSUME Nat \ S # {}
               PROVE  FALSE
  OBVIOUS
<1> DEFINE T == Nat \ S
<1>2. PICK x \in T : \A y \in T : ~(<<y, x>> \in OpToRel(<, Nat))
  <2> HIDE DEF T
  <2>1. T \subseteq Nat /\ T # {}
    BY <1>1 DEF T
  <2> QED
    BY <2>1, NatLessThanWellFounded, WFMin
<1>3. x \in Nat /\ x # 0 /\ x - 1 \in Nat
  OBVIOUS
<1>4. x - 1 \in T
  BY <1>3
<1>5. <<x - 1, x>> \in OpToRel(<, Nat)
  BY <1>3 DEF OpToRel
<1> QED
  BY <1>2, <1>4, <1>5

\* f is computed from its value z at 0, each value from the one before.
Stepwise(f, n, z, g) == f[0] = z /\ \A k \in 1 .. n : f[k] = g[k][f[k - 1]]

\* Such a function exists, for values of any kind.
LEMMA StepwiseFunction ==
  ASSUME NEW S, NEW n \in Nat, NEW z \in S, NEW g \in [1 .. n -> [S -> S]]
  PROVE  \E f \in [0 .. n -> S] : Stepwise(f, n, z, g)
<1> DEFINE D == {m \in Nat : m <= n => \E f \in [0 .. m -> S] : Stepwise(f, m, z, g)}
<1>1. 0 \in D
  <2>1. [k \in 0 .. 0 |-> z] \in [0 .. 0 -> S] /\ Stepwise([k \in 0 .. 0 |-> z], 0, z, g)
    BY DEF Stepwise
  <2> QED
    BY <2>1
<1>2. ASSUME NEW m \in D
      PROVE  m + 1 \in D
  <2>1. CASE m + 1 <= n
    <3>1. PICK f \in [0 .. m -> S] : Stepwise(f, m, z, g)
      BY <2>1
    <3> DEFINE h == [k \in 0 .. m + 1 |-> IF k = m + 1 THEN g[m + 1][f[m]] ELSE f[k]]
    <3>2. m \in 0 .. m /\ m + 1 \in 1 .. n /\ f[m] \in S
      BY <2>1
    <3>3. g[m + 1][f[m]] \in S
      BY <3>2
    <3>4. h \in [0 .. m + 1 -> S]
      BY <3>3
    <3>5. h[0] = z
      BY <3>1 DEF Stepwise
    <3>6. ASSUME NEW k \in 1 .. m + 1
          PROVE  h[k] = g[k][h[k - 1]]
      <4>1. CASE k = m + 1
        <5>1. k \in 0 .. m + 1 /\ m \in 0 .. m + 1 /\ m # m + 1 /\ k - 1 = m
          BY <4>1
        <5>2. h[k] = g[m + 1][f[m]] /\ h[m] = f[m]
          BY <4>1, <5>1
        <5> QED
          BY <4>1, <5>1, <5>2
      <4>2. CASE k \in 1 .. m
        <5>1. /\ k \in 0 .. m + 1 /\ k # m + 1
              /\ k - 1 \in 0 .. m + 1 /\ k - 1 # m + 1
          BY <4>2
        <5>2. h[k] = f[k] /\ h[k - 1] = f[k - 1]
          BY <5>1
        <5> QED
          BY <3>1, <4>2, <5>2 DEF Stepwise
      <4> QED
        BY <4>1, <4>2
    <3> HIDE DEF h
    <3>7. Stepwise(h, m + 1, z, g)
      BY <3>5, <3>6 DEF Stepwise
    <3> QED
      BY <3>4, <3>7
  <2>2. CASE ~(m + 1 <= n)
    BY <2>2
  <2> QED
    BY <2>1, <2>2
<1>3. D = Nat
  <2> HIDE DEF D
  <2> QED
    BY <1>1, <1>2, NatSetInduction DEF D
<1> QED
  BY <1>3

-----------------------------------------------------------------------------
(* Sequences, in the forms the proofs use them. *)

\* A sequence behind one more element.
LEMMA ConsProperties ==
  ASSUME NEW S, NEW s \in Seq(S), NEW c \in S
  PROVE  /\ <<c>> \o s \in Seq(S)
         /\ Len(<<c>> \o s) = Len(s) + 1
         /\ (<<c>> \o s)[1] = c
         /\ \A j \in 1 .. Len(s) : (<<c>> \o s)[j + 1] = s[j]
OBVIOUS

\* A part of a sequence, indexed from its own start.
LEMMA PartProperties ==
  ASSUME NEW S, NEW s \in Seq(S),
         NEW i \in 1 .. Len(s) + 1, NEW j \in i - 1 .. Len(s)
  PROVE  /\ SubSeq(s, i, j) \in Seq(S)
         /\ Len(SubSeq(s, i, j)) = j - i + 1
         /\ \A k \in 1 .. j - i + 1 : SubSeq(s, i, j)[k] = s[i + k - 1]
BY ElementOfSeq, SubSeqProperties

\* s from index i + 1, indexed by the distance from i.
LEMMA RestProperties ==
  ASSUME NEW S, NEW s \in Seq(S), NEW i \in 0 .. Len(s)
  PROVE  /\ SubSeq(s, i + 1, Len(s)) \in Seq(S)
         /\ Len(SubSeq(s, i + 1, Len(s))) = Len(s) - i
         /\ \A k \in 1 .. Len(s) - i : SubSeq(s, i + 1, Len(s))[k] = s[i + k]
<1>1. i + 1 \in 1 .. Len(s) + 1 /\ Len(s) \in (i + 1) - 1 .. Len(s)
  OBVIOUS
<1>2. \A k \in Int : (i + 1) + k - 1 = i + k
  OBVIOUS
<1> QED
  BY <1>1, <1>2, PartProperties

\* Two sequences joined, each indexed from its own start.
LEMMA JoinProperties ==
  ASSUME NEW S, NEW s \in Seq(S), NEW t \in Seq(S)
  PROVE  /\ s \o t \in Seq(S)
         /\ Len(s \o t) = Len(s) + Len(t)
         /\ \A j \in 1 .. Len(s) : (s \o t)[j] = s[j]
         /\ \A j \in 1 .. Len(t) : (s \o t)[Len(s) + j] = t[j]
OBVIOUS

\* Appending to what stands behind.
LEMMA AppendBehind ==
  ASSUME NEW x \in Seq(Char), NEW y \in Seq(Char), NEW c \in Char
  PROVE  Append(x \o y, c) = x \o Append(y, c)
<1> DEFINE left  == Append(x \o y, c)
           right == x \o Append(y, c)
<1>1. /\ x \o y \in Seq(Char) /\ Len(x \o y) = Len(x) + Len(y)
      /\ \A k \in 1 .. Len(x) : (x \o y)[k] = x[k]
      /\ \A k \in 1 .. Len(y) : (x \o y)[Len(x) + k] = y[k]
  BY JoinProperties
<1>2. /\ Append(y, c) \in Seq(Char) /\ Len(Append(y, c)) = Len(y) + 1
      /\ \A k \in 1 .. Len(y) : Append(y, c)[k] = y[k]
      /\ Append(y, c)[Len(y) + 1] = c
  OBVIOUS
<1>3. /\ right \in Seq(Char) /\ Len(right) = Len(x) + Len(Append(y, c))
      /\ \A k \in 1 .. Len(x) : right[k] = x[k]
      /\ \A k \in 1 .. Len(Append(y, c)) : right[Len(x) + k] = Append(y, c)[k]
  BY <1>2, JoinProperties
<1>4. /\ left \in Seq(Char) /\ Len(left) = Len(x \o y) + 1
      /\ \A k \in 1 .. Len(x \o y) : left[k] = (x \o y)[k]
      /\ left[Len(x \o y) + 1] = c
  BY <1>1
<1> HIDE DEF left, right
<1>5. Len(x) \in Nat /\ Len(y) \in Nat
  OBVIOUS
<1>6. Len(left) = Len(x) + Len(y) + 1 /\ Len(right) = Len(x) + Len(y) + 1
  BY <1>1, <1>2, <1>3, <1>4, <1>5
<1>7. ASSUME NEW k \in 1 .. Len(x) + Len(y) + 1
      PROVE  left[k] = right[k]
  <2>1. CASE k \in 1 .. Len(x)
    <3>1. k \in 1 .. Len(x \o y)
      BY <1>1, <1>5, <2>1
    <3> QED
      BY <1>1, <1>3, <1>4, <2>1, <3>1
  <2>2. CASE k \in Len(x) + 1 .. Len(x) + Len(y)
    <3> DEFINE j == k - Len(x)
    <3>1. /\ j \in 1 .. Len(y) /\ Len(x) + j = k /\ j \in 1 .. Len(Append(y, c))
          /\ k \in 1 .. Len(x \o y)
      BY <1>1, <1>2, <1>5, <2>2
    <3> HIDE DEF j
    <3>2. left[k] = (x \o y)[k] /\ (x \o y)[Len(x) + j] = y[j]
      BY <1>1, <1>4, <3>1
    <3>3. right[Len(x) + j] = Append(y, c)[j] /\ Append(y, c)[j] = y[j]
      BY <1>2, <1>3, <3>1
    <3> QED
      BY <3>1, <3>2, <3>3
  <2>3. CASE k = Len(x) + Len(y) + 1
    <3>1. Len(y) + 1 \in 1 .. Len(Append(y, c)) /\ Len(x) + (Len(y) + 1) = k
      BY <1>2, <1>5, <2>3
    <3>2. right[Len(x) + (Len(y) + 1)] = c
      BY <1>2, <1>3, <3>1
    <3>3. left[k] = c
      BY <1>1, <1>4, <2>3
    <3> QED
      BY <3>1, <3>2, <3>3
  <2> QED
    BY <1>5, <2>1, <2>2, <2>3
<1> QED
  BY <1>3, <1>4, <1>6, <1>7, SeqEqual DEF left, right

\* Three texts joined, each indexed from its own start.
LEMMA ThreeParts ==
  ASSUME NEW b \in Seq(Char), NEW c \in Seq(Char), NEW a \in Seq(Char)
  PROVE  LET text == b \o c \o a
         IN  /\ text \in Seq(Char)
             /\ Len(text) = Len(b) + Len(c) + Len(a)
             /\ \A k \in 1 .. Len(b) : text[k] = b[k]
             /\ \A k \in 1 .. Len(c) : text[Len(b) + k] = c[k]
             /\ \A k \in 1 .. Len(a) : text[Len(b) + Len(c) + k] = a[k]
<1> DEFINE own  == b \o c
           text == own \o a
<1>1. /\ own \in Seq(Char) /\ Len(own) = Len(b) + Len(c)
      /\ \A k \in 1 .. Len(b) : own[k] = b[k]
      /\ \A k \in 1 .. Len(c) : own[Len(b) + k] = c[k]
  BY JoinProperties
<1> HIDE DEF own
<1>2. own \in Seq(Char)
  BY <1>1
<1>3. /\ text \in Seq(Char) /\ Len(text) = Len(own) + Len(a)
      /\ \A k \in 1 .. Len(own) : text[k] = own[k]
      /\ \A k \in 1 .. Len(a) : text[Len(own) + k] = a[k]
  BY <1>2, JoinProperties
<1> HIDE DEF text
<1>4. Len(b) \in Nat /\ Len(c) \in Nat /\ Len(a) \in Nat
  OBVIOUS
<1>5. \A k \in 1 .. Len(b) : text[k] = b[k]
  <2> TAKE k \in 1 .. Len(b)
  <2>1. k \in 1 .. Len(own)
    BY <1>1, <1>4
  <2> QED
    BY <1>1, <1>3, <2>1
<1>6. \A k \in 1 .. Len(c) : text[Len(b) + k] = c[k]
  <2> TAKE k \in 1 .. Len(c)
  <2>1. Len(b) + k \in 1 .. Len(own)
    BY <1>1, <1>4
  <2> QED
    BY <1>1, <1>3, <2>1
<1>7. \A k \in 1 .. Len(a) : text[Len(b) + Len(c) + k] = a[k]
  BY <1>1, <1>3
<1> QED
  BY <1>1, <1>3, <1>5, <1>6, <1>7 DEF text, own

\* A text is what stands in front of i, from i through n, and behind n.
LEMMA ThreeSlices ==
  ASSUME NEW s \in Seq(Char), NEW i \in 1 .. Len(s), NEW n \in i .. Len(s)
  PROVE  LET a   == SubSeq(s, 1, i - 1)
             own == SubSeq(s, i, n)
             b   == SubSeq(s, n + 1, Len(s))
         IN  /\ a \in Seq(Char) /\ own \in Seq(Char) /\ b \in Seq(Char)
             /\ s = a \o own \o b
             /\ Len(own) = (n - i) + 1
             /\ \A k \in 1 .. Len(own) : own[k] = s[i + k - 1]
<1> DEFINE a   == SubSeq(s, 1, i - 1)
           own == SubSeq(s, i, n)
           b   == SubSeq(s, n + 1, Len(s))
           all == a \o own \o b
<1>1. /\ a \in Seq(Char) /\ Len(a) = i - 1
      /\ \A k \in 1 .. Len(a) : a[k] = s[k]
  <2>1. 1 \in 1 .. Len(s) + 1 /\ i - 1 \in 1 - 1 .. Len(s) /\ (i - 1) - 1 + 1 = i - 1
    OBVIOUS
  <2>2. \A k \in 1 .. i - 1 : 1 + k - 1 = k
    OBVIOUS
  <2> QED
    BY <2>1, <2>2, PartProperties
<1>2. /\ own \in Seq(Char) /\ Len(own) = (n - i) + 1
      /\ \A k \in 1 .. Len(own) : own[k] = s[i + k - 1]
  <2>1. i \in 1 .. Len(s) + 1 /\ n \in i - 1 .. Len(s) /\ n - i + 1 = (n - i) + 1
    OBVIOUS
  <2> QED
    BY <2>1, PartProperties
<1>3. /\ b \in Seq(Char) /\ Len(b) = Len(s) - n
      /\ \A k \in 1 .. Len(b) : b[k] = s[n + k]
  <2>1. n \in 0 .. Len(s)
    OBVIOUS
  <2> QED
    BY <2>1, RestProperties
<1> HIDE DEF a, own, b
<1>4. /\ all \in Seq(Char)
      /\ Len(all) = Len(a) + Len(own) + Len(b)
      /\ \A k \in 1 .. Len(a) : all[k] = a[k]
      /\ \A k \in 1 .. Len(own) : all[Len(a) + k] = own[k]
      /\ \A k \in 1 .. Len(b) : all[Len(a) + Len(own) + k] = b[k]
  BY <1>1, <1>2, <1>3, ThreeParts
<1> HIDE DEF all
<1>5. i \in Nat /\ n \in Nat /\ Len(s) \in Nat /\ 1 <= i /\ i <= n /\ n <= Len(s)
  OBVIOUS
<1>6. Len(all) = Len(s)
  BY <1>1, <1>2, <1>3, <1>4, <1>5
<1>7. ASSUME NEW k \in 1 .. Len(s)
      PROVE  all[k] = s[k]
  <2>1. CASE k < i
    <3>1. k \in 1 .. Len(a)
      BY <1>1, <2>1
    <3> QED
      BY <1>1, <1>4, <3>1
  <2>2. CASE i <= k /\ k <= n
    <3> DEFINE j == k - (i - 1)
    <3>1. j \in 1 .. Len(own) /\ Len(a) + j = k /\ i + j - 1 = k
      BY <1>1, <1>2, <1>5, <2>2
    <3> HIDE DEF j
    <3>2. all[Len(a) + j] = own[j]
      BY <1>4, <3>1
    <3>3. own[j] = s[i + j - 1]
      BY <1>2, <3>1
    <3> QED
      BY <3>1, <3>2, <3>3
  <2>3. CASE n < k
    <3> DEFINE j == k - n
    <3>1. j \in 1 .. Len(b) /\ Len(a) + Len(own) + j = k /\ n + j = k
      BY <1>1, <1>2, <1>3, <1>5, <2>3
    <3> HIDE DEF j
    <3>2. all[Len(a) + Len(own) + j] = b[j]
      BY <1>4, <3>1
    <3>3. b[j] = s[n + j]
      BY <1>3, <3>1
    <3> QED
      BY <3>1, <3>2, <3>3
  <2> QED
    BY <1>5, <2>1, <2>2, <2>3
<1>8. s = all
  BY <1>4, <1>6, <1>7, SeqEqual
<1> QED
  BY <1>1, <1>2, <1>3, <1>8 DEF all, a, own, b

-----------------------------------------------------------------------------
(* Byte lengths. *)

\* A character takes one to four bytes.
LEMMA LenUtf8Range ==
  ASSUME NEW c
  PROVE  LenUtf8(c) \in 1 .. 4
BY DEF LenUtf8

\* The defining equation of PrefixLen.
LEMMA PrefixLenDef ==
  ASSUME NEW s, Len(s) \in Nat
  PROVE  PrefixLen(s) = [i \in 0 .. Len(s) |->
           IF i = 0 THEN 0 ELSE PrefixLen(s)[i - 1] + LenUtf8(s[i])]
<1> DEFINE Sums(m) == {f \in [0 .. m -> Int] :
                         f = [i \in 0 .. m |->
                                IF i = 0 THEN 0 ELSE f[i - 1] + LenUtf8(s[i])]}
           D == {m \in Nat : Sums(m) # {}}
<1>1. 0 \in D
  <2>1. [i \in 0 .. 0 |-> 0] \in Sums(0)
    OBVIOUS
  <2> QED
    BY <2>1
<1>2. \A m \in D : m + 1 \in D
  <2> SUFFICES ASSUME NEW m \in D
               PROVE  m + 1 \in D
    OBVIOUS
  <2>1. PICK f \in [0 .. m -> Int] :
          f = [i \in 0 .. m |-> IF i = 0 THEN 0 ELSE f[i - 1] + LenUtf8(s[i])]
    OBVIOUS
  <2> DEFINE g == [i \in 0 .. m + 1 |->
                     IF i = m + 1 THEN f[m] + LenUtf8(s[m + 1]) ELSE f[i]]
  <2>2. g \in [0 .. m + 1 -> Int]
    BY <2>1, LenUtf8Range
  <2>3. \A i \in 0 .. m + 1 :
          g[i] = IF i = 0 THEN 0 ELSE g[i - 1] + LenUtf8(s[i])
    BY <2>1
  <2>4. g = [i \in 0 .. m + 1 |-> IF i = 0 THEN 0 ELSE g[i - 1] + LenUtf8(s[i])]
    BY <2>3
  <2>5. Sums(m + 1) # {}
    <3> HIDE DEF g
    <3> QED
      BY <2>2, <2>4
  <2> QED
    <3> HIDE DEF Sums
    <3> QED
      BY <2>5
<1>3. D = Nat
  <2> HIDE DEF D
  <2> QED
    BY <1>1, <1>2, NatSetInduction DEF D
<1>4. \E f : f = [i \in 0 .. Len(s) |->
                    IF i = 0 THEN 0 ELSE f[i - 1] + LenUtf8(s[i])]
  BY <1>3
<1> QED
  BY <1>4 DEF PrefixLen

\* A prefix of i characters takes between i and 4i bytes.
LEMMA PrefixLenRange ==
  ASSUME NEW s, Len(s) \in Nat
  PROVE  \A i \in 0 .. Len(s) :
           PrefixLen(s)[i] \in Nat /\ i <= PrefixLen(s)[i] /\ PrefixLen(s)[i] <= 4 * i
<1> DEFINE D == {n \in Nat : n <= Len(s) =>
                   /\ PrefixLen(s)[n] \in Nat
                   /\ n <= PrefixLen(s)[n]
                   /\ PrefixLen(s)[n] <= 4 * n}
<1>1. 0 \in D
  BY PrefixLenDef
<1>2. ASSUME NEW n \in D
      PROVE  n + 1 \in D
  <2>1. n + 1 <= Len(s) =>
          PrefixLen(s)[n + 1] = PrefixLen(s)[n] + LenUtf8(s[n + 1])
    BY PrefixLenDef
  <2>2. LenUtf8(s[n + 1]) \in 1 .. 4
    BY LenUtf8Range
  <2> QED
    BY <2>1, <2>2
<1>3. D = Nat
  <2> HIDE DEF D
  <2> QED
    BY <1>1, <1>2, NatSetInduction DEF D
<1> QED
  BY <1>3

\* The offset of a character does not depend on what follows it.
LEMMA OffsetIsPrefixLen ==
  ASSUME NEW S, NEW s \in Seq(S), NEW i \in 0 .. Len(s)
  PROVE  Offset(s, i) = PrefixLen(s)[i]
<1> DEFINE t == SubSeq(s, 1, i)
           D == {n \in Nat : n <= i => PrefixLen(t)[n] = PrefixLen(s)[n]}
<1>1. /\ Len(t) = i
      /\ \A k \in 1 .. i : t[k] = s[k]
  OBVIOUS
<1> HIDE DEF t
<1>2. 0 \in D
  BY <1>1, PrefixLenDef
<1>3. ASSUME NEW n \in D
      PROVE  n + 1 \in D
  <2>1. CASE n + 1 <= i
    <3>1. PrefixLen(t)[n + 1] = PrefixLen(t)[n] + LenUtf8(t[n + 1])
      BY <1>1, <2>1, PrefixLenDef
    <3>2. PrefixLen(s)[n + 1] = PrefixLen(s)[n] + LenUtf8(s[n + 1])
      BY <2>1, PrefixLenDef
    <3>3. t[n + 1] = s[n + 1]
      BY <1>1, <2>1
    <3> QED
      BY <2>1, <3>1, <3>2, <3>3
  <2> QED
    BY <2>1
<1>4. D = Nat
  <2> HIDE DEF D
  <2> QED
    BY <1>2, <1>3, NatSetInduction DEF D
<1>5. PrefixLen(t)[i] = PrefixLen(s)[i]
  BY <1>4
<1>6. Offset(s, i) = PrefixLen(t)[Len(t)]
  BY DEF Offset, ByteLen, t
<1> QED
  BY <1>1, <1>5, <1>6

\* The first character starts at byte 0, and the last ends at the byte length.
LEMMA OffsetEnds ==
  ASSUME NEW S, NEW s \in Seq(S)
  PROVE  Offset(s, 0) = 0 /\ Offset(s, Len(s)) = ByteLen(s)
BY OffsetIsPrefixLen, PrefixLenDef DEF ByteLen

\* A byte length is a natural number.
LEMMA ByteLenNat ==
  ASSUME NEW S, NEW s \in Seq(S)
  PROVE  ByteLen(s) \in Nat
BY PrefixLenRange DEF ByteLen

\* Each character starts further on than the one before it.
LEMMA OffsetIncreasing ==
  ASSUME NEW S, NEW s \in Seq(S),
         NEW i \in 0 .. Len(s), NEW j \in 0 .. Len(s), i < j
  PROVE  Offset(s, i) < Offset(s, j)
<1> DEFINE P == PrefixLen(s)
           D == {n \in Nat : i + n + 1 <= Len(s) => P[i] < P[i + n + 1]}
<1>1. \A k \in 1 .. Len(s) : P[k - 1] \in Nat /\ P[k - 1] < P[k]
  <2> TAKE k \in 1 .. Len(s)
  <2>1. P[k] = P[k - 1] + LenUtf8(s[k])
    BY PrefixLenDef
  <2>2. P[k - 1] \in Nat
    BY PrefixLenRange
  <2> QED
    BY <2>1, <2>2, LenUtf8Range
<1>2. \A k \in 0 .. Len(s) : P[k] \in Nat
  BY PrefixLenRange
<1> HIDE DEF P
<1>3. 0 \in D
  BY <1>1
<1>4. ASSUME NEW n \in D
      PROVE  n + 1 \in D
  <2>1. CASE i + n + 2 <= Len(s)
    <3>1. P[i] < P[i + n + 1] /\ P[i + n + 1] < P[i + n + 2]
      BY <1>1, <2>1
    <3> QED
      BY <1>2, <2>1, <3>1
  <2> QED
    BY <2>1
<1>5. D = Nat
  <2> HIDE DEF D
  <2> QED
    BY <1>3, <1>4, NatSetInduction DEF D
<1>6. PICK n \in D : i + n + 1 = j
  <2>1. j - i - 1 \in Nat /\ i + (j - i - 1) + 1 = j
    OBVIOUS
  <2> QED
    BY <1>5, <2>1
<1>7. P[i] < P[j]
  BY <1>6
<1>8. Offset(s, i) = P[i] /\ Offset(s, j) = P[j]
  BY OffsetIsPrefixLen DEF P
<1> QED
  BY <1>7, <1>8

\* An offset is the boundary of exactly one prefix: is_char_boundary holds of
\* it, and slicing at it finds that prefix again.
LEMMA CharsBeforeOffset ==
  ASSUME NEW S, NEW s \in Seq(S), NEW i \in 0 .. Len(s)
  PROVE  IsCharBoundary(s, Offset(s, i)) /\ CharsBefore(s, Offset(s, i)) = i
<1> DEFINE b == Offset(s, i)
<1>1. i \in Prefixes(s, b)
  <2>1. i <= PrefixLen(s)[i] /\ PrefixLen(s)[i] <= 4 * i
    BY PrefixLenRange
  <2>2. b = PrefixLen(s)[i]
    BY OffsetIsPrefixLen
  <2> QED
    BY <2>1, <2>2 DEF Prefixes
<1>2. ASSUME NEW j \in Prefixes(s, b), Offset(s, j) = b
      PROVE  j = i
  <2>1. j \in 0 .. Len(s)
    BY DEF Prefixes
  <2>2. Offset(s, j) \in Nat /\ b \in Nat
    BY <2>1, OffsetIsPrefixLen, PrefixLenRange
  <2>3. ~(i < j) /\ ~(j < i)
    BY <1>2, <2>1, <2>2, OffsetIncreasing
  <2> QED
    BY <2>1, <2>3
<1> QED
  BY <1>1, <1>2 DEF IsCharBoundary, CharsBefore

\* Two prefixes of one byte length are the same prefix.
LEMMA OffsetInjective ==
  ASSUME NEW S, NEW s \in Seq(S), NEW i \in 0 .. Len(s), NEW j \in 0 .. Len(s),
         Offset(s, i) = Offset(s, j)
  PROVE  i = j
<1>1. CharsBefore(s, Offset(s, i)) = i /\ CharsBefore(s, Offset(s, j)) = j
  BY CharsBeforeOffset
<1> QED
  BY <1>1

\* A slice between the offsets of two characters is the part between them.
LEMMA SliceAtOffsets ==
  ASSUME NEW S, NEW s \in Seq(S), NEW i \in 0 .. Len(s), NEW j \in 0 .. Len(s)
  PROVE  Slice(s, Offset(s, i), Offset(s, j)) = SubSeq(s, i + 1, j)
<1>1. CharsBefore(s, Offset(s, i)) = i /\ CharsBefore(s, Offset(s, j)) = j
  BY CharsBeforeOffset
<1> QED
  BY <1>1 DEF Slice

\* A slice between two boundaries is a text.
LEMMA SliceTyped ==
  ASSUME NEW S, NEW s \in Seq(S), NEW from, NEW to,
         IsCharBoundary(s, from), IsCharBoundary(s, to)
  PROVE  Slice(s, from, to) \in Seq(S)
<1>1. PICK i \in 0 .. Len(s) : Offset(s, i) = from
  BY DEF IsCharBoundary, Prefixes
<1>2. PICK j \in 0 .. Len(s) : Offset(s, j) = to
  BY DEF IsCharBoundary, Prefixes
<1>3. Slice(s, from, to) = SubSeq(s, i + 1, j)
  BY <1>1, <1>2, SliceAtOffsets
<1>4. SubSeq(s, i + 1, j) \in Seq(S)
  BY ElementOfSeq, SubSeqProperties
<1> QED
  BY <1>3, <1>4

\* The defining equation, one character further.
LEMMA PrefixLenNext ==
  ASSUME NEW s, Len(s) \in Nat, NEW k \in Nat, k + 1 <= Len(s)
  PROVE  PrefixLen(s)[k + 1] = PrefixLen(s)[k] + LenUtf8(s[k + 1])
BY PrefixLenDef

\* The length of a text is the sum of the lengths of its parts.
LEMMA ByteLenConcat ==
  ASSUME NEW S, NEW s \in Seq(S), NEW t \in Seq(S)
  PROVE  ByteLen(s \o t) = ByteLen(s) + ByteLen(t)
<1> DEFINE u == s \o t
           D == {n \in Nat : n <= Len(t) =>
                   PrefixLen(u)[Len(s) + n] = ByteLen(s) + PrefixLen(t)[n]}
<1>1. /\ u \in Seq(S)
      /\ Len(u) = Len(s) + Len(t)
      /\ \A i \in 1 .. Len(s) : u[i] = s[i]
      /\ \A i \in 1 .. Len(t) : u[Len(s) + i] = t[i]
      /\ SubSeq(u, 1, Len(s)) = s
  OBVIOUS
<1> HIDE DEF u
<1>2. 0 \in D
  <2>1. PrefixLen(u)[Len(s)] = ByteLen(s)
    <3>1. Len(s) \in 0 .. Len(u)
      BY <1>1
    <3>2. Offset(u, Len(s)) = PrefixLen(u)[Len(s)]
      BY <1>1, <3>1, OffsetIsPrefixLen
    <3> QED
      BY <1>1, <3>2 DEF Offset
  <2>2. PrefixLen(t)[0] = 0
    BY PrefixLenDef
  <2>3. ByteLen(s) \in Nat
    BY ByteLenNat
  <2> QED
    BY <2>1, <2>2, <2>3
<1>3. ASSUME NEW n \in D
      PROVE  n + 1 \in D
  <2>1. CASE n + 1 <= Len(t)
    <3> DEFINE k == Len(s) + n
    <3>1. PrefixLen(u)[k + 1] = PrefixLen(u)[k] + LenUtf8(t[n + 1])
      <4>1. k \in Nat /\ k + 1 <= Len(u) /\ u[k + 1] = t[n + 1]
        BY <1>1, <2>1
      <4> HIDE DEF k
      <4>2. PrefixLen(u)[k + 1] = PrefixLen(u)[k] + LenUtf8(u[k + 1])
        BY <1>1, <4>1, PrefixLenNext
      <4> QED
        BY <4>1, <4>2
    <3>2. PrefixLen(t)[n + 1] = PrefixLen(t)[n] + LenUtf8(t[n + 1])
      BY <2>1, PrefixLenNext
    <3>3. /\ ByteLen(s) \in Nat
          /\ PrefixLen(t)[n] \in Nat
          /\ LenUtf8(t[n + 1]) \in Nat
      <4>1. ByteLen(s) \in Nat
        BY ByteLenNat
      <4>2. n \in 0 .. Len(t)
        BY <2>1
      <4>3. PrefixLen(t)[n] \in Nat
        BY <4>2, PrefixLenRange
      <4> QED
        BY <4>1, <4>3, LenUtf8Range
    <3>4. PrefixLen(u)[k] = ByteLen(s) + PrefixLen(t)[n]
      BY <2>1
    <3>5. PrefixLen(u)[k + 1] = ByteLen(s) + PrefixLen(t)[n + 1]
      BY <3>1, <3>2, <3>3, <3>4
    <3>6. k + 1 = Len(s) + (n + 1)
      OBVIOUS
    <3> QED
      BY <3>5, <3>6
  <2> QED
    BY <2>1
<1>4. D = Nat
  <2> HIDE DEF D
  <2> QED
    BY <1>2, <1>3, NatSetInduction DEF D
<1>5. PrefixLen(u)[Len(s) + Len(t)] = ByteLen(s) + PrefixLen(t)[Len(t)]
  BY <1>4
<1> QED
  BY <1>1, <1>5 DEF ByteLen, u

\* The byte length of a text of one character.
LEMMA ByteLenOne ==
  ASSUME NEW c
  PROVE  ByteLen(<<c>>) = LenUtf8(c)
<1>1. Len(<<c>>) = 1 /\ <<c>>[1] = c
  OBVIOUS
<1>2. PrefixLen(<<c>>)[0] = 0
  BY <1>1, PrefixLenDef
<1>3. PrefixLen(<<c>>)[0 + 1] = PrefixLen(<<c>>)[0] + LenUtf8(<<c>>[0 + 1])
  BY <1>1, PrefixLenNext
<1> QED
  BY <1>1, <1>2, <1>3, LenUtf8Range DEF ByteLen

\* The length of a prefix is that of its first i characters plus that of the
\* n characters behind them.
LEMMA PrefixLenRest ==
  ASSUME NEW S, NEW s \in Seq(S), NEW i \in 0 .. Len(s), NEW n \in 0 .. Len(s) - i
  PROVE  PrefixLen(s)[i + n]
           = PrefixLen(s)[i] + PrefixLen(SubSeq(s, i + 1, Len(s)))[n]
<1> DEFINE t == SubSeq(s, i + 1, Len(s))
           D == {k \in Nat : k <= Len(s) - i =>
                   PrefixLen(s)[i + k] = PrefixLen(s)[i] + PrefixLen(t)[k]}
<1>1. /\ t \in Seq(S)
      /\ Len(t) = Len(s) - i
      /\ \A k \in 1 .. Len(s) - i : t[k] = s[i + k]
  BY RestProperties
<1> HIDE DEF t
<1>2. Len(s) \in Nat /\ Len(t) \in Nat /\ i \in Nat
  BY <1>1
<1>3. 0 \in D
  <2>1. PrefixLen(t)[0] = 0
    BY <1>2, PrefixLenDef
  <2>2. PrefixLen(s)[i] \in Nat /\ i + 0 = i
    BY <1>2, PrefixLenRange
  <2> QED
    BY <2>1, <2>2
<1>4. ASSUME NEW k \in D
      PROVE  k + 1 \in D
  <2>1. CASE k + 1 <= Len(s) - i
    <3>1. PrefixLen(s)[(i + k) + 1] = PrefixLen(s)[i + k] + LenUtf8(s[(i + k) + 1])
      <4>1. i + k \in Nat /\ (i + k) + 1 <= Len(s)
        BY <1>2, <2>1
      <4> QED
        BY <1>2, <4>1, PrefixLenNext
    <3>2. PrefixLen(t)[k + 1] = PrefixLen(t)[k] + LenUtf8(t[k + 1])
      BY <1>1, <1>2, <2>1, PrefixLenNext
    <3>3. t[k + 1] = s[(i + k) + 1]
      <4>1. k + 1 \in 1 .. Len(s) - i /\ i + (k + 1) = (i + k) + 1
        BY <1>2, <2>1
      <4> QED
        BY <1>1, <4>1
    <3>4. PrefixLen(s)[i + k] = PrefixLen(s)[i] + PrefixLen(t)[k]
      BY <1>2, <2>1
    <3>5. /\ PrefixLen(s)[i] \in Nat
          /\ PrefixLen(t)[k] \in Nat
          /\ LenUtf8(s[(i + k) + 1]) \in Nat
      <4>1. k \in 0 .. Len(t) /\ i \in 0 .. Len(s)
        BY <1>1, <1>2, <2>1
      <4>2. PrefixLen(s)[i] \in Nat
        BY <1>2, <4>1, PrefixLenRange
      <4>3. PrefixLen(t)[k] \in Nat
        BY <1>2, <4>1, PrefixLenRange
      <4> QED
        BY <4>2, <4>3, LenUtf8Range
    <3>6. i + (k + 1) = (i + k) + 1
      BY <1>2
    <3>7. PrefixLen(s)[i + (k + 1)] = PrefixLen(s)[i] + PrefixLen(t)[k + 1]
      BY <3>1, <3>2, <3>3, <3>4, <3>5, <3>6
    <3> QED
      BY <3>7
  <2> QED
    BY <2>1
<1>5. D = Nat
  <2> HIDE DEF D
  <2> QED
    BY <1>3, <1>4, NatSetInduction DEF D
<1>6. n \in D
  <2> HIDE DEF D
  <2> QED
    BY <1>5
<1> QED
  BY <1>6 DEF t

-----------------------------------------------------------------------------
(* The codec. *)

\* The two blocks are disjoint, so the order of the arms does not matter.
LEMMA VsToByteArms ==
  ASSUME NEW c
  PROVE  /\ c \in VS_START .. VS_END => VsToByte(c) = c - VS_START
         /\ c \in VS_SUP_START .. VS_SUP_END => VsToByte(c) = c - VS_SUP_START + \h10
         /\ c \notin VS_START .. VS_END /\ c \notin VS_SUP_START .. VS_SUP_END
              => VsToByte(c) = NoByte
<1>1. ~(c \in VS_START .. VS_END /\ c \in VS_SUP_START .. VS_SUP_END)
  BY DEF VS_START, VS_END, VS_SUP_START, VS_SUP_END
<1>2. CASE c \in VS_START .. VS_END
  BY <1>1, <1>2 DEF VsToByte
<1>3. CASE c \in VS_SUP_START .. VS_SUP_END
  BY <1>1, <1>3 DEF VsToByte
<1>4. CASE c \notin VS_START .. VS_END /\ c \notin VS_SUP_START .. VS_SUP_END
  BY <1>4 DEF VsToByte
<1> QED
  BY <1>1, <1>2, <1>3, <1>4

\* Every byte has a selector, and vs_to_byte inverts byte_to_vs on it.
LEMMA ByteRoundTrip ==
  ASSUME NEW b \in Byte
  PROVE  /\ ByteToVs(b) \in Char
         /\ IsVs(ByteToVs(b))
         /\ VsToByte(ByteToVs(b)) = b
<1>1. CASE b <= \h0F
  <2>1. ByteToVs(b) = VS_START + b /\ ByteToVs(b) \in VS_START .. VS_END
    BY <1>1 DEF Byte, ByteToVs, VS_START, VS_END
  <2>2. VsToByte(ByteToVs(b)) = b
    BY <2>1, VsToByteArms DEF Byte, VS_START
  <2>3. VS_START \in Nat /\ VS_END \in Nat /\ VS_END <= CHAR_MAX /\ CHAR_MAX \in Nat
    BY DEF VS_START, VS_END, CHAR_MAX
  <2>4. ByteToVs(b) \in Char
    BY <2>1, <2>3 DEF Char
  <2> QED
    BY <2>2, <2>4 DEF Byte, IsVs, NoByte
<1>2. CASE b > \h0F
  <2>1. /\ ByteToVs(b) = VS_SUP_START + (b - \h10)
        /\ ByteToVs(b) \in VS_SUP_START .. VS_SUP_END
    BY <1>2 DEF Byte, ByteToVs, VS_SUP_START, VS_SUP_END
  <2>2. VsToByte(ByteToVs(b)) = b
    BY <2>1, VsToByteArms DEF Byte, VS_SUP_START
  <2>3. /\ VS_SUP_START \in Nat /\ VS_SUP_END \in Nat
        /\ VS_SUP_END <= CHAR_MAX /\ CHAR_MAX \in Nat
    BY DEF VS_SUP_START, VS_SUP_END, CHAR_MAX
  <2>4. ByteToVs(b) \in Char
    BY <2>1, <2>3 DEF Char
  <2> QED
    BY <2>2, <2>4 DEF Byte, IsVs, NoByte
<1> QED
  BY <1>1, <1>2 DEF Byte

\* Every selector has a byte, and byte_to_vs inverts vs_to_byte on it: no two
\* selectors stand for one byte.
LEMMA SelectorRoundTrip ==
  ASSUME NEW c, IsVs(c)
  PROVE  VsToByte(c) \in Byte /\ ByteToVs(VsToByte(c)) = c
<1>1. CASE c \in VS_START .. VS_END
  <2>1. VsToByte(c) = c - VS_START
    BY <1>1, VsToByteArms
  <2> QED
    BY <1>1, <2>1 DEF Byte, ByteToVs, VS_START, VS_END
<1>2. CASE c \in VS_SUP_START .. VS_SUP_END
  <2>1. VsToByte(c) = c - VS_SUP_START + \h10
    BY <1>2, VsToByteArms
  <2> QED
    BY <1>2, <2>1 DEF Byte, ByteToVs, VS_SUP_START, VS_SUP_END
<1> QED
  BY <1>1, <1>2, VsToByteArms DEF IsVs

\* encode_run makes one character of every byte.
LEMMA EncodeRunProperties ==
  ASSUME NEW bytes \in Seq(Byte)
  PROVE  /\ EncodeRun(bytes) \in Seq(Char)
         /\ Len(EncodeRun(bytes)) = Len(bytes)
         /\ \A i \in 1 .. Len(bytes) : /\ EncodeRun(bytes)[i] = ByteToVs(bytes[i])
                                       /\ IsVs(EncodeRun(bytes)[i])
                                       /\ VsToByte(EncodeRun(bytes)[i]) = bytes[i]
<1>1. \A i \in 1 .. Len(bytes) : bytes[i] \in Byte
  OBVIOUS
<1> QED
  BY <1>1, ByteRoundTrip DEF EncodeRun

\* decode_run always stops: at the first character that is not a selector, or
\* at the end.
LEMMA RunLenDef ==
  ASSUME NEW S, NEW s \in Seq(S)
  PROVE  /\ RunLen(s) \in 0 .. Len(s)
         /\ \A i \in 1 .. RunLen(s) : IsVs(s[i])
         /\ RunLen(s) < Len(s) => ~IsVs(s[RunLen(s) + 1])
<1> DEFINE Stops(n) == /\ n < Len(s) => ~IsVs(s[n + 1])
                       /\ \A i \in 1 .. n : IsVs(s[i])
           D == {n \in Nat : n <= Len(s) => \A i \in 1 .. n : IsVs(s[i])}
<1>1. \E n \in 0 .. Len(s) : Stops(n)
  <2>1. SUFFICES ASSUME \A n \in 0 .. Len(s) : ~Stops(n)
                 PROVE  FALSE
    OBVIOUS
  <2>2. 0 \in D
    OBVIOUS
  <2>3. ASSUME NEW n \in D
        PROVE  n + 1 \in D
    <3>1. CASE n + 1 <= Len(s)
      <4>1. \A i \in 1 .. n : IsVs(s[i])
        BY <3>1
      <4>2. n < Len(s) /\ n \in 0 .. Len(s)
        BY <3>1
      <4>3. IsVs(s[n + 1])
        BY <2>1, <4>1, <4>2
      <4>4. \A i \in 1 .. n + 1 : IsVs(s[i])
        BY <4>1, <4>3
      <4> QED
        BY <4>4
    <3> QED
      BY <3>1
  <2>4. D = Nat
    <3> HIDE DEF D
    <3> QED
      BY <2>2, <2>3, NatSetInduction DEF D
  <2>5. Stops(Len(s))
    BY <2>4
  <2> QED
    BY <2>1, <2>5
<1>2. RunLen(s) = CHOOSE n \in 0 .. Len(s) : Stops(n)
  BY DEF RunLen
<1>3. RunLen(s) \in 0 .. Len(s) /\ Stops(RunLen(s))
  <2> HIDE DEF Stops
  <2> QED
    BY <1>1, <1>2
<1> QED
  BY <1>3

\* decode_run reads through every selector it is given.
LEMMA RunLenAtLeast ==
  ASSUME NEW S, NEW s \in Seq(S), NEW n \in 0 .. Len(s),
         \A i \in 1 .. n : IsVs(s[i])
  PROVE  n <= RunLen(s)
BY RunLenDef

\* The bytes decode_run returns are those of the selectors it consumed, and it
\* consumed a prefix.
LEMMA DecodeRunProperties ==
  ASSUME NEW S, NEW s \in Seq(S)
  PROVE  /\ DecodeRun(s).bytes \in Seq(Byte)
         /\ Len(DecodeRun(s).bytes) = RunLen(s)
         /\ \A i \in 1 .. RunLen(s) : DecodeRun(s).bytes[i] = VsToByte(s[i])
         /\ DecodeRun(s).consumed = Offset(s, RunLen(s))
<1> DEFINE selectors == SubSeq(s, 1, RunLen(s))
<1>1. /\ RunLen(s) \in 0 .. Len(s)
      /\ \A i \in 1 .. RunLen(s) : IsVs(s[i])
  BY RunLenDef
<1>2. /\ Len(selectors) = RunLen(s)
      /\ \A i \in 1 .. RunLen(s) : selectors[i] = s[i]
  BY <1>1
<1>3. DecodeRun(s).bytes = DecodeBytes(selectors)
  BY DEF DecodeRun
<1>4. DecodeRun(s).consumed = Offset(s, RunLen(s))
  BY DEF DecodeRun, Offset
<1> HIDE DEF selectors
<1>5. DecodeBytes(selectors) = [i \in 1 .. RunLen(s) |-> VsToByte(s[i])]
  BY <1>2 DEF DecodeBytes
<1>6. \A i \in 1 .. RunLen(s) : VsToByte(s[i]) \in Byte
  BY <1>1, SelectorRoundTrip
<1> QED
  BY <1>1, <1>3, <1>4, <1>5, <1>6

\* decode_run inverts encode_run for every byte string, also when the host text
\* goes on behind the run, and stops at the byte where the run ends.
THEOREM RunRoundTrip ==
  ASSUME NEW bytes \in Seq(Byte), NEW rest \in Seq(Char),
         rest # <<>> => ~IsVs(rest[1])
  PROVE  LET s == EncodeRun(bytes) \o rest
         IN  DecodeRun(s) = [bytes    |-> bytes,
                             consumed |-> Offset(s, Len(bytes))]
<1> DEFINE s == EncodeRun(bytes) \o rest
<1>1. /\ s \in Seq(Char)
      /\ Len(s) = Len(bytes) + Len(rest)
      /\ \A i \in 1 .. Len(bytes) : IsVs(s[i]) /\ VsToByte(s[i]) = bytes[i]
      /\ rest # <<>> => ~IsVs(s[Len(bytes) + 1])
  BY EncodeRunProperties
<1> HIDE DEF s
<1>2. RunLen(s) = Len(bytes)
  <2>1. Len(bytes) <= RunLen(s)
    <3>1. Len(bytes) \in 0 .. Len(s)
      BY <1>1
    <3>2. \A i \in 1 .. Len(bytes) : IsVs(s[i])
      BY <1>1
    <3> QED
      BY <1>1, <3>1, <3>2, RunLenAtLeast
  <2>2. CASE rest = <<>>
    BY <1>1, <2>1, <2>2, RunLenDef
  <2>3. CASE rest # <<>>
    BY <1>1, <2>1, <2>3, RunLenDef
  <2> QED
    BY <2>2, <2>3
<1>3. DecodeRun(s).bytes = bytes
  <2>1. /\ DecodeRun(s).bytes \in Seq(Byte)
        /\ Len(DecodeRun(s).bytes) = Len(bytes)
        /\ \A i \in 1 .. Len(bytes) : DecodeRun(s).bytes[i] = VsToByte(s[i])
    BY <1>1, <1>2, DecodeRunProperties
  <2>2. \A i \in 1 .. Len(bytes) : DecodeRun(s).bytes[i] = bytes[i]
    BY <1>1, <2>1
  <2> QED
    BY <2>1, <2>2, SeqEqual
<1>4. DecodeRun(s).consumed = Offset(s, Len(bytes))
  BY <1>1, <1>2, DecodeRunProperties
<1>5. DecodeRun(s) = [bytes    |-> DecodeRun(s).bytes,
                      consumed |-> DecodeRun(s).consumed]
  BY DEF DecodeRun
<1> QED
  BY <1>3, <1>4, <1>5 DEF s
=============================================================================
