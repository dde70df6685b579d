------------------------- MODULE HardBindingProofs -------------------------
(***************************************************************************)
(* Theorems about the operators of src/hardbinding.rs, for every text,     *)
(* list of ranges, digest, normaliser and width of usize: what applying    *)
(* exclusions keeps, in which order verify_data_hash refuses, and that it  *)
(* accepts exactly the assertions that exclude one located wrapper of a    *)
(* text without corrupted candidates and whose hash is that of the rest.   *)
(***************************************************************************)
EXTENDS HardBinding, WrapperProofs

-----------------------------------------------------------------------------
(* Pieces of a text *)

\* The characters in front of a boundary end at it.
LEMMA PositionOf ==
  ASSUME NEW s \in Seq(Char), NEW b, IsCharBoundary(s, b)
  PROVE  CharsBefore(s, b) \in 0 .. Len(s) /\ Offset(s, CharsBefore(s, b)) = b
<1>1. PICK i \in 0 .. Len(s) : Offset(s, i) = b
  BY DEF IsCharBoundary, Prefixes
<1> QED
  BY <1>1, CharsBeforeOffset

\* Boundaries are in the order of the characters between them.
LEMMA PositionsInOrder ==
  ASSUME NEW s \in Seq(Char), NEW i \in 0 .. Len(s), NEW j \in 0 .. Len(s)
  PROVE  /\ Offset(s, i) \in Nat
         /\ Offset(s, i) <= Offset(s, j) <=> i <= j
<1>1. Offset(s, i) \in Nat /\ Offset(s, j) \in Nat
  BY OffsetIsPrefixLen, PrefixLenRange
<1>2. /\ i < j => Offset(s, i) < Offset(s, j)
      /\ j < i => Offset(s, j) < Offset(s, i)
  BY OffsetIncreasing
<1> QED
  BY <1>1, <1>2

\* A piece of a text is as long as its ends are apart.
LEMMA SliceLength ==
  ASSUME NEW s \in Seq(Char), NEW from \in Nat, NEW to \in Nat, from <= to,
         IsCharBoundary(s, from), IsCharBoundary(s, to)
  PROVE  /\ Slice(s, from, to) \in Seq(Char)
         /\ ByteLen(Slice(s, from, to)) = to - from
<1>1. PICK i \in 0 .. Len(s), j \in 0 .. Len(s) : Offset(s, i) = from /\ Offset(s, j) = to
  BY DEF IsCharBoundary, Prefixes
<1>2. i <= j
  <2>1. ~(j < i)
    BY <1>1, OffsetIncreasing
  <2> QED
    BY <2>1
<1>3. Slice(s, from, to) = SubSeq(s, i + 1, j)
  BY <1>1, SliceAtOffsets
<1> DEFINE x == SubSeq(s, 1, i)
           y == SubSeq(s, i + 1, j)
<1>4. x \in Seq(Char) /\ y \in Seq(Char) /\ x \o y = SubSeq(s, 1, j)
  <2>1. Len(s) \in Nat
    OBVIOUS
  <2>2. x \in Seq(Char) /\ Len(x) = i /\ \A k \in 1 .. i : x[k] = s[k]
    BY <2>1
  <2>3. y \in Seq(Char) /\ Len(y) = j - i /\ \A k \in 1 .. j - i : y[k] = s[i + k]
    BY <1>2, <2>1
  <2>4. /\ SubSeq(s, 1, j) \in Seq(Char) /\ Len(SubSeq(s, 1, j)) = j
        /\ \A k \in 1 .. j : SubSeq(s, 1, j)[k] = s[k]
    BY <2>1
  <2> HIDE DEF x, y
  <2>5. /\ x \o y \in Seq(Char) /\ Len(x \o y) = j
        /\ \A k \in 1 .. i : (x \o y)[k] = x[k]
        /\ \A k \in 1 .. j - i : (x \o y)[i + k] = y[k]
    <3>1. /\ x \o y \in Seq(Char) /\ Len(x \o y) = Len(x) + Len(y)
          /\ \A k \in 1 .. Len(x) : (x \o y)[k] = x[k]
          /\ \A k \in 1 .. Len(y) : (x \o y)[Len(x) + k] = y[k]
      BY <2>2, <2>3, ConcatTexts
    <3>2. i + (j - i) = j
      OBVIOUS
    <3> QED
      BY <2>2, <2>3, <3>1, <3>2
  <2>6. ASSUME NEW k \in 1 .. j
        PROVE  (x \o y)[k] = SubSeq(s, 1, j)[k]
    <3>1. CASE k \in 1 .. i
      BY <2>2, <2>4, <2>5, <3>1
    <3>2. CASE k - i \in 1 .. j - i
      <4>1. i + (k - i) = k
        OBVIOUS
      <4> QED
        BY <2>3, <2>4, <2>5, <3>2, <4>1
    <3>3. k \in 1 .. i \/ k - i \in 1 .. j - i
      BY <1>2
    <3> QED
      BY <3>1, <3>2, <3>3
  <2> DEFINE u == x \o y
             v == SubSeq(s, 1, j)
  <2>7. u \in Seq(Char) /\ v \in Seq(Char) /\ Len(u) = Len(v)
        /\ \A k \in 1 .. Len(v) : u[k] = v[k]
    BY <2>4, <2>5, <2>6
  <2>8. u = v
    <3> HIDE DEF u, v
    <3> QED
      BY <2>7
  <2> QED
    BY <2>2, <2>3, <2>8
<1>5. ByteLen(x) = from /\ ByteLen(x \o y) = to
  BY <1>1, <1>4 DEF Offset
<1>6. ByteLen(y) \in Nat /\ ByteLen(x \o y) = ByteLen(x) + ByteLen(y)
  BY <1>4, ByteLenConcat, ByteLenNat
<1> HIDE DEF x
<1> QED
  BY <1>3, <1>4, <1>5, <1>6

-----------------------------------------------------------------------------
(* What applying exclusions keeps *)

\* The defining equation of KeptBefore.
LEMMA KeptBeforeDef ==
  ASSUME NEW s, NEW l, Len(l) \in Nat
  PROVE  KeptBefore(s, l) = [k \in 0 .. Len(l) |->
           IF k = 0 THEN <<>>
           ELSE KeptBefore(s, l)[k - 1] \o Slice(s, Cursor(l, k), l[k].start)]
<1> DEFINE piece(k) == Slice(s, Cursor(l, k), l[k].start)
           Is(f, m) == f = [k \in 0 .. m |->
                              IF k = 0 THEN <<>> ELSE f[k - 1] \o piece(k)]
           D == {m \in Nat : \E f : Is(f, m)}
<1> HIDE DEF piece
<1>1. 0 \in D
  <2>1. Is([k \in 0 .. 0 |-> <<>>], 0)
    OBVIOUS
  <2> QED
    BY <2>1
<1>2. ASSUME NEW m \in D
      PROVE  m + 1 \in D
  <2>1. m \in Nat /\ \E f : Is(f, m)
    OBVIOUS
  <2>2. PICK f : Is(f, m)
    BY <2>1
  <2> DEFINE g == [k \in 0 .. m + 1 |->
                     IF k = m + 1 THEN f[m] \o piece(m + 1) ELSE f[k]]
  <2>3. ASSUME NEW k \in 0 .. m + 1
        PROVE  g[k] = IF k = 0 THEN <<>> ELSE g[k - 1] \o piece(k)
    <3>1. CASE k = 0
      BY <2>1, <2>2, <3>1
    <3>2. CASE k = m + 1
      <4>1. m \in 0 .. m + 1 /\ m # m + 1 /\ k - 1 = m /\ k # 0
        BY <2>1, <3>2
      <4> QED
        BY <3>2, <4>1
    <3>3. CASE k \in 1 .. m
      <4>1. /\ k \in 0 .. m /\ k - 1 \in 0 .. m + 1 /\ k # 0
            /\ k # m + 1 /\ k - 1 # m + 1
        BY <2>1, <3>3
      <4>2. g[k] = f[k] /\ g[k - 1] = f[k - 1]
        BY <4>1
      <4>3. f[k] = f[k - 1] \o piece(k)
        BY <2>2, <4>1
      <4> QED
        BY <4>1, <4>2, <4>3
    <3> QED
      BY <2>1, <3>1, <3>2, <3>3
  <2>4. Is(g, m + 1)
    BY <2>3
  <2> QED
    <3> HIDE DEF g, Is
    <3> QED
      BY <2>1, <2>4
<1>3. D = Nat
  <2>1. D \subseteq Nat /\ \A n \in D : n + 1 \in D
    BY <1>2
  <2> HIDE DEF D
  <2> QED
    BY <1>1, <2>1, NatSetInduction
<1>4. \E f : Is(f, Len(l))
  BY <1>3
<1> QED
  BY <1>4 DEF KeptBefore, piece

\* A position between the first and the last exclusion is where a character
\* begins or ends.
LEMMA CursorBoundary ==
  ASSUME NEW s \in Seq(Char), NEW l \in Seq(Exclusions),
         NEW n \in 1 .. Len(l) + 1,
         \A k \in 1 .. n - 1 : GoodExclusion(s, l, k)
  PROVE  /\ IsCharBoundary(s, Cursor(l, n))
         /\ Cursor(l, n) \in 0 .. ByteLen(s)
<1>1. ByteLen(s) \in Nat /\ 0 \in 0 .. Len(s)
  BY ByteLenNat
<1>2. CASE n = 1
  BY <1>1, <1>2, CharsBeforeOffset, OffsetEnds DEF Cursor
<1>3. CASE n # 1
  <2>1. n - 1 \in 1 .. Len(l) /\ n - 1 \in 1 .. n - 1 /\ l[n - 1] \in Exclusions
    BY <1>3
  <2>2. Cursor(l, n) = EndOf(l[n - 1]) /\ GoodExclusion(s, l, n - 1)
    BY <1>3, <2>1 DEF Cursor
  <2>3. EndOf(l[n - 1]) \in Nat
    BY <2>1, WidthAssumption DEF EndOf, Exclusions
  <2> QED
    BY <1>1, <2>2, <2>3 DEF GoodExclusion
<1> QED
  BY <1>2, <1>3

\* Nothing is kept before the first exclusion, and each adds the slice in front
\* of it.
LEMMA KeptSteps ==
  ASSUME NEW s, NEW l, Len(l) \in Nat
  PROVE  /\ KeptBefore(s, l)[0] = <<>>
         /\ \A k \in 1 .. Len(l) :
              KeptBefore(s, l)[k]
                = KeptBefore(s, l)[k - 1] \o Slice(s, Cursor(l, k), l[k].start)
<1> DEFINE piece(k) == Slice(s, Cursor(l, k), l[k].start)
           f == KeptBefore(s, l)
<1>1. f = [k \in 0 .. Len(l) |-> IF k = 0 THEN <<>> ELSE f[k - 1] \o piece(k)]
  BY KeptBeforeDef
<1> SUFFICES /\ f[0] = <<>>
             /\ \A k \in 1 .. Len(l) : f[k] = f[k - 1] \o piece(k)
  OBVIOUS
<1> HIDE DEF f, piece
<1>2. f[0] = <<>>
  BY <1>1
<1>3. ASSUME NEW k \in 1 .. Len(l)
      PROVE  f[k] = f[k - 1] \o piece(k)
  <2>1. k \in 0 .. Len(l) /\ k # 0
    OBVIOUS
  <2> QED
    BY <1>1, <2>1
<1> QED
  BY <1>2, <1>3

-----------------------------------------------------------------------------
(* What the calls answer *)

\* Algorithm::from_id answers with the identifier it was given.
LEMMA FromIdOk ==
  ASSUME NEW id
  PROVE  IsOk(FromId(id)) => FromId(id) = Ok(id) /\ FromId(id).ok = id /\ id \in AlgorithmIds
BY OkOrErr DEF FromId

\* apply_exclusions fails on the first bad range, and otherwise keeps what lies
\* between the ranges and behind the last.
LEMMA Applied ==
  ASSUME NEW s, NEW l, Len(l) \in Nat
  PROVE  /\ \A k \in 1 .. Len(l) : ~GoodExclusion(s, l, k) =>
              ApplyExclusions(s, l) = Err("MalformedExclusion")
         /\ (\A k \in 1 .. Len(l) : GoodExclusion(s, l, k)) =>
              ApplyExclusions(s, l)
                = Ok(KeptBefore(s, l)[Len(l)]
                       \o Slice(s, Cursor(l, Len(l) + 1), ByteLen(s)))
BY DEF ApplyExclusions

\* The early returns of verify_data_hash, in their order.
LEMMA Verdicts ==
  ASSUME NEW s, NEW d
  PROVE  LET l        == d.exclusions
             selected == Selected(s, l)
             applied  == ApplyExclusions(s, l)
             answer   == VerifyDataHash(s, d)
         IN  /\ ~IsOk(FromId(d.alg)) => answer = FromId(d.alg)
             /\ IsOk(FromId(d.alg)) =>
                  /\ HasCorruptedCandidate(s) => answer = Err("CorruptedWrapper")
                  /\ ~HasCorruptedCandidate(s) =>
                       /\ (\E v, w \in selected : v # w) =>
                            answer = Err("MultipleWrappers")
                       /\ ~(\E v, w \in selected : v # w) =>
                            /\ selected = {} \/ Len(l) # 1 =>
                                 answer = Err("MalformedExclusion")
                            /\ selected # {} /\ Len(l) = 1 =>
                                 /\ applied = Err("MalformedExclusion") =>
                                      answer = Err("MalformedExclusion")
                                 /\ \A kept : applied = Ok(kept) =>
                                      answer = IF Digest(d.alg, Nfc(kept)) = d.hash
                                               THEN Ok(TRUE) ELSE Err("HashMismatch")
<1> DEFINE l == d.exclusions
           selected == Selected(s, l)
           applied == ApplyExclusions(s, l)
           covered == HashedBytes(s, l)
           a == FromId(d.alg)
<1>1. VerifyDataHash(s, d)
        = IF ~IsOk(a) THEN a
          ELSE IF HasCorruptedCandidate(s) THEN Err("CorruptedWrapper")
          ELSE IF \E v, w \in selected : v # w THEN Err("MultipleWrappers")
          ELSE IF selected = {} \/ Len(l) # 1 THEN Err("MalformedExclusion")
          ELSE IF ~IsOk(covered) THEN covered
          ELSE IF Digest(a.ok, covered.ok) = d.hash THEN Ok(TRUE)
          ELSE Err("HashMismatch")
  BY DEF VerifyDataHash
<1>2. IsOk(a) => a.ok = d.alg
  BY FromIdOk
<1>3. applied = Err("MalformedExclusion") => covered = Err("MalformedExclusion") /\ ~IsOk(covered)
  BY OkOrErr DEF HashedBytes
<1>4. ASSUME NEW kept, applied = Ok(kept)
      PROVE  covered = Ok(Nfc(kept)) /\ IsOk(covered) /\ covered.ok = Nfc(kept)
  <2>1. IsOk(applied) /\ applied.ok = kept
    BY <1>4, OkOrErr
  <2>2. covered = Ok(Nfc(kept))
    BY <2>1 DEF HashedBytes
  <2> QED
    BY <2>2, OkOrErr
<1>5. \A kept : applied = Ok(kept) =>
        covered = Ok(Nfc(kept)) /\ IsOk(covered) /\ covered.ok = Nfc(kept)
  BY <1>4
<1> HIDE DEF selected, applied, covered, a
<1>6. /\ ~IsOk(a) => VerifyDataHash(s, d) = a
      /\ IsOk(a) =>
           /\ HasCorruptedCandidate(s) => VerifyDataHash(s, d) = Err("CorruptedWrapper")
           /\ ~HasCorruptedCandidate(s) =>
                /\ (\E v, w \in selected : v # w) =>
                     VerifyDataHash(s, d) = Err("MultipleWrappers")
                /\ ~(\E v, w \in selected : v # w) =>
                     /\ selected = {} \/ Len(l) # 1 =>
                          VerifyDataHash(s, d) = Err("MalformedExclusion")
                     /\ selected # {} /\ Len(l) = 1 =>
                          /\ applied = Err("MalformedExclusion") =>
                               VerifyDataHash(s, d) = Err("MalformedExclusion")
                          /\ \A kept : applied = Ok(kept) =>
                               VerifyDataHash(s, d)
                                 = IF Digest(d.alg, Nfc(kept)) = d.hash
                                   THEN Ok(TRUE) ELSE Err("HashMismatch")
  BY <1>1, <1>2, <1>3, <1>5
<1> QED
  BY <1>6 DEF selected, applied, a

-----------------------------------------------------------------------------
(* Claims about one wrapper. *)

\* The one exclusion of a strip that succeeds leaves what the strip leaves, if
\* its end is a usize.
LEMMA OneExclusion ==
  ASSUME NEW s \in Seq(Char), NEW ex, IsOk(Strip(s, ex.start, EndOf(ex))),
         ex.start \in Nat
  PROVE  ApplyExclusions(s, <<ex>>)
           = IF EndOf(ex) <= USIZE_MAX THEN Ok(Strip(s, ex.start, EndOf(ex)).ok)
                                       ELSE Err("MalformedExclusion")
<1> DEFINE l     == <<ex>>
           front == Slice(s, 0, ex.start)
           back  == Slice(s, EndOf(ex), ByteLen(s))
<1>1. Len(l) = 1 /\ l[1] = ex
  OBVIOUS
<1>2. Cursor(l, 1) = 0 /\ Cursor(l, 1 + 1) = EndOf(ex)
  BY <1>1 DEF Cursor
<1> HIDE DEF l
<1>3. /\ ~(EndOf(ex) > ByteLen(s))
      /\ IsCharBoundary(s, ex.start) /\ IsCharBoundary(s, EndOf(ex))
      /\ Strip(s, ex.start, EndOf(ex)) = Ok(front \o back)
  BY DEF Strip, Err, IsOk
<1>4. Strip(s, ex.start, EndOf(ex)).ok = front \o back
  BY <1>3, OkOrErr
<1>5. EndOf(ex) \in Nat /\ ByteLen(s) \in Nat
  <2>1. PICK k \in 0 .. Len(s) : Offset(s, k) = EndOf(ex)
    BY <1>3 DEF IsCharBoundary, Prefixes
  <2>2. Len(s) \in Nat
    OBVIOUS
  <2> QED
    BY <2>1, <2>2, OffsetIsPrefixLen, PrefixLenRange, ByteLenNat
<1>6. GoodExclusion(s, l, 1) <=> EndOf(ex) <= USIZE_MAX
  BY <1>1, <1>2, <1>3, <1>5 DEF GoodExclusion
<1>7. front \in Seq(Char)
  <2>1. IsCharBoundary(s, 0)
    <3>1. 0 \in 0 .. Len(s)
      OBVIOUS
    <3> QED
      BY <3>1, CharsBeforeOffset, OffsetEnds
  <2> QED
    BY <1>3, <2>1, SliceTyped
<1>8. /\ Slice(s, Cursor(l, 1), l[1].start) = front
      /\ Slice(s, Cursor(l, 1 + 1), ByteLen(s)) = back
  BY <1>1, <1>2
<1> HIDE DEF front, back
<1>9. KeptBefore(s, l)[1] = front
  <2> DEFINE kept == KeptBefore(s, l)
  <2>1. /\ kept[0] = <<>>
        /\ \A k \in 1 .. Len(l) : kept[k] = kept[k - 1] \o Slice(s, Cursor(l, k), l[k].start)
    <3>1. Len(l) \in Nat
      BY <1>1
    <3> QED
      BY <3>1, KeptSteps
  <2> HIDE DEF kept
  <2>2. 1 \in 1 .. Len(l) /\ 1 - 1 = 0
    BY <1>1
  <2>3. kept[1] = kept[1 - 1] \o Slice(s, Cursor(l, 1), l[1].start)
    BY <2>1, <2>2
  <2>4. kept[1] = <<>> \o front
    BY <1>8, <2>1, <2>2, <2>3
  <2>5. <<>> \o front = front
    BY <1>7
  <2> QED
    BY <2>4, <2>5 DEF kept
<1>10. EndOf(ex) <= USIZE_MAX => ApplyExclusions(s, l) = Ok(front \o back)
  <2> HAVE EndOf(ex) <= USIZE_MAX
  <2>1. \A k \in 1 .. Len(l) : GoodExclusion(s, l, k)
    <3>1. \A k \in 1 .. Len(l) : k = 1
      BY <1>1
    <3> QED
      BY <1>6, <3>1
  <2>2. Len(l) \in Nat
    BY <1>1
  <2>3. ApplyExclusions(s, l) = Ok(KeptBefore(s, l)[Len(l)]
                                     \o Slice(s, Cursor(l, Len(l) + 1), ByteLen(s)))
    BY <2>1, <2>2, Applied
  <2> QED
    BY <1>1, <1>8, <1>9, <2>3
<1>11. ~(EndOf(ex) <= USIZE_MAX) => ApplyExclusions(s, l) = Err("MalformedExclusion")
  <2>1. Len(l) \in Nat /\ 1 \in 1 .. Len(l)
    BY <1>1
  <2> QED
    BY <1>6, <2>1, Applied
<1> QED
  BY <1>4, <1>10, <1>11 DEF l

\* Excluding a located wrapper leaves the text without it, as hashed.
LEMMA HashedWithout ==
  ASSUME NEW text \in Seq(Char), NEW w \in LocateAll(text)
  PROVE  /\ WrapperEnd(w) <= USIZE_MAX =>
              /\ ApplyExclusions(text, <<RangeOf(w)>>) = Ok(Without(text, w))
              /\ HashedBytes(text, <<RangeOf(w)>>) = Ok(Nfc(Without(text, w)))
         /\ ~(WrapperEnd(w) <= USIZE_MAX) =>
              /\ ApplyExclusions(text, <<RangeOf(w)>>) = Err("MalformedExclusion")
              /\ HashedBytes(text, <<RangeOf(w)>>) = Err("MalformedExclusion")
<1> DEFINE ex == RangeOf(w)
<1>1. ex.start = w.start /\ EndOf(ex) = WrapperEnd(w) /\ EndOf(ex) = w.start + w.length
  BY DEF RangeOf, EndOf, WrapperEnd
<1>2. w.start \in Nat
  BY LocatedProperties
<1> HIDE DEF ex
<1>3. Strip(text, ex.start, EndOf(ex)) = Ok(Without(text, w))
  BY <1>1, WithoutTyped
<1>4. IsOk(Strip(text, ex.start, EndOf(ex))) /\ Strip(text, ex.start, EndOf(ex)).ok = Without(text, w)
  BY <1>3, OkOrErr
<1>5. ApplyExclusions(text, <<ex>>)
        = IF WrapperEnd(w) <= USIZE_MAX THEN Ok(Without(text, w))
                                        ELSE Err("MalformedExclusion")
  BY <1>1, <1>2, <1>4, OneExclusion
<1> QED
  BY <1>5, OkOrErr DEF HashedBytes, ex

\* What verify_data_hash accepts: an assertion that excludes one located wrapper
\* of a text without corrupted candidates, and whose hash is that of the text
\* without the wrapper.
THEOREM VerifiesExactly ==
  ASSUME NEW text \in Seq(Char), NEW d, NEW S, d.exclusions \in Seq(S)
  PROVE  IsOk(VerifyDataHash(text, d)) <=>
           /\ d.alg \in AlgorithmIds
           /\ ~HasCorruptedCandidate(text)
           /\ \E w \in LocateAll(text) :
                /\ WrapperEnd(w) <= USIZE_MAX
                /\ d.exclusions = <<RangeOf(w)>>
                /\ Digest(d.alg, Nfc(Without(text, w))) = d.hash
<1> DEFINE l        == d.exclusions
           selected == Selected(text, l)
<1>1. \A w \in LocateAll(text) : l = <<RangeOf(w)>> => selected = {w}
  <2> TAKE w \in LocateAll(text)
  <2> HAVE l = <<RangeOf(w)>>
  <2>1. Len(l) = 1 /\ l[1] = RangeOf(w)
    OBVIOUS
  <2>2. w \in selected
    BY <2>1 DEF Selected
  <2>3. \A v \in selected : v = w
    <3> TAKE v \in selected
    <3>1. v \in LocateAll(text) /\ RangeOf(w) = RangeOf(v)
      BY <2>1 DEF Selected
    <3>2. v.start = w.start
      BY <3>1 DEF RangeOf
    <3> QED
      BY <3>1, <3>2, RangeDetermines
  <2> QED
    BY <2>2, <2>3
<1>2. ASSUME selected # {}, Len(l) = 1
      PROVE  \E w \in LocateAll(text) : l = <<RangeOf(w)>>
  <2>1. PICK w \in LocateAll(text), k \in 1 .. Len(l) : l[k] = RangeOf(w)
    BY <1>2 DEF Selected
  <2>2. k = 1
    BY <1>2, <2>1
  <2> HIDE DEF l
  <2>3. l \in Seq(S)
    BY DEF l
  <2>4. l = <<l[1]>>
    BY <1>2, <2>3
  <2> QED
    BY <2>1, <2>2, <2>4
<1>3. \A id : IsOk(FromId(id)) <=> id \in AlgorithmIds
  BY OkOrErr DEF FromId
<1>4. ASSUME IsOk(VerifyDataHash(text, d))
      PROVE  /\ d.alg \in AlgorithmIds
             /\ ~HasCorruptedCandidate(text)
             /\ selected # {} /\ Len(l) = 1
  BY <1>3, <1>4, Verdicts, OkOrErr
<1>5. ASSUME NEW w \in LocateAll(text), l = <<RangeOf(w)>>,
             d.alg \in AlgorithmIds, ~HasCorruptedCandidate(text)
      PROVE  IsOk(VerifyDataHash(text, d)) <=>
               /\ WrapperEnd(w) <= USIZE_MAX
               /\ Digest(d.alg, Nfc(Without(text, w))) = d.hash
  <2>1. selected = {w} /\ Len(l) = 1 /\ IsOk(FromId(d.alg))
    BY <1>1, <1>3, <1>5
  <2>2. selected # {} /\ ~(\E u, v \in selected : u # v)
    BY <2>1
  <2>3. /\ ApplyExclusions(text, l) = Err("MalformedExclusion") =>
             VerifyDataHash(text, d) = Err("MalformedExclusion")
        /\ \A kept : ApplyExclusions(text, l) = Ok(kept) =>
             VerifyDataHash(text, d) = IF Digest(d.alg, Nfc(kept)) = d.hash
                                       THEN Ok(TRUE) ELSE Err("HashMismatch")
    BY <1>5, <2>1, <2>2, Verdicts
  <2>4. CASE WrapperEnd(w) <= USIZE_MAX
    <3>1. ApplyExclusions(text, l) = Ok(Without(text, w))
      BY <1>5, <2>4, HashedWithout
    <3>2. VerifyDataHash(text, d)
            = IF Digest(d.alg, Nfc(Without(text, w))) = d.hash
              THEN Ok(TRUE) ELSE Err("HashMismatch")
      BY <2>3, <3>1
    <3> QED
      BY <2>4, <3>2, OkOrErr
  <2>5. CASE ~(WrapperEnd(w) <= USIZE_MAX)
    BY <1>5, <2>3, <2>5, HashedWithout, OkOrErr
  <2> QED
    BY <2>4, <2>5
<1> HIDE DEF selected
<1>6. ASSUME IsOk(VerifyDataHash(text, d))
      PROVE  \E w \in LocateAll(text) :
                /\ WrapperEnd(w) <= USIZE_MAX
                /\ l = <<RangeOf(w)>>
                /\ Digest(d.alg, Nfc(Without(text, w))) = d.hash
  <2>1. PICK w \in LocateAll(text) : l = <<RangeOf(w)>>
    BY <1>2, <1>4, <1>6
  <2> QED
    BY <1>4, <1>5, <1>6, <2>1
<1> QED
  BY <1>4, <1>5, <1>6

\* What compute_data_hash answers, and that its answer verifies at once.
LEMMA ComputedClaim ==
  ASSUME NEW text \in Seq(Char), NEW alg, IsOk(ComputeDataHash(text, alg))
  PROVE  LET w == Extract(text).ok
         IN  /\ IsOk(Extract(text))
             /\ WrapperEnd(w) <= USIZE_MAX
             /\ ComputeDataHash(text, alg).ok
                  = [exclusions |-> <<RangeOf(w)>>,
                     alg        |-> alg,
                     hash       |-> Digest(alg, Nfc(Without(text, w)))]
<1> DEFINE w       == Extract(text).ok
           covered == HashedBytes(text, <<RangeOf(w)>>)
<1>1. IsOk(Extract(text)) /\ ManifestExclusion(text) = Ok(RangeOf(w))
  BY DEF ComputeDataHash, ManifestExclusion
<1>2. ManifestExclusion(text).ok = RangeOf(w) /\ IsOk(ManifestExclusion(text))
  BY <1>1, OkOrErr
<1>3. IsOk(covered)
  BY <1>2 DEF ComputeDataHash
<1>4. ComputeDataHash(text, alg).ok
        = [exclusions |-> <<RangeOf(w)>>, alg |-> alg, hash |-> Digest(alg, covered.ok)]
  <2>1. ComputeDataHash(text, alg)
          = Ok([exclusions |-> <<RangeOf(w)>>, alg |-> alg, hash |-> Digest(alg, covered.ok)])
    BY <1>2, <1>3 DEF ComputeDataHash
  <2> QED
    BY <2>1, OkOrErr
<1>5. w \in LocateAll(text)
  BY <1>1, ExtractedIsLocated
<1> HIDE DEF w
<1>6. WrapperEnd(w) <= USIZE_MAX /\ covered = Ok(Nfc(Without(text, w)))
  BY <1>3, <1>5, HashedWithout, OkOrErr
<1>7. covered.ok = Nfc(Without(text, w))
  BY <1>6, OkOrErr
<1> QED
  BY <1>1, <1>4, <1>6, <1>7 DEF w
=============================================================================
