--------------------------- MODULE ScanLoopProofs ---------------------------
(***************************************************************************)
(* The two passes of extract, run character by character and addressed by  *)
(* byte offset, answer what the operator Extract of module Wrapper says,   *)
(* for every text and every width of usize; and no slice on the way cuts a *)
(* character.                                                              *)
(***************************************************************************)
EXTENDS ScanLoop, WrapperProofs

-----------------------------------------------------------------------------
(* What a pass has seen when it has come to a character *)

MarkersUpTo(t, m) == {j \in 1 .. m : t[j] = MARKER}

CorruptAt(t, j) ==
  HasMagic(VisitAt(t, j).run) /\ ~Decodes(VisitAt(t, j).run)

CorruptUpTo(t, m) == \E j \in MarkersUpTo(t, m) : CorruptAt(t, j)

DecodedUpTo(t, m) ==
  {WrapperAt(t, j) : j \in {k \in MarkersUpTo(t, m) : Decodes(VisitAt(t, k).run)}}

\* The markers of a text up to n are those up to m and the one at i, if no other
\* stands between m and i and nothing but selectors between i and n.
LEMMA MarkersOfRun ==
  ASSUME NEW t \in Seq(Char), NEW m \in 0 .. Len(t),
         NEW i \in 1 .. Len(t), NEW n \in 1 .. Len(t), m < i, i <= n, t[i] = MARKER,
         \A j \in m + 1 .. i - 1 : t[j] # MARKER,
         \A j \in i + 1 .. n : IsVs(t[j])
  PROVE  MarkersUpTo(t, n) = MarkersUpTo(t, m) \cup {i}
<1>1. Len(t) \in Nat
  OBVIOUS
<1>2. ASSUME NEW j \in 1 .. n, t[j] = MARKER, j # i
      PROVE  j \in 1 .. m
  <2>1. CASE j \in m + 1 .. i - 1
    BY <1>2, <2>1
  <2>2. CASE j \in i + 1 .. n
    BY <1>2, <2>2, MarkerProperties
  <2> QED
    BY <1>1, <1>2, <2>1, <2>2
<1>3. i \in 1 .. n /\ \A j \in 1 .. m : j \in 1 .. n
  BY <1>1
<1> QED
  BY <1>2, <1>3 DEF MarkersUpTo

\* The markers up to m are all there are, if none stands behind m.
LEMMA MarkersOfRest ==
  ASSUME NEW t \in Seq(Char), NEW m \in 0 .. Len(t),
         \A j \in m + 1 .. Len(t) : t[j] # MARKER
  PROVE  MarkersUpTo(t, Len(t)) = MarkersUpTo(t, m)
<1>1. Len(t) \in Nat
  OBVIOUS
<1>2. ASSUME NEW j \in 1 .. Len(t), t[j] = MARKER
      PROVE  j \in 1 .. m
  <2>1. j \notin m + 1 .. Len(t)
    BY <1>2
  <2> QED
    BY <1>1, <2>1
<1>3. \A j \in 1 .. m : j \in 1 .. Len(t)
  BY <1>1
<1> QED
  BY <1>2, <1>3 DEF MarkersUpTo

\* What has_corrupted_candidate and locate_all see in the whole text.
LEMMA SeenInAll ==
  ASSUME NEW t \in Seq(Char)
  PROVE  /\ HasCorruptedCandidate(t) <=> CorruptUpTo(t, Len(t))
         /\ LocateAll(t) = DecodedUpTo(t, Len(t))
<1>1. ASSUME NEW v
      PROVE  DecodeFrame(v.run, v.start, v.length) = {} <=> ~Decodes(v.run)
  BY DEF DecodeFrame
<1>2. HasCorruptedCandidate(t) <=>
        \E j \in 1 .. Len(t) : t[j] = MARKER /\ CorruptAt(t, j)
  BY <1>1 DEF HasCorruptedCandidate, Scan, CorruptAt
<1>3. HasCorruptedCandidate(t) <=> CorruptUpTo(t, Len(t))
  BY <1>2 DEF CorruptUpTo, MarkersUpTo
<1>4. ASSUME NEW w
      PROVE  w \in LocateAll(t) <=> w \in DecodedUpTo(t, Len(t))
  <2>1. w \in LocateAll(t) <=>
          \E j \in 1 .. Len(t) :
            t[j] = MARKER /\ Decodes(VisitAt(t, j).run) /\ w = WrapperAt(t, j)
    BY LocatedAt
  <2> QED
    BY <2>1 DEF DecodedUpTo, MarkersUpTo
<1> QED
  BY <1>3, <1>4

\* Of a rest that is nothing but a run, decode_exact returns what decode_run
\* decodes; any other rest decode_run leaves before its end.
LEMMA DecodersOnText ==
  ASSUME NEW s \in Seq(Char)
  PROVE  LET decoded == DecodeRun(s)
         IN  DecodeExact(s) = IF decoded.consumed = ByteLen(s)
                              THEN Ok(decoded.bytes) ELSE Err("CorruptedWrapper")
<1> DEFINE n       == RunLen(s)
           decoded == DecodeRun(s)
<1>1. /\ n \in 0 .. Len(s)
      /\ \A i \in 1 .. n : IsVs(s[i])
      /\ n < Len(s) => ~IsVs(s[n + 1])
  BY RunLenDef
<1>2. decoded.bytes = DecodeBytes(SubSeq(s, 1, n)) /\ decoded.consumed = Offset(s, n)
  BY DEF DecodeRun, Offset
<1>3. Len(s) \in Nat /\ Len(s) \in 0 .. Len(s) /\ ByteLen(s) = Offset(s, Len(s))
  BY OffsetEnds
<1> HIDE DEF n, decoded
<1>4. decoded.consumed = ByteLen(s) <=> n = Len(s)
  BY <1>1, <1>2, <1>3, OffsetInjective
<1>5. CASE n = Len(s)
  <2>1. SubSeq(s, 1, n) = s
    BY <1>5
  <2>2. \A i \in 1 .. Len(s) : IsVs(s[i])
    BY <1>1, <1>5
  <2> QED
    BY <1>2, <1>4, <1>5, <2>1, <2>2 DEF DecodeExact, decoded
<1>6. CASE n # Len(s)
  <2>1. n + 1 \in 1 .. Len(s) /\ ~IsVs(s[n + 1])
    BY <1>1, <1>3, <1>6
  <2>2. DecodeExact(s) = Err("CorruptedWrapper")
    BY <2>1 DEF DecodeExact
  <2> QED
    BY <1>4, <1>6, <2>2 DEF decoded
<1> QED
  BY <1>5, <1>6

-----------------------------------------------------------------------------
(* The inductive invariant *)

\* A find has stopped at the marker at i, and decode_run has read the selectors
\* up to n.
Reading(m, i, n) ==
  /\ m < i /\ text[i] = MARKER
  /\ \A j \in m + 1 .. i - 1 : text[j] # MARKER
  /\ i <= n
  /\ \A j \in i + 1 .. n : IsVs(text[j])
  /\ start = Offset(text, i - 1)
  /\ End = Offset(text, n)
  /\ Len(run) = n - i
  /\ \A j \in 1 .. n - i : run[j] = VsToByte(text[i + j])

\* locate_all holds the wrappers of the markers up to m, each of them once.
Holds(m) ==
  /\ {found[k] : k \in 1 .. Len(found)} = DecodedUpTo(text, m)
  /\ \A k \in 1 .. Len(found) : WrapperEnd(found[k]) <= from

\* The pass has come to the boundary behind the first m characters.
At(m) ==
  /\ from = Offset(text, m)
  /\ start # None =>
       pass # "done" /\ \E i \in 1 .. Len(text), n \in 1 .. Len(text) : Reading(m, i, n)
  /\ pass = "corrupted" => (corrupted <=> CorruptUpTo(text, m)) /\ found = <<>>
  /\ pass = "locate" => Holds(m)

ShapeOK ==
  /\ text \in Seq(Char)
  /\ pass \in {"corrupted", "locate", "done"}
  /\ start \in {None} \cup 0 .. ByteLen(text)
  /\ run \in Seq(Byte)
  /\ consumed \in 0 .. ByteLen(text)
  /\ found \in Seq(Wrappers)
  /\ corrupted \in BOOLEAN

IInv ==
  /\ ShapeOK
  /\ \E m \in 0 .. Len(text) : At(m)
  /\ pass = "locate" => ~HasCorruptedCandidate(text)
  /\ \A k \in 1 .. Len(found) : found[k].start < WrapperEnd(found[k])
  /\ InOrderOfAppearance
  /\ AnswersExtract

-----------------------------------------------------------------------------
(* Offsets *)

\* The text from the boundary behind its first m characters, and what is found
\* in it.
LEMMA RestAt ==
  ASSUME text \in Seq(Char), NEW m \in 0 .. Len(text)
  PROVE  LET rest == Rest(Offset(text, m))
         IN  /\ rest = SubSeq(text, m + 1, Len(text))
             /\ rest \in Seq(Char)
             /\ Len(rest) = Len(text) - m
             /\ \A k \in 1 .. Len(text) - m : rest[k] = text[m + k]
             /\ \A k \in 0 .. Len(text) - m :
                  Offset(text, m) + Offset(rest, k) = Offset(text, m + k)
<1> DEFINE rest == SubSeq(text, m + 1, Len(text))
<1>1. Len(text) \in Nat /\ Len(text) \in 0 .. Len(text)
  OBVIOUS
<1>2. Rest(Offset(text, m)) = rest
  BY <1>1, OffsetEnds, SliceAtOffsets DEF Rest
<1>3. /\ rest \in Seq(Char)
      /\ Len(rest) = Len(text) - m
      /\ \A k \in 1 .. Len(text) - m : rest[k] = text[m + k]
  BY RestProperties
<1>4. ASSUME NEW k \in 0 .. Len(text) - m
      PROVE  Offset(text, m) + Offset(rest, k) = Offset(text, m + k)
  <2>1. m + k \in 0 .. Len(text)
    BY <1>1
  <2>2. PrefixLen(text)[m + k] = PrefixLen(text)[m] + PrefixLen(rest)[k]
    BY PrefixLenRest
  <2> HIDE DEF rest
  <2>3. Offset(rest, k) = PrefixLen(rest)[k]
    BY <1>3, OffsetIsPrefixLen
  <2>4. Offset(text, m + k) = PrefixLen(text)[m + k] /\ Offset(text, m) = PrefixLen(text)[m]
    BY <2>1, OffsetIsPrefixLen
  <2> QED
    BY <2>2, <2>3, <2>4
<1> QED
  BY <1>2, <1>3, <1>4

\* An offset lies in the text.
LEMMA OffsetInText ==
  ASSUME NEW t \in Seq(Char), NEW m \in 0 .. Len(t)
  PROVE  Offset(t, m) \in 0 .. ByteLen(t) /\ ByteLen(t) \in Nat
<1>1. Len(t) \in Nat /\ Len(t) \in 0 .. Len(t) /\ ByteLen(t) = Offset(t, Len(t)) /\ ByteLen(t) \in Nat
  BY OffsetEnds, ByteLenNat
<1>2. Offset(t, m) \in Nat
  BY <1>1, OffsetIsPrefixLen, PrefixLenRange
<1>3. Offset(t, m) <= Offset(t, Len(t))
  <2>1. CASE m = Len(t)
    BY <1>2, <2>1
  <2>2. CASE m # Len(t)
    <3>1. Offset(t, m) < Offset(t, Len(t))
      BY <1>1, <2>2, OffsetIncreasing
    <3> QED
      BY <1>1, <1>2, <3>1
  <2> QED
    BY <2>1, <2>2
<1> QED
  BY <1>1, <1>2, <1>3

\* Offsets are ordered as the characters are.
LEMMA OffsetOrdered ==
  ASSUME NEW t \in Seq(Char), NEW m \in 0 .. Len(t), NEW n \in 0 .. Len(t), m <= n
  PROVE  Offset(t, m) <= Offset(t, n)
<1>1. Len(t) \in Nat
  OBVIOUS
<1>2. Offset(t, m) \in Nat /\ Offset(t, n) \in Nat
  BY <1>1, OffsetInText
<1>3. CASE m = n
  BY <1>2, <1>3
<1>4. CASE m # n
  <2>1. Offset(t, m) < Offset(t, n)
    BY <1>1, <1>4, OffsetIncreasing
  <2> QED
    BY <1>2, <2>1
<1> QED
  BY <1>3, <1>4

\* One character further.
LEMMA OffsetNext ==
  ASSUME NEW t \in Seq(Char), NEW k \in 1 .. Len(t)
  PROVE  Offset(t, k) = Offset(t, k - 1) + LenUtf8(t[k])
<1>1. Len(t) \in Nat /\ k - 1 \in Nat /\ (k - 1) + 1 = k /\ (k - 1) + 1 <= Len(t)
  OBVIOUS
<1>2. PrefixLen(t)[k] = PrefixLen(t)[k - 1] + LenUtf8(t[k])
  BY <1>1, PrefixLenNext
<1>3. k \in 0 .. Len(t) /\ k - 1 \in 0 .. Len(t)
  BY <1>1
<1> QED
  BY <1>2, <1>3, OffsetIsPrefixLen

-----------------------------------------------------------------------------
(* The steps *)

LEMMA InitInv == Init => IInv
<1> SUFFICES ASSUME Init
             PROVE  IInv
  OBVIOUS
<1>1. /\ text \in Texts /\ pass = "corrupted" /\ from = 0 /\ start = None
      /\ run = <<>> /\ consumed = 0 /\ corrupted = FALSE /\ found = <<>>
  BY DEF Init
<1>2. text \in Seq(Char) /\ 0 \in 0 .. Len(text) /\ ByteLen(text) \in Nat
  BY <1>1, TextsAssumption, ByteLenNat
<1>3. ShapeOK
  <2>1. run \in Seq(Byte)
    BY <1>1
  <2>2. found \in Seq(Wrappers)
    BY <1>1
  <2>3. consumed \in 0 .. ByteLen(text)
    BY <1>1, <1>2
  <2> QED
    BY <1>1, <1>2, <2>1, <2>2, <2>3 DEF ShapeOK
<1>4. At(0)
  <2>1. Offset(text, 0) = 0
    BY <1>2, OffsetEnds
  <2>2. ~CorruptUpTo(text, 0)
    BY DEF CorruptUpTo, MarkersUpTo
  <2> QED
    BY <1>1, <2>1, <2>2 DEF At
<1>5. InOrderOfAppearance /\ AnswersExtract /\ Len(found) = 0
  BY <1>1 DEF InOrderOfAppearance, AnswersExtract
<1> QED
  BY <1>1, <1>2, <1>3, <1>4, <1>5 DEF IInv

LEMMA FindMarkerInv ==
  ASSUME IInv, FindMarker
  PROVE  IInv'
<1>1. PICK m \in 0 .. Len(text) : At(m)
  BY DEF IInv
<1>2. text \in Seq(Char) /\ Len(text) \in Nat /\ from = Offset(text, m)
  BY <1>1 DEF IInv, ShapeOK, At
<1> DEFINE rest == Rest(Offset(text, m))
<1>3. /\ rest \in Seq(Char)
      /\ Len(rest) = Len(text) - m
      /\ \A k \in 1 .. Len(text) - m : rest[k] = text[m + k]
      /\ \A k \in 0 .. Len(text) - m :
           Offset(text, m) + Offset(rest, k) = Offset(text, m + k)
  BY <1>2, RestAt
<1>4. PICK k \in 1 .. Len(rest) :
        /\ rest[k] = MARKER
        /\ \A j \in 1 .. k - 1 : rest[j] # MARKER
        /\ start' = from + Offset(rest, k - 1)
  BY <1>2 DEF FindMarker
<1>5. /\ pass \in {"corrupted", "locate"}
      /\ run' = <<>> /\ consumed' = 0
      /\ text' = text /\ pass' = pass /\ from' = from /\ corrupted' = corrupted
      /\ found' = found /\ result' = result
  BY DEF FindMarker, Scanning
<1> HIDE DEF rest
<1> DEFINE i == m + k
<1>6. i \in 1 .. Len(text) /\ i - 1 \in 0 .. Len(text) /\ i \in 0 .. Len(text) /\ m < i
  BY <1>2, <1>3
<1>7. text[i] = MARKER
  BY <1>2, <1>3, <1>4
<1>8. ASSUME NEW j \in m + 1 .. i - 1
      PROVE  text[j] # MARKER
  <2>1. j - m \in 1 .. k - 1 /\ j - m \in 1 .. Len(text) - m /\ m + (j - m) = j
    BY <1>2, <1>3
  <2> QED
    BY <1>3, <1>4, <2>1
<1>9. start' = Offset(text, i - 1)
  <2>1. k - 1 \in 0 .. Len(text) - m /\ m + (k - 1) = i - 1
    BY <1>2, <1>3
  <2>2. Offset(text, m) + Offset(rest, k - 1) = Offset(text, m + (k - 1))
    BY <1>3, <2>1
  <2> QED
    BY <1>2, <1>4, <2>1, <2>2
<1>10. start' \in 0 .. ByteLen(text) /\ ByteLen(text) \in Nat
  BY <1>2, <1>6, <1>9, OffsetInText
<1>11. End' = Offset(text, i)
  <2>1. Offset(text, i) = Offset(text, i - 1) + LenUtf8(MARKER)
    BY <1>2, <1>6, <1>7, OffsetNext
  <2> QED
    BY <1>5, <1>9, <1>10, <2>1, MarkerProperties DEF End, RunStart
<1> HIDE DEF i
<1>12. Reading(m, i, i)'
  <2>1. i <= i /\ i - i = 0
    BY <1>6
  <2> QED
    BY <1>5, <1>6, <1>7, <1>8, <1>9, <1>11, <2>1 DEF Reading
<1>13. At(m)'
  <2>1. (Holds(m))' <=> Holds(m)
    BY <1>5 DEF Holds
  <2>2. from' = Offset(text', m)
    BY <1>2, <1>5
  <2>3. \E j \in 1 .. Len(text'), n \in 1 .. Len(text') : Reading(m, j, n)'
    BY <1>5, <1>6, <1>12
  <2>4. /\ pass = "corrupted" => (corrupted <=> CorruptUpTo(text, m)) /\ found = <<>>
        /\ pass = "locate" => Holds(m)
    BY <1>1 DEF At
  <2> QED
    BY <1>5, <2>1, <2>2, <2>3, <2>4 DEF At
<1>14. ShapeOK'
  BY <1>5, <1>10 DEF IInv, ShapeOK
<1>15. InOrderOfAppearance' /\ AnswersExtract'
  BY <1>5 DEF IInv, InOrderOfAppearance, AnswersExtract
<1>16. \A l \in 1 .. Len(found') : found'[l].start < WrapperEnd(found'[l])
  BY <1>5 DEF IInv
<1>17. pass' = "locate" => ~HasCorruptedCandidate(text')
  BY <1>5 DEF IInv
<1>18. \E l \in 0 .. Len(text') : At(l)'
  BY <1>5, <1>13
<1> QED
  BY <1>14, <1>15, <1>16, <1>17, <1>18 DEF IInv

\* One element more.
LEMMA AppendedOne ==
  ASSUME NEW S, NEW s \in Seq(S), NEW x \in S
  PROVE  /\ Append(s, x) \in Seq(S)
         /\ Len(Append(s, x)) = Len(s) + 1
         /\ \A k \in 1 .. Len(s) : Append(s, x)[k] = s[k]
         /\ Append(s, x)[Len(s) + 1] = x
OBVIOUS

LEMMA DecodeSelectorInv ==
  ASSUME IInv, DecodeSelector
  PROVE  IInv'
<1>1. PICK m \in 0 .. Len(text) : At(m)
  BY DEF IInv
<1>2. /\ text \in Seq(Char) /\ Len(text) \in Nat /\ start \in {None} \cup 0 .. ByteLen(text)
      /\ run \in Seq(Byte) /\ consumed \in 0 .. ByteLen(text)
  BY DEF IInv, ShapeOK
<1>3. /\ pass \in {"corrupted", "locate"} /\ start # None
      /\ Rest(End) # <<>> /\ IsVs(Head(Rest(End)))
      /\ run' = Append(run, VsToByte(Head(Rest(End))))
      /\ consumed' = consumed + LenUtf8(Head(Rest(End)))
      /\ text' = text /\ pass' = pass /\ from' = from /\ start' = start
      /\ corrupted' = corrupted /\ found' = found /\ result' = result
  BY DEF DecodeSelector, Scanning
<1>4. PICK i \in 1 .. Len(text), n \in 1 .. Len(text) : Reading(m, i, n)
  BY <1>1, <1>3 DEF At
<1>5. /\ m < i /\ text[i] = MARKER /\ i <= n
      /\ \A j \in m + 1 .. i - 1 : text[j] # MARKER
      /\ \A j \in i + 1 .. n : IsVs(text[j])
      /\ start = Offset(text, i - 1)
      /\ End = Offset(text, n)
      /\ Len(run) = n - i
      /\ \A j \in 1 .. n - i : run[j] = VsToByte(text[i + j])
  BY <1>4 DEF Reading
<1> DEFINE rest == Rest(Offset(text, n))
           c    == text[n + 1]
<1>6. /\ rest \in Seq(Char)
      /\ Len(rest) = Len(text) - n
      /\ \A k \in 1 .. Len(text) - n : rest[k] = text[n + k]
  <2>1. n \in 0 .. Len(text)
    BY <1>2
  <2> QED
    BY <1>2, <2>1, RestAt
<1>7. rest # <<>> /\ Rest(End) = rest
  BY <1>3, <1>5
<1> HIDE DEF rest
<1>8. n + 1 \in 1 .. Len(text) /\ Head(rest) = c
  <2>1. Len(rest) >= 1
    BY <1>6, <1>7
  <2>2. n + 1 \in 1 .. Len(text) /\ 1 \in 1 .. Len(text) - n
    BY <1>2, <1>6, <2>1
  <2>3. Head(rest) = rest[1]
    BY <1>6, <1>7
  <2> QED
    BY <1>6, <2>2, <2>3
<1>9. IsVs(c) /\ run' = Append(run, VsToByte(c)) /\ consumed' = consumed + LenUtf8(c)
  BY <1>3, <1>7, <1>8
<1> HIDE DEF c
<1>10. VsToByte(c) \in Byte /\ LenUtf8(c) \in 1 .. 4
  BY <1>9, SelectorRoundTrip, LenUtf8Range
<1>11. start \in Nat /\ consumed \in Nat /\ ByteLen(text) \in Nat
  BY <1>2, <1>3, ByteLenNat
<1>12. End' = Offset(text, n + 1)
  <2>1. Offset(text, n + 1) = Offset(text, n) + LenUtf8(c)
    <3>1. (n + 1) - 1 = n
      OBVIOUS
    <3> QED
      BY <1>2, <1>8, <3>1, OffsetNext DEF c
  <2>2. Offset(text, n) = start + 3 + consumed
    BY <1>5, MarkerProperties DEF End, RunStart
  <2>3. End' = start + 3 + (consumed + LenUtf8(c))
    BY <1>3, <1>9, MarkerProperties DEF End, RunStart
  <2> DEFINE k == LenUtf8(c)
  <2>4. k \in Nat /\ start \in Nat /\ consumed \in Nat
    BY <1>10, <1>11
  <2>5. Offset(text, n + 1) = (start + 3 + consumed) + k /\ End' = start + 3 + (consumed + k)
    BY <2>1, <2>2, <2>3
  <2> HIDE DEF k
  <2>6. (start + 3 + consumed) + k = start + 3 + (consumed + k)
    BY <2>4
  <2> QED
    BY <2>5, <2>6
<1>13. consumed' \in 0 .. ByteLen(text)
  <2>1. Offset(text, n + 1) \in 0 .. ByteLen(text)
    <3>1. n + 1 \in 0 .. Len(text)
      BY <1>8
    <3> QED
      BY <1>2, <3>1, OffsetInText
  <2>2. End' = start + 3 + consumed'
    BY <1>3, MarkerProperties DEF End, RunStart
  <2>3. consumed' \in Nat
    BY <1>9, <1>10, <1>11
  <2>4. start + 3 + consumed' <= ByteLen(text)
    BY <1>12, <2>1, <2>2
  <2>5. \A x, y, b \in Nat : x + 3 + y <= b => y \in 0 .. b
    OBVIOUS
  <2> QED
    BY <1>11, <2>3, <2>4, <2>5
<1>14. /\ run' \in Seq(Byte)
       /\ Len(run') = (n + 1) - i
       /\ \A j \in 1 .. (n + 1) - i : run'[j] = VsToByte(text[i + j])
  <2>1. /\ run' \in Seq(Byte)
        /\ Len(run') = Len(run) + 1
        /\ \A k \in 1 .. Len(run) : run'[k] = run[k]
        /\ run'[Len(run) + 1] = VsToByte(c)
    BY <1>2, <1>9, <1>10, AppendedOne
  <2>2. Len(run) + 1 = (n + 1) - i
    BY <1>5
  <2>3. ASSUME NEW j \in 1 .. (n + 1) - i
        PROVE  run'[j] = VsToByte(text[i + j])
    <3>1. CASE j = (n + 1) - i
      <4>1. j = Len(run) + 1 /\ i + j = n + 1
        BY <2>2, <3>1
      <4> QED
        BY <2>1, <4>1 DEF c
    <3>2. CASE j # (n + 1) - i
      <4>1. j \in 1 .. n - i
        BY <3>2
      <4> QED
        BY <1>5, <2>1, <4>1
    <3> QED
      BY <3>1, <3>2
  <2> QED
    BY <2>1, <2>2, <2>3
<1>15. Reading(m, i, n + 1)'
  <2>1. \A j \in i + 1 .. n + 1 : IsVs(text[j])
    <3> TAKE j \in i + 1 .. n + 1
    <3>1. j \in i + 1 .. n \/ j = n + 1
      OBVIOUS
    <3> QED
      BY <1>5, <1>9, <3>1 DEF c
  <2>2. i <= n + 1
    BY <1>5
  <2> QED
    BY <1>3, <1>5, <1>12, <1>14, <2>1, <2>2 DEF Reading
<1>16. At(m)'
  <2>1. (Holds(m))' <=> Holds(m)
    BY <1>3 DEF Holds
  <2>2. \E j \in 1 .. Len(text'), l \in 1 .. Len(text') : Reading(m, j, l)'
    BY <1>3, <1>8, <1>15
  <2>3. /\ from = Offset(text, m)
        /\ pass = "corrupted" => (corrupted <=> CorruptUpTo(text, m)) /\ found = <<>>
        /\ pass = "locate" => Holds(m)
    BY <1>1 DEF At
  <2> QED
    BY <1>3, <2>1, <2>2, <2>3 DEF At
<1>17. ShapeOK'
  BY <1>3, <1>13, <1>14 DEF IInv, ShapeOK
<1>18. InOrderOfAppearance' /\ AnswersExtract'
  BY <1>3 DEF IInv, InOrderOfAppearance, AnswersExtract
<1>19. /\ \A l \in 1 .. Len(found') : found'[l].start < WrapperEnd(found'[l])
       /\ pass' = "locate" => ~HasCorruptedCandidate(text')
       /\ \E l \in 0 .. Len(text') : At(l)'
  BY <1>3, <1>16 DEF IInv
<1> QED
  BY <1>17, <1>18, <1>19 DEF IInv

\* Where a run ends, the pass resumes behind it, with its marker seen.
LEMMA EndRunSees ==
  ASSUME IInv, NEW m \in 0 .. Len(text), At(m), start # None, EndRun
  PROVE  \E i \in 1 .. Len(text), n \in 1 .. Len(text) :
           /\ m < i /\ i <= n /\ text[i] = MARKER
           /\ MarkersUpTo(text, n) = MarkersUpTo(text, m) \cup {i}
           /\ VisitAt(text, i) = [run |-> run, start |-> start, length |-> End - start]
           /\ start = Offset(text, i - 1)
           /\ from' = Offset(text, n)
           /\ WrapperEnd(WrapperAt(text, i)) = Offset(text, n)
<1>1. PICK i \in 1 .. Len(text), n \in 1 .. Len(text) : Reading(m, i, n)
  BY DEF At
<1>2. /\ m < i /\ text[i] = MARKER /\ i <= n
      /\ \A j \in m + 1 .. i - 1 : text[j] # MARKER
      /\ \A j \in i + 1 .. n : IsVs(text[j])
      /\ start = Offset(text, i - 1)
      /\ End = Offset(text, n)
      /\ Len(run) = n - i
      /\ \A j \in 1 .. n - i : run[j] = VsToByte(text[i + j])
  BY <1>1 DEF Reading
<1>3. /\ text \in Seq(Char) /\ Len(text) \in Nat /\ run \in Seq(Byte)
      /\ consumed \in Nat /\ start \in Nat
  <2>1. /\ text \in Seq(Char) /\ run \in Seq(Byte) /\ consumed \in 0 .. ByteLen(text)
        /\ start \in {None} \cup 0 .. ByteLen(text)
    BY DEF IInv, ShapeOK
  <2> QED
    BY <2>1
<1>4. Rest(End) # <<>> => ~IsVs(Head(Rest(End)))
  BY DEF EndRun
<1>5. n < Len(text) => ~IsVs(text[n + 1])
  <2> DEFINE rest == Rest(Offset(text, n))
  <2> HAVE n < Len(text)
  <2>1. /\ rest \in Seq(Char)
        /\ Len(rest) = Len(text) - n
        /\ \A k \in 1 .. Len(text) - n : rest[k] = text[n + k]
    <3>1. n \in 0 .. Len(text)
      BY <1>3
    <3> QED
      BY <1>3, <3>1, RestAt
  <2>2. rest # <<>> => ~IsVs(Head(rest))
    BY <1>2, <1>4
  <2> HIDE DEF rest
  <2>3. rest # <<>> /\ Head(rest) = rest[1] /\ 1 \in 1 .. Len(text) - n
    BY <1>3, <2>1
  <2> QED
    BY <2>1, <2>2, <2>3
<1>6. n \in i .. Len(text)
  BY <1>2, <1>3
<1>7. /\ VisitAt(text, i).run = run
      /\ VisitAt(text, i).start = Offset(text, i - 1)
      /\ VisitAt(text, i).length = Offset(text, n) - Offset(text, i - 1)
  <2>1. text \in Seq(Char) /\ run \in Seq(Byte)
    BY <1>3
  <2>2. ReadsRun(text, i, n, run)
    BY <1>2, <1>5, <1>6, <2>1 DEF ReadsRun
  <2>3. i \in 1 .. Len(text)
    BY <1>2
  <2> QED
    BY <2>1, <2>2, <2>3, RunVisited
<1>8. VisitAt(text, i) = [run |-> run, start |-> start, length |-> End - start]
  BY <1>2, <1>7 DEF VisitAt
<1>9. MarkersUpTo(text, n) = MarkersUpTo(text, m) \cup {i}
  <2>1. text[i] = MARKER /\ \A j \in i + 1 .. n : IsVs(text[j])
    BY <1>2
  <2>2. m < i /\ i <= n /\ \A j \in m + 1 .. i - 1 : text[j] # MARKER
    BY <1>2
  <2>3. text \in Seq(Char)
    BY <1>3
  <2>4. text[i] = MARKER
    BY <2>1
  <2>5. \A j \in i + 1 .. n : IsVs(text[j])
    BY <2>1
  <2>6. \A j \in m + 1 .. i - 1 : text[j] # MARKER
    BY <2>2
  <2>7. m < i
    BY <2>2
  <2>8. i <= n
    BY <2>2
  <2> QED
    BY <2>4, <2>5, <2>6, <2>7, <2>8, <2>3, MarkersOfRun
<1>10. from' = Offset(text, n)
  <2>1. End >= RunStart
    BY <1>3, MarkerProperties DEF End, RunStart
  <2>2. from' = Resume(End, RunStart)
    BY DEF EndRun
  <2> QED
    BY <1>2, <2>1, <2>2 DEF Resume
<1>11. WrapperEnd(WrapperAt(text, i)) = Offset(text, n)
  <2>1. VisitAt(text, i).start + VisitAt(text, i).length = Offset(text, LastOf(text, i))
    BY <1>2, <1>3, VisitAtProperties
  <2>2. Offset(text, n) \in Nat /\ Offset(text, i - 1) \in Nat
    <3>1. n \in 0 .. Len(text) /\ i - 1 \in 0 .. Len(text)
      BY <1>3
    <3> QED
      BY <1>3, <3>1, OffsetInText
  <2>3. VisitAt(text, i).start + VisitAt(text, i).length = Offset(text, n)
    BY <1>7, <2>2
  <2> QED
    BY <2>3 DEF WrapperEnd, WrapperAt
<1> QED
  BY <1>2, <1>8, <1>9, <1>10, <1>11

\* A wrapper that locate_all makes of a run.
LEMMA WrapperTyped ==
  ASSUME NEW t \in Seq(Char), NEW i \in 1 .. Len(t), t[i] = MARKER,
         Decodes(VisitAt(t, i).run)
  PROVE  WrapperAt(t, i) \in Wrappers
<1> DEFINE v == VisitAt(t, i)
<1>1. v.run \in Seq(Byte) /\ v.start \in Nat /\ v.length \in Nat
  BY VisitAtProperties
<1> HIDE DEF v
<1>2. SubSeq(v.run, HEADER_LEN + 1, BodyEnd(v.run)) \in Seq(Byte)
  BY <1>1, DecodedFrame DEF v
<1> QED
  BY <1>1, <1>2 DEF WrapperAt, Wrappers, v

\* One marker more.
LEMMA OneMore ==
  ASSUME NEW t, NEW m, NEW n, NEW i, MarkersUpTo(t, n) = MarkersUpTo(t, m) \cup {i}
  PROVE  /\ CorruptUpTo(t, n) <=> CorruptUpTo(t, m) \/ CorruptAt(t, i)
         /\ DecodedUpTo(t, n) = DecodedUpTo(t, m) \cup
              (IF Decodes(VisitAt(t, i).run) THEN {WrapperAt(t, i)} ELSE {})
<1>1. CorruptUpTo(t, n) <=> CorruptUpTo(t, m) \/ CorruptAt(t, i)
  BY DEF CorruptUpTo
<1>2. DecodedUpTo(t, n) = DecodedUpTo(t, m) \cup
        (IF Decodes(VisitAt(t, i).run) THEN {WrapperAt(t, i)} ELSE {})
  BY DEF DecodedUpTo
<1> QED
  BY <1>1, <1>2

LEMMA EndRunInv ==
  ASSUME IInv, EndRun
  PROVE  IInv'
<1>1. PICK m \in 0 .. Len(text) : At(m)
  BY DEF IInv
<1>2. /\ pass \in {"corrupted", "locate"} /\ start # None
      /\ pass = "corrupted" => VisitForCorrupted
      /\ pass # "corrupted" => VisitForLocate
      /\ start' = None
      /\ text' = text /\ pass' = pass /\ run' = run /\ consumed' = consumed
      /\ result' = result
  BY DEF EndRun, Scanning
<1>3. /\ text \in Seq(Char) /\ Len(text) \in Nat /\ found \in Seq(Wrappers)
      /\ corrupted \in BOOLEAN
  BY DEF IInv, ShapeOK
<1>4. PICK i \in 1 .. Len(text), n \in 1 .. Len(text) :
        /\ m < i /\ i <= n /\ text[i] = MARKER
        /\ MarkersUpTo(text, n) = MarkersUpTo(text, m) \cup {i}
        /\ VisitAt(text, i) = [run |-> run, start |-> start, length |-> End - start]
        /\ start = Offset(text, i - 1)
        /\ from' = Offset(text, n)
        /\ WrapperEnd(WrapperAt(text, i)) = Offset(text, n)
  BY <1>1, <1>2, EndRunSees
<1> DEFINE w == WrapperAt(text, i)
<1>5. /\ CorruptUpTo(text, n) <=> CorruptUpTo(text, m) \/ CorruptAt(text, i)
      /\ DecodedUpTo(text, n) = DecodedUpTo(text, m) \cup
           (IF Decodes(VisitAt(text, i).run) THEN {w} ELSE {})
  BY <1>4, OneMore
<1>6. DecodeFrame(run, start, End - start) = IF Decodes(run) THEN {w} ELSE {}
  BY <1>4 DEF DecodeFrame, WrapperAt
<1>7. VisitAt(text, i).run = run
  BY <1>4
<1>8. /\ n \in 0 .. Len(text) /\ i - 1 \in 0 .. Len(text)
      /\ Offset(text, m) \in Nat /\ Offset(text, i - 1) \in Nat /\ Offset(text, n) \in Nat
      /\ Offset(text, m) <= Offset(text, i - 1)
      /\ Offset(text, i - 1) < Offset(text, n)
  <2>1. n \in 0 .. Len(text) /\ i - 1 \in 0 .. Len(text) /\ m <= i - 1 /\ i - 1 < n
    BY <1>3, <1>4
  <2>2. /\ Offset(text, m) \in Nat /\ Offset(text, i - 1) \in Nat /\ Offset(text, n) \in Nat
    BY <1>3, <2>1, OffsetInText
  <2>3. Offset(text, m) <= Offset(text, i - 1)
    BY <1>3, <2>1, OffsetOrdered
  <2>4. Offset(text, i - 1) < Offset(text, n)
    BY <1>3, <2>1, OffsetIncreasing
  <2> QED
    BY <2>1, <2>2, <2>3, <2>4
<1>9. w.start = Offset(text, i - 1) /\ w.start < WrapperEnd(w)
  <2>1. w.start = Offset(text, i - 1)
    BY <1>4 DEF WrapperAt
  <2> QED
    BY <1>4, <1>8, <2>1
<1>10. Decodes(run) => w \in Wrappers
  BY <1>3, <1>4, <1>7, WrapperTyped
<1> HIDE DEF w
<1>11. CASE pass = "corrupted"
  <2>1. /\ corrupted' = (corrupted \/ (HasMagic(run) /\ DecodeFrame(run, start, End - start) = {}))
        /\ found' = found
    BY <1>2, <1>11 DEF VisitForCorrupted
  <2>2. (corrupted <=> CorruptUpTo(text, m)) /\ found = <<>>
    BY <1>1, <1>11 DEF At
  <2>3. DecodeFrame(run, start, End - start) = {} <=> ~Decodes(run)
    BY <1>6
  <2>4. corrupted' <=> CorruptUpTo(text, n)
    <3>1. CorruptAt(text, i) <=> HasMagic(run) /\ ~Decodes(run)
      BY <1>7 DEF CorruptAt
    <3> QED
      BY <1>5, <2>1, <2>2, <2>3, <3>1
  <2>5. At(n)'
    BY <1>2, <1>4, <1>11, <2>1, <2>2, <2>4 DEF At
  <2>6. corrupted' \in BOOLEAN
    BY <1>3, <2>1
  <2>7. ShapeOK'
    BY <1>2, <2>1, <2>6 DEF IInv, ShapeOK
  <2>8. InOrderOfAppearance' /\ AnswersExtract'
    BY <1>2, <2>1 DEF IInv, InOrderOfAppearance, AnswersExtract
  <2>9. /\ \A l \in 1 .. Len(found') : found'[l].start < WrapperEnd(found'[l])
        /\ pass' = "locate" => ~HasCorruptedCandidate(text')
    BY <1>2, <2>1 DEF IInv
  <2>10. \E l \in 0 .. Len(text') : At(l)'
    BY <1>2, <1>8, <2>5
  <2> QED
    BY <2>7, <2>8, <2>9, <2>10 DEF IInv
<1>12. CASE pass = "locate"
  <2>1. /\ found' = IF Decodes(run)
                    THEN Append(found, CHOOSE x \in DecodeFrame(run, start, End - start) : TRUE)
                    ELSE found
        /\ corrupted' = corrupted
    BY <1>2, <1>12 DEF VisitForLocate
  <2>2. /\ {found[k] : k \in 1 .. Len(found)} = DecodedUpTo(text, m)
        /\ \A k \in 1 .. Len(found) : WrapperEnd(found[k]) <= from
        /\ from = Offset(text, m)
    BY <1>1, <1>12 DEF At, Holds
  <2>3. \A k \in 1 .. Len(found) : WrapperEnd(found[k]) \in Nat
    <3> TAKE k \in 1 .. Len(found)
    <3>1. found[k] \in Wrappers
      BY <1>3
    <3> QED
      BY <3>1 DEF WrapperEnd, Wrappers
  <2>4. \A k \in 1 .. Len(found) : WrapperEnd(found[k]) <= Offset(text, i - 1)
    <3> TAKE k \in 1 .. Len(found)
    <3>1. WrapperEnd(found[k]) \in Nat /\ WrapperEnd(found[k]) <= Offset(text, m)
      BY <2>2, <2>3
    <3>2. /\ Offset(text, m) \in Nat /\ Offset(text, i - 1) \in Nat
          /\ Offset(text, m) <= Offset(text, i - 1)
      BY <1>8
    <3> QED
      BY <3>1, <3>2
  <2>5. /\ found' \in Seq(Wrappers)
        /\ {found'[k] : k \in 1 .. Len(found')} = DecodedUpTo(text, n)
        /\ \A k \in 1 .. Len(found') : WrapperEnd(found'[k]) <= Offset(text, n)
        /\ \A k \in 1 .. Len(found') : found'[k].start < WrapperEnd(found'[k])
        /\ InOrderOfAppearance'
    <3>1. CASE ~Decodes(run)
      <4>1. found' = found
        BY <2>1, <3>1
      <4>2. DecodedUpTo(text, n) = DecodedUpTo(text, m)
        BY <1>5, <1>7, <3>1
      <4>3. \A k \in 1 .. Len(found) : WrapperEnd(found[k]) <= Offset(text, n)
        BY <1>8, <2>3, <2>4
      <4> QED
        BY <1>3, <2>2, <4>1, <4>2, <4>3 DEF IInv, InOrderOfAppearance
    <3>2. CASE Decodes(run)
      <4>1. (CHOOSE x \in {w} : TRUE) = w
        OBVIOUS
      <4>2. found' = Append(found, w)
        BY <1>6, <2>1, <3>2, <4>1
      <4>3. /\ found' \in Seq(Wrappers)
            /\ Len(found') = Len(found) + 1
            /\ \A k \in 1 .. Len(found) : found'[k] = found[k]
            /\ found'[Len(found) + 1] = w
        BY <1>3, <1>10, <3>2, <4>2, AppendedOne
      <4>4. Len(found) \in Nat
        BY <1>3
      <4>5. \A k \in 1 .. Len(found') : k \in 1 .. Len(found) \/ k = Len(found')
        BY <4>3, <4>4
      <4>6. 1 .. Len(found) \subseteq 1 .. Len(found') /\ Len(found') \in 1 .. Len(found')
        BY <4>3, <4>4
      <4>7. \A k \in 1 .. Len(found') :
              \/ k \in 1 .. Len(found) /\ found'[k] = found[k]
              \/ k = Len(found') /\ found'[k] = w
        BY <4>3, <4>5
      <4>8. {found'[k] : k \in 1 .. Len(found')} = DecodedUpTo(text, n)
        <5>1. DecodedUpTo(text, n) = DecodedUpTo(text, m) \cup {w}
          BY <1>5, <1>7, <3>2
        <5>2. {found'[k] : k \in 1 .. Len(found')} = {found[k] : k \in 1 .. Len(found)} \cup {w}
          BY <4>3, <4>6, <4>7
        <5> QED
          BY <2>2, <5>1, <5>2
      <4>9. \A k \in 1 .. Len(found') : WrapperEnd(found'[k]) <= Offset(text, n)
        <5>1. \A k \in 1 .. Len(found) : WrapperEnd(found[k]) <= Offset(text, n)
          BY <1>8, <2>3, <2>4
        <5>2. WrapperEnd(w) <= Offset(text, n)
          BY <1>4, <1>8 DEF w
        <5> QED
          BY <4>7, <5>1, <5>2
      <4>10. \A k \in 1 .. Len(found') : found'[k].start < WrapperEnd(found'[k])
        <5>1. \A k \in 1 .. Len(found) : found[k].start < WrapperEnd(found[k])
          BY DEF IInv
        <5> QED
          BY <1>9, <4>7, <5>1
      <4>11. ASSUME NEW k \in 1 .. Len(found'), NEW l \in 1 .. Len(found'), k < l
             PROVE  WrapperEnd(found'[k]) <= found'[l].start
        <5>1. k \in 1 .. Len(found) /\ found'[k] = found[k]
          BY <4>3, <4>4, <4>7, <4>11
        <5>2. CASE l \in 1 .. Len(found) /\ found'[l] = found[l]
          BY <4>11, <5>1, <5>2 DEF IInv, InOrderOfAppearance
        <5>3. CASE l = Len(found') /\ found'[l] = w
          BY <1>9, <2>4, <5>1, <5>3
        <5> QED
          BY <4>7, <5>2, <5>3
      <4> QED
        BY <4>3, <4>8, <4>9, <4>10, <4>11 DEF InOrderOfAppearance
    <3> QED
      BY <3>1, <3>2
  <2>6. Holds(n)'
    BY <1>2, <1>4, <2>5 DEF Holds
  <2>7. At(n)'
    BY <1>2, <1>4, <1>12, <2>6 DEF At
  <2>8. ShapeOK'
    BY <1>2, <2>1, <2>5 DEF IInv, ShapeOK
  <2>9. AnswersExtract'
    BY <1>2 DEF IInv, AnswersExtract
  <2>10. pass' = "locate" => ~HasCorruptedCandidate(text')
    BY <1>2 DEF IInv
  <2>11. \E l \in 0 .. Len(text') : At(l)'
    BY <1>2, <1>8, <2>7
  <2> QED
    BY <2>5, <2>8, <2>9, <2>10, <2>11 DEF IInv
<1> QED
  BY <1>2, <1>11, <1>12

\* At the end of a pass every marker has been seen.
LEMMA AllSeen ==
  ASSUME text \in Seq(Char), NEW m \in 0 .. Len(text), At(m), NoMarkerLeft
  PROVE  MarkersUpTo(text, Len(text)) = MarkersUpTo(text, m)
<1> DEFINE rest == Rest(Offset(text, m))
<1>1. /\ rest \in Seq(Char)
      /\ Len(rest) = Len(text) - m
      /\ \A k \in 1 .. Len(text) - m : rest[k] = text[m + k]
  BY RestAt
<1>2. \A k \in 1 .. Len(rest) : rest[k] # MARKER
  BY DEF At, NoMarkerLeft
<1> HIDE DEF rest
<1>3. ASSUME NEW j \in m + 1 .. Len(text)
      PROVE  text[j] # MARKER
  <2>1. j - m \in 1 .. Len(text) - m /\ m + (j - m) = j
    OBVIOUS
  <2> QED
    BY <1>1, <1>2, <2>1
<1> QED
  BY <1>3, MarkersOfRest

LEMMA EndCorruptedPassInv ==
  ASSUME IInv, EndCorruptedPass
  PROVE  IInv'
<1>1. PICK m \in 0 .. Len(text) : At(m)
  BY DEF IInv
<1>2. /\ pass = "corrupted" /\ NoMarkerLeft /\ start = None
      /\ corrupted => pass' = "done" /\ result' = Err("CorruptedWrapper")
      /\ ~corrupted => pass' = "locate" /\ result' = result
      /\ from' = 0
      /\ text' = text /\ start' = start /\ run' = run /\ consumed' = consumed
      /\ corrupted' = corrupted /\ found' = found
  BY DEF EndCorruptedPass, NoMarkerLeft
<1>3. text \in Seq(Char) /\ Len(text) \in Nat
  BY DEF IInv, ShapeOK
<1>4. (corrupted <=> CorruptUpTo(text, m)) /\ found = <<>>
  BY <1>1, <1>2 DEF At
<1>5. corrupted <=> HasCorruptedCandidate(text)
  <2>1. MarkersUpTo(text, Len(text)) = MarkersUpTo(text, m)
    BY <1>1, <1>2, <1>3, AllSeen
  <2>2. CorruptUpTo(text, Len(text)) <=> CorruptUpTo(text, m)
    BY <2>1 DEF CorruptUpTo
  <2> QED
    BY <1>3, <1>4, <2>2, SeenInAll
<1>6. At(0)'
  <2>1. Offset(text, 0) = 0
    BY <1>3, OffsetEnds
  <2>2. DecodedUpTo(text, 0) = {}
    BY DEF DecodedUpTo, MarkersUpTo
  <2>3. Len(found) = 0
    BY <1>4
  <2>4. Holds(0)'
    BY <1>2, <2>2, <2>3 DEF Holds
  <2>5. pass' # "corrupted"
    BY <1>2
  <2> QED
    BY <1>2, <2>1, <2>4, <2>5 DEF At
<1>7. ShapeOK'
  BY <1>2 DEF IInv, ShapeOK
<1>8. AnswersExtract'
  <2> SUFFICES ASSUME pass' = "done"
               PROVE  result' = Extract(text')
    BY DEF AnswersExtract
  <2>1. corrupted
    BY <1>2
  <2> QED
    BY <1>2, <1>5, <2>1 DEF Extract
<1>9. InOrderOfAppearance'
  BY <1>2 DEF IInv, InOrderOfAppearance
<1>10. /\ \A l \in 1 .. Len(found') : found'[l].start < WrapperEnd(found'[l])
       /\ pass' = "locate" => ~HasCorruptedCandidate(text')
  BY <1>2, <1>5 DEF IInv
<1>11. \E l \in 0 .. Len(text') : At(l)'
  BY <1>2, <1>3, <1>6
<1> QED
  BY <1>7, <1>8, <1>9, <1>10, <1>11 DEF IInv

LEMMA EndLocatePassInv ==
  ASSUME IInv, EndLocatePass
  PROVE  IInv'
<1>1. PICK m \in 0 .. Len(text) : At(m)
  BY DEF IInv
<1>2. /\ pass = "locate" /\ NoMarkerLeft /\ start = None
      /\ pass' = "done"
      /\ text' = text /\ from' = from /\ start' = start /\ run' = run
      /\ consumed' = consumed /\ corrupted' = corrupted /\ found' = found
  BY DEF EndLocatePass, NoMarkerLeft
<1>0. result' = CASE Len(found) = 1 -> Ok(found[1])
                  [] Len(found) = 0 -> Err("NotFound")
                  [] OTHER          -> Err("MultipleWrappers")
  BY Zenon DEF EndLocatePass
<1>3. text \in Seq(Char) /\ Len(text) \in Nat /\ Len(found) \in Nat
  BY DEF IInv, ShapeOK
<1>4. {found[k] : k \in 1 .. Len(found)} = LocateAll(text)
  <2>1. {found[k] : k \in 1 .. Len(found)} = DecodedUpTo(text, m)
    BY <1>1, <1>2 DEF At, Holds
  <2>2. MarkersUpTo(text, Len(text)) = MarkersUpTo(text, m)
    BY <1>1, <1>2, <1>3, AllSeen
  <2>3. DecodedUpTo(text, Len(text)) = DecodedUpTo(text, m)
    BY <2>2 DEF DecodedUpTo
  <2> QED
    BY <1>3, <2>1, <2>3, SeenInAll
<1>5. ~HasCorruptedCandidate(text)
  BY <1>2 DEF IInv
<1>6. result' = Extract(text)
  <2>1. CASE Len(found) = 0
    <3>1. LocateAll(text) = {}
      BY <1>4, <2>1
    <3>2. result' = Err("NotFound")
      BY <1>0, <2>1
    <3> QED
      BY <1>5, <3>1, <3>2 DEF Extract
  <2>2. CASE Len(found) = 1
    <3>1. LocateAll(text) = {found[1]}
      BY <1>4, <2>2
    <3>2. result' = Ok(found[1])
      BY <1>0, <2>2
    <3>3. (CHOOSE w \in {found[1]} : TRUE) = found[1]
      OBVIOUS
    <3> QED
      BY <1>5, <3>1, <3>2, <3>3 DEF Extract
  <2>3. CASE Len(found) # 0 /\ Len(found) # 1
    <3>1. 1 \in 1 .. Len(found) /\ 2 \in 1 .. Len(found) /\ 1 < 2
      <4>1. Len(found) >= 2
        <5> DEFINE l == Len(found)
        <5>1. l \in Nat /\ l # 0 /\ l # 1
          BY <1>3, <2>3
        <5> HIDE DEF l
        <5>2. l >= 2
          BY <5>1
        <5> QED
          BY <5>2 DEF l
      <4>2. Len(found) \in Nat
        BY <1>3
      <4>3. 1 \in 1 .. Len(found) /\ 2 \in 1 .. Len(found)
        BY <4>1, <4>2
      <4> QED
        BY <4>3
    <3>2. /\ found[1].start < WrapperEnd(found[1])
          /\ WrapperEnd(found[1]) <= found[2].start
      BY <3>1 DEF IInv, InOrderOfAppearance
    <3>3. found[1] \in Wrappers /\ found[2] \in Wrappers
      BY <3>1 DEF IInv, ShapeOK
    <3>4. found[1].start \in Nat /\ found[2].start \in Nat /\ WrapperEnd(found[1]) \in Nat
      BY <3>3 DEF Wrappers, WrapperEnd
    <3>5. found[1] # found[2]
      BY <3>2, <3>4
    <3>6. found[1] \in LocateAll(text) /\ found[2] \in LocateAll(text)
      BY <1>4, <3>1
    <3>7. LocateAll(text) # {} /\ ~ \E w \in LocateAll(text) : LocateAll(text) = {w}
      BY <3>5, <3>6
    <3>8. result' = Err("MultipleWrappers")
      BY <1>0, <2>3, Zenon
    <3> QED
      BY <1>5, <3>7, <3>8 DEF Extract
  <2> QED
    BY <2>1, <2>2, <2>3
<1>7. At(m)'
  <2>1. from = Offset(text, m)
    BY <1>1 DEF At
  <2> QED
    BY <1>2, <2>1 DEF At
<1>8. ShapeOK'
  BY <1>2 DEF IInv, ShapeOK
<1>9. InOrderOfAppearance' /\ AnswersExtract'
  BY <1>2, <1>6 DEF IInv, InOrderOfAppearance, AnswersExtract
<1>10. /\ \A l \in 1 .. Len(found') : found'[l].start < WrapperEnd(found'[l])
       /\ pass' = "locate" => ~HasCorruptedCandidate(text')
  BY <1>2 DEF IInv
<1>11. \E l \in 0 .. Len(text') : At(l)'
  BY <1>2, <1>7
<1> QED
  BY <1>8, <1>9, <1>10, <1>11 DEF IInv

LEMMA NextInv == IInv /\ [Next]_vars => IInv'
<1> SUFFICES ASSUME IInv, [Next]_vars
             PROVE  IInv'
  OBVIOUS
<1>1. CASE Next
  BY <1>1, FindMarkerInv, DecodeSelectorInv, EndRunInv, EndCorruptedPassInv,
     EndLocatePassInv DEF Next
<1>2. CASE UNCHANGED vars
  <2>1. /\ text' = text /\ pass' = pass /\ from' = from /\ start' = start /\ run' = run
        /\ consumed' = consumed /\ corrupted' = corrupted /\ found' = found
        /\ result' = result
    BY <1>2 DEF vars
  <2>2. ShapeOK'
    BY <2>1 DEF IInv, ShapeOK
  <2>3. PICK m \in 0 .. Len(text) : At(m)
    BY DEF IInv
  <2>4. At(m)'
    <3>1. End' = End
      BY <2>1 DEF End, RunStart
    <3>2. ASSUME NEW i, NEW n
          PROVE  Reading(m, i, n)' <=> Reading(m, i, n)
      BY <2>1, <3>1 DEF Reading
    <3>3. Holds(m)' <=> Holds(m)
      BY <2>1 DEF Holds
    <3> QED
      BY <2>1, <2>3, <3>2, <3>3 DEF At
  <2>5. InOrderOfAppearance' /\ AnswersExtract'
    BY <2>1 DEF IInv, InOrderOfAppearance, AnswersExtract
  <2>6. /\ \A l \in 1 .. Len(found') : found'[l].start < WrapperEnd(found'[l])
        /\ pass' = "locate" => ~HasCorruptedCandidate(text')
        /\ \E l \in 0 .. Len(text') : At(l)'
    BY <2>1, <2>4 DEF IInv
  <2> QED
    BY <2>2, <2>5, <2>6 DEF IInv
<1> QED
  BY <1>1, <1>2

-----------------------------------------------------------------------------
(* Theorems *)

\* IInv is an invariant of Spec.
LEMMA Invariance == Spec => []IInv
<1>1. Init => IInv
  BY InitInv
<1>2. IInv /\ [Next]_vars => IInv'
  BY NextInv
<1> QED
  BY <1>1, <1>2, PTL DEF Spec

\* Where the passes stand: what they have come to and what they read are the
\* ends of characters.
LEMMA OffsetsPlaced ==
  ASSUME IInv
  PROVE  /\ text \in Seq(Char)
         /\ \E m \in 0 .. Len(text) : from = Offset(text, m)
         /\ start # None =>
              /\ \E i \in 0 .. Len(text) : start = Offset(text, i)
              /\ \E n \in 0 .. Len(text) : End = Offset(text, n)
<1>1. text \in Seq(Char) /\ Len(text) \in Nat
  BY DEF IInv, ShapeOK
<1>2. PICK m \in 0 .. Len(text) : At(m)
  BY DEF IInv
<1>3. ASSUME start # None
      PROVE  /\ \E i \in 0 .. Len(text) : start = Offset(text, i)
             /\ \E n \in 0 .. Len(text) : End = Offset(text, n)
  <2>1. PICK i \in 1 .. Len(text), n \in 1 .. Len(text) : Reading(m, i, n)
    BY <1>2, <1>3 DEF At
  <2>2. start = Offset(text, i - 1) /\ End = Offset(text, n)
    BY <2>1 DEF Reading
  <2>3. i - 1 \in 0 .. Len(text) /\ n \in 0 .. Len(text)
    BY <1>1
  <2> QED
    BY <2>2, <2>3
<1>4. from = Offset(text, m)
  BY <1>2 DEF At
<1> QED
  BY <1>1, <1>3, <1>4

\* The offsets of a pass never leave the text, and what it collects are bytes and
\* wrappers of one version.
THEOREM TypeCorrect == Spec => []TypeOK
<1>1. ASSUME IInv
      PROVE  TypeOK
  <2>1. PICK m \in 0 .. Len(text) : from = Offset(text, m)
    BY <1>1, OffsetsPlaced
  <2>2. from \in 0 .. ByteLen(text)
    BY <1>1, <2>1, OffsetInText DEF IInv, ShapeOK
  <2> QED
    BY <1>1, <2>2 DEF IInv, ShapeOK, TypeOK
<1> QED
  BY <1>1, Invariance, PTL

\* No slice that scan or decode_run takes cuts a character, whatever mix of
\* two-, three- and four-byte characters runs and host text are made of: the
\* search resumes, and the run is read, at the end of a character.
THEOREM NeverCutsACharacter == Spec => []SlicesOnBoundaries
<1>1. ASSUME IInv
      PROVE  SlicesOnBoundaries
  BY <1>1, OffsetsPlaced, CharsBeforeOffset DEF SlicesOnBoundaries
<1> QED
  BY <1>1, Invariance, PTL

\* The two passes of extract, run character by character, answer what the
\* operator Extract says of the whole text: the form in which every statement
\* about an asset uses it.
THEOREM PassesAnswerExtract == Spec => []AnswersExtract
<1>1. IInv => AnswersExtract
  BY DEF IInv
<1> QED
  BY <1>1, Invariance, PTL

\* locate_all reports the wrappers in the order they stand in, and none reaches
\* into the next: the ranges are exclusions apply_exclusions would accept.
THEOREM WrappersInOrder == Spec => []InOrderOfAppearance
<1>1. IInv => InOrderOfAppearance
  BY DEF IInv
<1> QED
  BY <1>1, Invariance, PTL

\* decode_exact and decode_run agree on every rest of the text the scan comes
\* to: one rejects exactly what the other does not read to its end.
THEOREM DecodersNeverDisagree == Spec => []DecodersAgree
<1>1. ASSUME IInv
      PROVE  DecodersAgree
  <2>1. PICK m \in 0 .. Len(text) : from = Offset(text, m)
    BY <1>1, OffsetsPlaced
  <2>2. Rest(from) \in Seq(Char)
    BY <1>1, <2>1, OffsetsPlaced, RestAt
  <2> QED
    BY <2>2, DecodersOnText DEF DecodersAgree
<1> QED
  BY <1>1, Invariance, PTL

-----------------------------------------------------------------------------
(* Why the passes end *)

\* Where a pass has come to never lies behind the text; a run it reads begins
\* where the find started or later, and was read up to its end.
Placed ==
  /\ ByteLen(text) \in Nat
  /\ pass \in {"corrupted", "locate", "done"}
  /\ from \in Nat /\ from <= ByteLen(text)
  /\ Reached \in Nat /\ Reached <= ByteLen(text)
  /\ consumed \in Nat
  /\ start # None => start \in Nat /\ from < End /\ RunStart <= End

LEMMA PlacedInText == IInv => Placed
<1> SUFFICES ASSUME IInv
             PROVE  Placed
  OBVIOUS
<1>1. PICK m \in 0 .. Len(text) : At(m)
  BY DEF IInv
<1>2. /\ text \in Seq(Char) /\ Len(text) \in Nat /\ pass \in {"corrupted", "locate", "done"}
      /\ consumed \in 0 .. ByteLen(text) /\ start \in {None} \cup 0 .. ByteLen(text)
  BY DEF IInv, ShapeOK
<1>3. from = Offset(text, m)
  BY <1>1 DEF At
<1>4. from \in 0 .. ByteLen(text) /\ ByteLen(text) \in Nat
  BY <1>2, <1>3, OffsetInText
<1>5. ASSUME start # None
      PROVE  /\ start \in Nat /\ from < End /\ RunStart <= End
             /\ End \in Nat /\ End <= ByteLen(text)
  <2>1. PICK i \in 1 .. Len(text), n \in 1 .. Len(text) : Reading(m, i, n)
    BY <1>1, <1>5 DEF At
  <2>2. m < i /\ start = Offset(text, i - 1) /\ End = Offset(text, n)
    BY <2>1 DEF Reading
  <2>3. i - 1 \in 0 .. Len(text) /\ n \in 0 .. Len(text) /\ m <= i - 1
    BY <1>2, <2>2
  <2>4. from <= start
    BY <1>2, <1>3, <2>2, <2>3, OffsetOrdered
  <2>5. End \in 0 .. ByteLen(text)
    BY <1>2, <2>2, <2>3, OffsetInText
  <2>6. start \in Nat /\ consumed \in Nat
    BY <1>2, <1>4, <1>5
  <2>7. RunStart = start + 3 /\ End = RunStart + consumed
    BY MarkerProperties DEF RunStart, End
  <2> QED
    BY <1>4, <2>4, <2>5, <2>6, <2>7
<1> QED
  BY <1>2, <1>4, <1>5 DEF Placed, Reached

\* What is left is a number, more of it the more passes are to come.
LEMMA StepsLeftOf ==
  ASSUME Placed
  PROVE  LET left == 2 * (ByteLen(text) - Reached) + (IF start = None THEN 0 ELSE 1)
         IN  /\ StepsLeft \in Nat
             /\ left \in Nat
             /\ pass = "corrupted" => StepsLeft = 4 * ByteLen(text) + 4 + left
             /\ pass = "locate"    => StepsLeft = 2 * ByteLen(text) + 2 + left
             /\ pass = "done"      => StepsLeft = left
<1> DEFINE b    == ByteLen(text)
           left == 2 * (b - Reached) + (IF start = None THEN 0 ELSE 1)
<1>1. b \in Nat /\ Reached \in Nat /\ Reached <= b /\ pass \in {"corrupted", "locate", "done"}
  BY DEF Placed
<1>2. /\ pass = "corrupted" => PassesLeft = 2
      /\ pass = "locate"    => PassesLeft = 1
      /\ pass = "done"      => PassesLeft = 0
  BY DEF PassesLeft
<1>3. StepsLeft = PassesLeft * (2 * b + 2) + 2 * (b - Reached) + (IF start = None THEN 0 ELSE 1)
  BY DEF StepsLeft
<1> HIDE DEF b
<1>4. left \in Nat
  BY <1>1
<1>5. pass = "corrupted" => StepsLeft = 4 * b + 4 + left
  BY <1>1, <1>2, <1>3
<1>6. pass = "locate" => StepsLeft = 2 * b + 2 + left
  BY <1>1, <1>2, <1>3
<1>7. pass = "done" => StepsLeft = left
  BY <1>1, <1>2, <1>3
<1>8. StepsLeft \in Nat
  <2> HIDE DEF left
  <2> QED
    BY <1>1, <1>4, <1>5, <1>6, <1>7
<1> QED
  BY <1>4, <1>5, <1>6, <1>7, <1>8 DEF b

\* The facts of a state hold of the next one.
LEMMA StepsLeftNext == Placed' =>
  LET left == 2 * (ByteLen(text) - Reached) + (IF start = None THEN 0 ELSE 1)
  IN  /\ StepsLeft' \in Nat
      /\ pass' = "corrupted" => StepsLeft' = 4 * ByteLen(text') + 4 + left'
      /\ pass' = "locate"    => StepsLeft' = 2 * ByteLen(text') + 2 + left'
      /\ pass' = "done"      => StepsLeft' = left'
<1> DEFINE left  == 2 * (ByteLen(text) - Reached) + (IF start = None THEN 0 ELSE 1)
           Shape == /\ StepsLeft \in Nat
                    /\ pass = "corrupted" => StepsLeft = 4 * ByteLen(text) + 4 + left
                    /\ pass = "locate"    => StepsLeft = 2 * ByteLen(text) + 2 + left
                    /\ pass = "done"      => StepsLeft = left
<1>1. Placed => Shape
  BY StepsLeftOf
<1> HIDE DEF Shape
<1>2. Placed' => Shape'
  BY <1>1, PTL
<1> QED
  BY <1>2 DEF Shape

\* Within a pass a step comes nearer if it reads on, or if it closes a run.
LEMMA NearerInPass ==
  ASSUME Placed, Placed', text' = text, pass' = pass,
         \/ Reached' > Reached
         \/ Reached' = Reached /\ start # None /\ start' = None
  PROVE  StepsLeft' \in Nat /\ StepsLeft' < StepsLeft
<1> DEFINE b     == ByteLen(text)
           left  == 2 * (b - Reached) + (IF start = None THEN 0 ELSE 1)
           left2 == 2 * (b - Reached') + (IF start' = None THEN 0 ELSE 1)
<1>1. /\ StepsLeft \in Nat /\ left \in Nat
      /\ pass = "corrupted" => StepsLeft = 4 * b + 4 + left
      /\ pass = "locate"    => StepsLeft = 2 * b + 2 + left
      /\ pass = "done"      => StepsLeft = left
  BY StepsLeftOf
<1>2. /\ StepsLeft' \in Nat
      /\ pass = "corrupted" => StepsLeft' = 4 * b + 4 + left2
      /\ pass = "locate"    => StepsLeft' = 2 * b + 2 + left2
      /\ pass = "done"      => StepsLeft' = left2
  BY StepsLeftNext
<1>3. /\ b \in Nat /\ Reached \in Nat /\ Reached' \in Nat
      /\ pass \in {"corrupted", "locate", "done"}
  BY DEF Placed
<1> HIDE DEF b
<1>4. left2 \in Int /\ left2 < left
  <2> DEFINE x == Reached
             y == Reached'
  <2>1. left2 = 2 * (b - y) + (IF start' = None THEN 0 ELSE 1)
    OBVIOUS
  <2>2. y \in Nat /\ (y > x \/ (y = x /\ start # None /\ start' = None))
    BY <1>3
  <2>3. left = 2 * (b - x) + (IF start = None THEN 0 ELSE 1) /\ x \in Nat
    BY <1>3
  <2> HIDE DEF x, y, left, left2
  <2> QED
    BY <1>3, <2>1, <2>2, <2>3
<1> HIDE DEF left, left2
<1> QED
  BY <1>1, <1>2, <1>3, <1>4

LEMMA FindMarkerNearer ==
  ASSUME IInv, Placed, Placed', FindMarker
  PROVE  StepsLeft' \in Nat /\ StepsLeft' < StepsLeft
<1> DEFINE rest == Rest(from)
<1>1. /\ start = None /\ text' = text /\ pass' = pass /\ from' = from
  BY DEF FindMarker
<1>2. PICK i \in 1 .. Len(rest) : start' = from + Offset(rest, i - 1)
  BY DEF FindMarker
<1>3. PICK m \in 0 .. Len(text) : from = Offset(text, m)
  BY OffsetsPlaced
<1>4. rest \in Seq(Char)
  BY <1>3, RestAt DEF IInv, ShapeOK
<1> HIDE DEF rest
<1>5. start' # None
  <2>1. i - 1 \in 0 .. Len(rest)
    BY <1>4
  <2>2. Offset(rest, i - 1) \in Nat
    BY <1>4, <2>1, OffsetInText
  <2>3. from \in Nat
    BY DEF Placed
  <2> QED
    BY <1>2, <2>2, <2>3 DEF None
<1>6. Reached' > Reached
  <2>1. Reached = from /\ Reached' = End'
    BY <1>1, <1>5 DEF Reached
  <2>2. from' < End'
    BY <1>5 DEF Placed
  <2>3. from \in Nat /\ Reached' \in Nat
    BY DEF Placed
  <2> QED
    BY <1>1, <2>1, <2>2, <2>3
<1> QED
  BY <1>1, <1>6, NearerInPass

LEMMA DecodeSelectorNearer ==
  ASSUME Placed, Placed', DecodeSelector
  PROVE  StepsLeft' \in Nat /\ StepsLeft' < StepsLeft
<1> DEFINE c == Head(Rest(End))
<1>1. /\ start # None /\ text' = text /\ pass' = pass /\ start' = start
      /\ consumed' = consumed + LenUtf8(c)
  BY DEF DecodeSelector
<1>2. LenUtf8(c) \in 1 .. 4
  BY LenUtf8Range
<1> HIDE DEF c
<1>3. Reached' > Reached
  <2>1. /\ Reached = start + LenUtf8(MARKER) + consumed
        /\ Reached' = start' + LenUtf8(MARKER) + consumed'
    BY <1>1 DEF Reached, End, RunStart
  <2>2. start \in Nat /\ consumed \in Nat
    BY <1>1 DEF Placed
  <2> QED
    BY <1>1, <1>2, <2>1, <2>2, MarkerProperties
<1> QED
  BY <1>1, <1>3, NearerInPass

LEMMA EndRunNearer ==
  ASSUME Placed, Placed', EndRun
  PROVE  StepsLeft' \in Nat /\ StepsLeft' < StepsLeft
<1>1. /\ start # None /\ text' = text /\ pass' = pass /\ start' = None
      /\ from' = Resume(End, RunStart)
  BY DEF EndRun
<1>2. RunStart <= End
  BY <1>1 DEF Placed
<1>3. End >= RunStart
  <2>1. Reached = End /\ start \in Nat /\ consumed \in Nat
    BY <1>1 DEF Reached, Placed
  <2>2. RunStart = start + 3 /\ End = RunStart + consumed
    BY MarkerProperties DEF RunStart, End
  <2> QED
    BY <2>1, <2>2
<1>4. Reached' = Reached
  BY <1>1, <1>3 DEF Reached, Resume
<1> QED
  BY <1>1, <1>4, NearerInPass

LEMMA EndPassNearer ==
  ASSUME Placed, Placed', EndCorruptedPass \/ EndLocatePass
  PROVE  StepsLeft' \in Nat /\ StepsLeft' < StepsLeft
<1> DEFINE b     == ByteLen(text)
           left  == 2 * (b - Reached) + (IF start = None THEN 0 ELSE 1)
           left2 == 2 * (b - Reached') + (IF start' = None THEN 0 ELSE 1)
<1>1. /\ start = None /\ text' = text /\ start' = start
      /\ \/ pass = "corrupted" /\ pass' \in {"locate", "done"}
         \/ pass = "locate" /\ pass' = "done"
  BY DEF EndCorruptedPass, EndLocatePass, NoMarkerLeft
<1>2. /\ StepsLeft \in Nat /\ left \in Nat
      /\ pass = "corrupted" => StepsLeft = 4 * b + 4 + left
      /\ pass = "locate"    => StepsLeft = 2 * b + 2 + left
  BY StepsLeftOf
<1>3. /\ StepsLeft' \in Nat
      /\ pass' = "locate" => StepsLeft' = 2 * b + 2 + left2
      /\ pass' = "done"   => StepsLeft' = left2
  BY <1>1, StepsLeftNext
<1>4. b \in Nat /\ Reached' \in Nat /\ start' = None
  BY <1>1 DEF Placed
<1> HIDE DEF b
<1>5. left2 \in Int /\ left2 <= 2 * b
  <2> DEFINE y == Reached'
  <2>1. left2 = 2 * (b - y) /\ y \in Nat
    BY <1>4
  <2> HIDE DEF y, left2
  <2> QED
    BY <1>4, <2>1
<1> HIDE DEF left, left2
<1> QED
  BY <1>1, <1>2, <1>3, <1>4, <1>5

\* However long the text and whatever markers and runs it holds, extract begins
\* with at most six steps for a byte of it and four more to come, every step
\* leaves fewer, and never less than none: neither pass goes on for ever.
THEOREM PassesRunOut == Spec => StepsLeft = 6 * ByteLen(text) + 4 /\ StepsRunOut
<1>1. IInv => Placed
  BY PlacedInText
<1>2. Init => StepsLeft = 6 * ByteLen(text) + 4
  <2> SUFFICES ASSUME Init
               PROVE  StepsLeft = 6 * ByteLen(text) + 4
    OBVIOUS
  <2>1. pass = "corrupted" /\ from = 0 /\ start = None
    BY DEF Init
  <2>2. Placed
    BY <1>1, InitInv
  <2>3. StepsLeft = 4 * ByteLen(text) + 4
                      + (2 * (ByteLen(text) - Reached) + (IF start = None THEN 0 ELSE 1))
    BY <2>1, <2>2, StepsLeftOf
  <2>4. Reached = 0 /\ ByteLen(text) \in Nat
    BY <2>1, <2>2 DEF Reached, Placed
  <2> QED
    BY <2>1, <2>3, <2>4
<1>3. IInv /\ Placed /\ Placed' /\ Next => StepsLeft' \in Nat /\ StepsLeft' < StepsLeft
  BY FindMarkerNearer, DecodeSelectorNearer, EndRunNearer, EndPassNearer DEF Next
<1>4. IInv /\ Placed /\ Placed' /\ [Next]_vars
        => [StepsLeft' \in Nat /\ StepsLeft' < StepsLeft]_vars
  BY <1>3
<1> QED
  BY <1>1, <1>2, <1>4, Invariance, PTL DEF Spec, StepsRunOut
=============================================================================
