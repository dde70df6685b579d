---------------------------- MODULE SessionProofs ----------------------------
(***************************************************************************)
(* What None and a missing status code mean to the hosts of the bindings,  *)
(* for every session, text, manifest, digest, normaliser and width of      *)
(* usize, in builds that trap and in builds that wrap.                     *)
(***************************************************************************)
EXTENDS Session, HardBindingProofs, FiniteSetTheorems

-----------------------------------------------------------------------------
(* Outcomes *)

\* A call returns, raises or panics, and the three can be told apart.
LEMMA Outcomes ==
  /\ \A v : HasReturned(Returns(v)) /\ ~HasRaised(Returns(v)) /\ Returns(v).returns = v
  /\ \A e : /\ HasRaised(Raises(e)) /\ ~HasReturned(Raises(e))
            /\ Raises(e).raises = e /\ Raises(e).code = Code(e)
  /\ ~HasReturned(Panics) /\ ~HasRaised(Panics)
<1>1. \A v : DOMAIN Returns(v) = {"returns"} /\ Returns(v).returns = v
  BY DEF Returns
<1>2. \A e : /\ DOMAIN Raises(e) = {"raises", "code"}
             /\ Raises(e).raises = e /\ Raises(e).code = Code(e)
  BY DEF Raises
<1>3. DOMAIN Panics = {"panics"}
  BY DEF Panics
<1>4. /\ "returns" \notin {"raises", "code"} /\ "raises" \notin {"returns"}
      /\ "returns" \notin {"panics"} /\ "raises" \notin {"panics"}
  OBVIOUS
<1> QED
  BY <1>1, <1>2, <1>3, <1>4 DEF HasReturned, HasRaised

\* Both languages map a Result in the same way.
LEMMA Mapped ==
  ASSUME NEW r
  PROVE  /\ IsOk(r) => PyMapErr(r) = Returns(r.ok) /\ JsErr(r) = Returns(r.ok)
         /\ ~IsOk(r) => PyMapErr(r) = Raises(r.err) /\ JsErr(r) = Raises(r.err)
BY DEF PyMapErr, JsErr

LEMMA Results ==
  /\ \A v : IsOk(Ok(v)) /\ Ok(v).ok = v
  /\ \A v : ~IsOk(Err(v)) /\ Err(v).err = v
<1>1. \A v : DOMAIN Ok(v) = {"ok"} /\ Ok(v).ok = v
  BY DEF Ok
<1>2. \A v : DOMAIN Err(v) = {"err"} /\ Err(v).err = v
  BY DEF Err
<1>3. "ok" # "err"
  OBVIOUS
<1> QED
  BY <1>1, <1>2, <1>3 DEF IsOk

\* The codes of the errors a reader of a text meets.
LEMMA Codes ==
  /\ Code("NotFound") = NoCode
  /\ \A e \in {"CorruptedWrapper", "MultipleWrappers", "MalformedExclusion"} :
       Code(e) # NoCode /\ e # "NotFound"
BY DEF Code, NoCode

LEMMA ExtractAnswers ==
  ASSUME NEW s
  PROVE  \/ Extract(s) \in {Err("NotFound"), Err("CorruptedWrapper"), Err("MultipleWrappers")}
         \/ IsOk(Extract(s)) /\ Extract(s).ok \in LocateAll(s)
<1>1. IsOk(Extract(s)) => Extract(s).ok \in LocateAll(s)
  BY ExtractedIsLocated
<1>2. \/ Extract(s) \in {Err("NotFound"), Err("CorruptedWrapper"), Err("MultipleWrappers")}
      \/ \E w : Extract(s) = Ok(w)
  BY DEF Extract
<1> QED
  BY <1>1, <1>2, Results

\* A located wrapper is an object of four fields, and None is not.
LEMMA LocatedIsNotNone ==
  ASSUME NEW s, NEW w \in LocateAll(s)
  PROVE  /\ Returns(w) # Returns(None)
         /\ HasReturned(AsObject(Returns(w))) /\ ~HasRaised(AsObject(Returns(w)))
         /\ AsObject(Returns(w)) # Returns(None)
<1>1. PICK v \in Scan(s) : w \in DecodeFrame(v.run, v.start, v.length)
  BY DEF LocateAll
<1>2. DOMAIN w = {"payload", "version", "start", "length"}
  BY <1>1 DEF DecodeFrame
<1>3. DOMAIN None = {"none"} /\ "payload" # "none"
  BY DEF None
<1>4. w # None
  BY <1>2, <1>3
<1> DEFINE object == [w EXCEPT !.start = AsU32(@), !.length = AsU32(@)]
<1>5. AsObject(Returns(w)) = Returns(object)
  BY Outcomes DEF AsObject
<1>6. DOMAIN object = DOMAIN w
  OBVIOUS
<1>7. AsObject(Returns(w)).returns = object
  <2> HIDE DEF object
  <2> QED
    BY <1>5, Outcomes
<1>8. AsObject(Returns(w)).returns # None
  <2> HIDE DEF object
  <2> QED
    BY <1>2, <1>3, <1>6, <1>7
<1>9. Returns(w).returns = w /\ Returns(None).returns = None
  BY Outcomes
<1>10. HasReturned(AsObject(Returns(w))) /\ ~HasRaised(AsObject(Returns(w)))
  <2> HIDE DEF object
  <2> QED
    BY <1>5, Outcomes
<1> QED
  BY <1>4, <1>8, <1>9, <1>10

\* None for exactly the texts without a signature, a code with every exception.
LEMMA ExtractOutcome ==
  ASSUME NEW s \in Seq(Char), NEW o \in {PyExtract(s), JsExtract(s)}
  PROVE  /\ o = Returns(None) <=> ~Occurs(Signature, s)
         /\ HasRaised(o) => o.code # NoCode
<1>1. CASE Extract(s) = Err("NotFound")
  <2>1. o = Returns(None)
    BY <1>1 DEF PyExtract, JsExtract
  <2>2. ~Occurs(Signature, s)
    BY <1>1, NotFoundIffNoSignature
  <2> QED
    BY <2>1, <2>2, Outcomes
<1>2. ASSUME NEW e \in {"CorruptedWrapper", "MultipleWrappers"}, Extract(s) = Err(e)
      PROVE  /\ o = Returns(None) <=> ~Occurs(Signature, s)
             /\ HasRaised(o) => o.code # NoCode
  <2>1. Extract(s) # Err("NotFound")
    BY <1>2, Results, Codes
  <2>2. AsObject(Raises(e)) = Raises(e)
    BY Outcomes DEF AsObject
  <2>3. o = Raises(e)
    BY <1>2, <2>1, <2>2, Results, Mapped DEF PyExtract, JsExtract
  <2>4. Occurs(Signature, s)
    BY <2>1, NotFoundIffNoSignature
  <2>5. Raises(e) # Returns(None)
    BY Outcomes
  <2> QED
    BY <2>3, <2>4, <2>5, Outcomes, Codes
<1>3. CASE IsOk(Extract(s)) /\ Extract(s).ok \in LocateAll(s)
  <2> DEFINE w == Extract(s).ok
  <2>1. Extract(s) # Err("NotFound")
    BY <1>3, Results
  <2>2. o \in {Returns(w), AsObject(Returns(w))}
    BY <1>3, <2>1, Mapped DEF PyExtract, JsExtract
  <2>3. ~HasRaised(o) /\ o # Returns(None)
    BY <1>3, <2>2, LocatedIsNotNone, Outcomes
  <2>4. Occurs(Signature, s)
    BY <2>1, NotFoundIffNoSignature
  <2> QED
    BY <2>3, <2>4
<1> QED
  BY <1>1, <1>2, <1>3, ExtractAnswers

\* compute_data_hash fails with what extract says, or because the normalised
\* rest cannot be had.
LEMMA ComputeAnswers ==
  ASSUME NEW s, NEW alg, ~IsOk(ComputeDataHash(s, alg))
  PROVE  \/ ~IsOk(Extract(s)) /\ ComputeDataHash(s, alg) = Extract(s)
         \/ IsOk(Extract(s)) /\ ComputeDataHash(s, alg) = Err("MalformedExclusion")
<1>1. /\ ~IsOk(Extract(s)) => ManifestExclusion(s) = Extract(s)
      /\ IsOk(Extract(s)) => ManifestExclusion(s) = Ok(RangeOf(Extract(s).ok))
  BY DEF ManifestExclusion
<1>2. CASE ~IsOk(Extract(s))
  BY <1>1, <1>2 DEF ComputeDataHash
<1>3. CASE IsOk(Extract(s))
  <2> DEFINE covered == HashedBytes(s, <<ManifestExclusion(s).ok>>)
             answer == ComputeDataHash(s, alg)
  <2>1. IsOk(ManifestExclusion(s))
    BY <1>1, <1>3, Results
  <2>2. ~IsOk(covered) => answer = covered
    BY <2>1 DEF ComputeDataHash
  <2>3. IsOk(covered) => \E v : answer = Ok(v)
    BY <2>1 DEF ComputeDataHash
  <2>4. covered = Err("MalformedExclusion") \/ IsOk(covered)
    BY Results DEF HashedBytes, ApplyExclusions
  <2> HIDE DEF covered, answer
  <2>5. answer = Err("MalformedExclusion")
    <3>1. ~IsOk(answer)
      BY DEF answer
    <3> QED
      BY <2>2, <2>3, <2>4, <3>1, Results
  <2> QED
    BY <1>3, <2>5 DEF answer
<1> QED
  BY <1>2, <1>3

\* An object made of a DataHash is not an exception.
LEMMA ConvertedReturns ==
  ASSUME NEW v
  PROVE  ~HasRaised(AsDict(Returns(v))) /\ ~HasRaised(AsBinding(Returns(v)))
<1>1. HasReturned(Returns(v)) /\ Returns(v).returns = v
  BY Outcomes
<1> DEFINE dict   == [v EXCEPT !.exclusions = AsPairs(@)]
           object == [v EXCEPT !.exclusions = AsU32Ranges(@)]
<1>2. AsDict(Returns(v)) = Returns(dict)
  BY <1>1 DEF AsDict
<1>3. AsBinding(Returns(v)) = Returns(object)
  BY <1>1 DEF AsBinding
<1> HIDE DEF dict, object
<1> QED
  BY <1>2, <1>3, Outcomes

\* The exception of compute has no code exactly if there is nothing to bind.
LEMMA ComputeOutcome ==
  ASSUME NEW s \in Seq(Char), NEW alg,
         NEW o \in {PyComputeDataHash(s, alg), JsComputeDataHash(s, alg)},
         HasRaised(o), o.raises # "UnsupportedAlgorithm"
  PROVE  /\ o.code = NoCode <=> ~Occurs(Signature, s)
         /\ IsNoManifestLocated(o.raises) <=> o.code = NoCode
<1> DEFINE r == ComputeDataHash(s, alg)
<1>1. IsOk(FromId(alg))
  <2>1. ~IsOk(FromId(alg)) => FromId(alg) = Err("UnsupportedAlgorithm")
    BY Results DEF FromId
  <2>2. ~IsOk(FromId(alg)) => /\ PyAlgorithm(alg) = Raises("UnsupportedAlgorithm")
                              /\ JsAlgorithm(alg) = Raises("UnsupportedAlgorithm")
    BY <2>1, Results, Mapped DEF PyAlgorithm, JsAlgorithm
  <2>3. ~IsOk(FromId(alg)) => o = Raises("UnsupportedAlgorithm")
    BY <2>2, Outcomes DEF PyComputeDataHash, JsComputeDataHash
  <2> QED
    BY <2>3, Outcomes
<1>2. HasReturned(PyAlgorithm(alg)) /\ HasReturned(JsAlgorithm(alg))
  BY <1>1, Mapped, Outcomes DEF PyAlgorithm, JsAlgorithm
<1>3. o \in {AsDict(PyMapErr(r)), AsBinding(JsErr(r))}
  BY <1>2 DEF PyComputeDataHash, JsComputeDataHash
<1> HIDE DEF r
<1>4. ~IsOk(r)
  BY <1>3, Mapped, ConvertedReturns
<1>5. o = Raises(r.err)
  <2>1. PyMapErr(r) = Raises(r.err) /\ JsErr(r) = Raises(r.err)
    BY <1>4, Mapped
  <2>2. AsDict(Raises(r.err)) = Raises(r.err) /\ AsBinding(Raises(r.err)) = Raises(r.err)
    BY Outcomes DEF AsDict, AsBinding
  <2> QED
    BY <1>3, <2>1, <2>2
<1>6. o.raises = r.err /\ o.code = Code(r.err)
  BY <1>5, Outcomes
<1>7. CASE r = Err("NotFound") /\ Extract(s) = Err("NotFound")
  BY <1>6, <1>7, Results, Codes, NotFoundIffNoSignature DEF IsNoManifestLocated
<1>8. ASSUME NEW e \in {"CorruptedWrapper", "MultipleWrappers", "MalformedExclusion"},
             r = Err(e), Extract(s) # Err("NotFound")
      PROVE  /\ o.code = NoCode <=> ~Occurs(Signature, s)
             /\ IsNoManifestLocated(o.raises) <=> o.code = NoCode
  BY <1>6, <1>8, Results, Codes, NotFoundIffNoSignature DEF IsNoManifestLocated
<1>9. \/ r = Err("NotFound") /\ Extract(s) = Err("NotFound")
      \/ /\ Extract(s) # Err("NotFound")
         /\ r \in {Err("CorruptedWrapper"), Err("MultipleWrappers"), Err("MalformedExclusion")}
  <2>1. \/ ~IsOk(Extract(s)) /\ r = Extract(s)
        \/ IsOk(Extract(s)) /\ r = Err("MalformedExclusion")
    BY <1>4, ComputeAnswers DEF r
  <2> QED
    BY <2>1, ExtractAnswers, Results, Codes
<1> QED
  BY <1>7, <1>8, <1>9

-----------------------------------------------------------------------------
(* What the calls make of a text *)

LEMMA EmbedOutcome ==
  ASSUME NEW s \in Seq(Char), NEW p \in Seq(Byte),
         NEW o \in {PyEmbed(s, p), JsEmbed(s, p)}, HasReturned(o)
  PROVE  o.returns \in Seq(Char)
<1>1. IsOk(Embed(s, p)) /\ o = Returns(Embed(s, p).ok)
  BY Mapped, Outcomes DEF PyEmbed, JsEmbed
<1>2. IsOk(Encode(p)) /\ Embed(s, p).ok = s \o Encode(p).ok
  BY <1>1, Results DEF Embed
<1>3. Encode(p).ok = Carry(Framed(p, <<>>)) /\ <<>> \in Seq(Byte)
  BY <1>2, EncodeOk
<1>4. Carry(Framed(p, <<>>)) \in Seq(Char)
  BY <1>3, CarriedSignature
<1>5. s \o Encode(p).ok \in Seq(Char)
  BY <1>3, <1>4
<1> QED
  BY <1>1, <1>2, <1>5, Outcomes

LEMMA EncodePaddedOutcome ==
  ASSUME NEW p \in Seq(Byte),
         NEW o \in {PyEncodePadded(p), JsEncodePadded(p)}, HasReturned(o)
  PROVE  o.returns \in Seq(Char)
<1>1. IsOk(EncodePadded(p)) /\ o = Returns(EncodePadded(p).ok)
  BY Mapped, Outcomes, OkOrErr DEF PyEncodePadded, JsEncodePadded
<1>2. EncodePadded(p).ok \in Seq(Char)
  BY <1>1, EncodePaddedOk, CarriedSignature
<1> QED
  BY <1>1, <1>2, Outcomes

LEMMA StripOutcome ==
  ASSUME NEW s \in Seq(Char), NEW start, NEW length, NEW t,
         NEW o \in {PyStrip(s, start, length, t), JsStrip(s, start, length, t)},
         HasReturned(o)
  PROVE  o.returns \in Seq(Char)
<1> DEFINE to == Usize(start + length, t).returns
<1>1. o \in {Panics, PyMapErr(Strip(s, start, to)), JsErr(Strip(s, start, to))}
  BY DEF PyStrip, JsStrip
<1> HIDE DEF to
<1>2. IsOk(Strip(s, start, to)) /\ o = Returns(Strip(s, start, to).ok)
  BY <1>1, Mapped, Outcomes
<1>3. Strip(s, start, to).ok \in Seq(Char)
  BY <1>2, StripTyped
<1> QED
  BY <1>2, <1>3, Outcomes

-----------------------------------------------------------------------------
(* What strip takes *)

\* Strip fails, or its ends are those of characters, in order and in the text.
LEMMA StripParts ==
  ASSUME NEW s \in Seq(Char), NEW from \in Nat, NEW to \in Nat, IsOk(Strip(s, from, to))
  PROVE  /\ from <= to /\ to <= ByteLen(s)
         /\ \E a \in 0 .. Len(s), b \in 0 .. Len(s) :
              /\ a <= b
              /\ Offset(s, a) = from /\ Offset(s, b) = to
              /\ Strip(s, from, to).ok = SubSeq(s, 1, a) \o SubSeq(s, b + 1, Len(s))
<1> DEFINE kept == Slice(s, 0, from) \o Slice(s, to, ByteLen(s))
<1>1. /\ ~(to > ByteLen(s)) /\ ~(from > to)
      /\ IsCharBoundary(s, from) /\ IsCharBoundary(s, to)
      /\ Strip(s, from, to) = Ok(kept)
  BY Results DEF Strip
<1>2. PICK a \in 0 .. Len(s), b \in 0 .. Len(s) : Offset(s, a) = from /\ Offset(s, b) = to
  BY <1>1, PositionOf
<1>3. from <= to /\ to <= ByteLen(s) /\ a <= b
  <2>1. ByteLen(s) \in Nat
    BY ByteLenNat
  <2>2. from <= to /\ to <= ByteLen(s)
    BY <1>1, <2>1
  <2> QED
    BY <1>2, <2>2, PositionsInOrder
<1>4. kept = SubSeq(s, 1, a) \o SubSeq(s, b + 1, Len(s))
  <2>1. 0 \in 0 .. Len(s) /\ Len(s) \in 0 .. Len(s)
    OBVIOUS
  <2>2. Offset(s, 0) = 0 /\ Offset(s, Len(s)) = ByteLen(s)
    BY OffsetEnds
  <2>3. Slice(s, 0, from) = SubSeq(s, 1, a)
    <3>1. Slice(s, Offset(s, 0), Offset(s, a)) = SubSeq(s, 0 + 1, a)
      BY <1>2, <2>1, SliceAtOffsets
    <3>2. 0 + 1 = 1
      OBVIOUS
    <3> QED
      BY <1>2, <2>2, <3>1, <3>2
  <2>4. Slice(s, to, ByteLen(s)) = SubSeq(s, b + 1, Len(s))
    <3>1. Slice(s, Offset(s, b), Offset(s, Len(s))) = SubSeq(s, b + 1, Len(s))
      BY <1>2, <2>1, SliceAtOffsets
    <3> QED
      BY <1>2, <2>2, <3>1
  <2> QED
    BY <2>3, <2>4
<1>5. Strip(s, from, to).ok = kept
  BY <1>1, Results
<1> QED
  BY <1>2, <1>3, <1>4, <1>5

LEMMA CountTo ==
  ASSUME NEW i \in Nat
  PROVE  IsFiniteSet(1 .. i) /\ Cardinality(1 .. i) = i
<1>1. 1 \in Int /\ i \in Int
  OBVIOUS
<1>2. IsFiniteSet(1 .. i) /\ Cardinality(1 .. i) = IF 1 > i THEN 0 ELSE i - 1 + 1
  BY <1>1, FS_Interval
<1>3. (IF 1 > i THEN 0 ELSE i - 1 + 1) = i
  OBVIOUS
<1> QED
  BY <1>2, <1>3

\* How many of the first i numbers lie outside a + 1 .. b.
LEMMA CountOutside ==
  ASSUME NEW a \in Nat, NEW b \in Nat, a <= b, NEW i \in Nat
  PROVE  /\ i <= a => Cardinality({j \in 1 .. i : j \notin a + 1 .. b}) = i
         /\ b < i => Cardinality({j \in 1 .. i : j \notin a + 1 .. b}) = a + (i - b)
<1>1. ASSUME i <= a
      PROVE  Cardinality({j \in 1 .. i : j \notin a + 1 .. b}) = i
  <2>1. {j \in 1 .. i : j \notin a + 1 .. b} = 1 .. i
    BY <1>1
  <2>2. Cardinality(1 .. i) = i
    BY CountTo
  <2> QED
    BY <2>1, <2>2
<1>2. ASSUME b < i
      PROVE  Cardinality({j \in 1 .. i : j \notin a + 1 .. b}) = a + (i - b)
  <2> DEFINE lower == 1 .. a
             upper == b + 1 .. i
  <2>1. {j \in 1 .. i : j \notin a + 1 .. b} = lower \cup upper /\ lower \cap upper = {}
    BY <1>2
  <2>2. IsFiniteSet(lower) /\ Cardinality(lower) = a
    BY CountTo
  <2>3. IsFiniteSet(upper) /\ Cardinality(upper) = i - b
    <3>1. b + 1 \in Int /\ i \in Int
      OBVIOUS
    <3>2. /\ IsFiniteSet(b + 1 .. i)
          /\ Cardinality(b + 1 .. i) = IF b + 1 > i THEN 0 ELSE i - (b + 1) + 1
      BY <3>1, FS_Interval
    <3>3. ~(b + 1 > i) /\ i - (b + 1) + 1 = i - b
      BY <1>2
    <3> QED
      BY <3>2, <3>3
  <2>4. Cardinality({}) = 0
    BY FS_EmptySet
  <2> HIDE DEF lower, upper
  <2>5. Cardinality(lower \cup upper)
          = Cardinality(lower) + Cardinality(upper) - Cardinality(lower \cap upper)
    BY <2>2, <2>3, FS_Union
  <2>6. Cardinality(lower \cap upper) = 0
    BY <2>1, <2>4
  <2>7. Cardinality(lower \cup upper) = a + (i - b)
    BY <1>2, <2>2, <2>3, <2>5, <2>6
  <2> QED
    BY <2>1, <2>7
<1> QED
  BY <1>1, <1>2

\* Whatever range it is given, strip takes nothing but the characters that begin
\* in it.
LEMMA StripTakes ==
  ASSUME NEW s \in Seq(Char), NEW from \in Nat, NEW to \in Nat, IsOk(Strip(s, from, to))
  PROVE  LET rest   == Strip(s, from, to).ok
             inside == {i \in DOMAIN s : Offset(s, i - 1) \in from .. to - 1}
         IN  /\ ByteLen(rest) = ByteLen(s) - (to - from)
             /\ \A i \in DOMAIN s : i \notin inside =>
                  rest[Cardinality({j \in 1 .. i : j \notin inside})] = s[i]
<1> DEFINE rest   == Strip(s, from, to).ok
           inside == {i \in DOMAIN s : Offset(s, i - 1) \in from .. to - 1}
<1>1. PICK a \in 0 .. Len(s), b \in 0 .. Len(s) :
        /\ a <= b
        /\ Offset(s, a) = from /\ Offset(s, b) = to
        /\ rest = SubSeq(s, 1, a) \o SubSeq(s, b + 1, Len(s))
  BY StripParts
<1>2. Len(s) \in Nat /\ DOMAIN s = 1 .. Len(s) /\ a \in Nat /\ b \in Nat
  OBVIOUS
<1>0. from <= to /\ to <= ByteLen(s)
  BY StripParts
<1> DEFINE x == SubSeq(s, 1, a)
           y == SubSeq(s, b + 1, Len(s))
<1>3. /\ x \in Seq(Char) /\ Len(x) = a /\ \A k \in 1 .. a : x[k] = s[k]
      /\ y \in Seq(Char) /\ Len(y) = Len(s) - b /\ \A k \in 1 .. Len(s) - b : y[k] = s[b + k]
  <2>1. x \in Seq(Char) /\ Len(x) = a /\ \A k \in 1 .. a : x[k] = s[k]
    BY <1>2
  <2> QED
    BY <1>2, <2>1, RestProperties
<1> HIDE DEF x, y
<1>4. /\ rest = x \o y
      /\ \A k \in 1 .. a : rest[k] = s[k]
      /\ \A k \in 1 .. Len(s) - b : rest[a + k] = s[b + k]
  <2>1. rest = x \o y
    BY <1>1 DEF x, y
  <2>2. /\ \A k \in 1 .. Len(x) : (x \o y)[k] = x[k]
        /\ \A k \in 1 .. Len(y) : (x \o y)[Len(x) + k] = y[k]
    BY <1>3, ConcatTexts
  <2> HIDE DEF rest
  <2> QED
    BY <1>3, <2>1, <2>2
<1>5. ByteLen(rest) = ByteLen(s) - (to - from)
  <2>1. ByteLen(x) = from
    BY <1>1 DEF x, Offset
  <2>2. y = Slice(s, to, ByteLen(s))
    <3>1. Len(s) \in 0 .. Len(s)
      BY <1>2
    <3> QED
      BY <1>1, <3>1, OffsetEnds, SliceAtOffsets DEF y
  <2>3. ByteLen(y) = ByteLen(s) - to
    <3>1. IsCharBoundary(s, to) /\ IsCharBoundary(s, ByteLen(s))
      BY <1>1, <1>2, OffsetEnds, CharsBeforeOffset
    <3>2. to <= ByteLen(s) /\ ByteLen(s) \in Nat
      BY <1>0, ByteLenNat
    <3> QED
      BY <2>2, <3>1, <3>2, SliceLength
  <2>4. ByteLen(x \o y) = ByteLen(x) + ByteLen(y)
    BY <1>3, ByteLenConcat
  <2>5. ByteLen(s) \in Nat
    BY ByteLenNat
  <2> QED
    BY <1>0, <1>4, <2>1, <2>3, <2>4, <2>5
<1>6. inside = {i \in 1 .. Len(s) : i \in a + 1 .. b}
  <2>1. ASSUME NEW i \in 1 .. Len(s)
        PROVE  Offset(s, i - 1) \in from .. to - 1 <=> i \in a + 1 .. b
    <3>1. i - 1 \in 0 .. Len(s)
      OBVIOUS
    <3>2. /\ Offset(s, i - 1) \in Nat
          /\ from <= Offset(s, i - 1) <=> a <= i - 1
          /\ to <= Offset(s, i - 1) <=> b <= i - 1
      BY <1>1, <3>1, PositionsInOrder
    <3> QED
      BY <1>2, <3>2
  <2> QED
    BY <1>2, <2>1
<1>7. ASSUME NEW i \in DOMAIN s, i \notin inside
      PROVE  rest[Cardinality({j \in 1 .. i : j \notin inside})] = s[i]
  <2>1. i \in 1 .. Len(s) /\ i \in Nat
    BY <1>2
  <2>2. {j \in 1 .. i : j \notin inside} = {j \in 1 .. i : j \notin a + 1 .. b}
    BY <1>2, <1>6, <2>1
  <2>3. i <= a \/ b < i
    BY <1>2, <1>6, <1>7, <2>1
  <2> HIDE DEF inside, rest
  <2>4. CASE i <= a
    <3>1. Cardinality({j \in 1 .. i : j \notin inside}) = i
      BY <1>1, <1>2, <2>1, <2>2, <2>4, CountOutside
    <3>2. i \in 1 .. a
      BY <1>2, <2>1, <2>4
    <3> QED
      BY <1>4, <3>1, <3>2
  <2>5. CASE b < i
    <3>1. Cardinality({j \in 1 .. i : j \notin inside}) = a + (i - b)
      BY <1>1, <1>2, <2>1, <2>2, <2>5, CountOutside
    <3>2. i - b \in 1 .. Len(s) - b /\ b + (i - b) = i
      BY <1>2, <2>1, <2>5
    <3>3. rest[a + (i - b)] = s[b + (i - b)]
      BY <1>4, <3>2
    <3> QED
      BY <3>1, <3>2, <3>3
  <2> QED
    BY <2>3, <2>4, <2>5
<1> HIDE DEF rest, inside
<1> QED
  BY <1>5, <1>7 DEF rest, inside

-----------------------------------------------------------------------------
(* The steps *)

SInv == text \in Seq(Char) /\ NoneMeansUnsigned /\ CodelessMeansUnsigned

\* The properties speak of two calls only.
LEMMA OtherCall ==
  ASSUME NEW name, name \notin {"extract", "compute"}, NEW args, NEW o,
         Make(Call(name, args, o))
  PROVE  NoneMeansUnsigned' /\ CodelessMeansUnsigned'
<1>1. call'.name = name
  BY DEF Make, Call
<1> QED
  BY <1>1 DEF NoneMeansUnsigned, CodelessMeansUnsigned

LEMMA TextTaken ==
  ASSUME text \in Seq(Char), NEW o, HasReturned(o) => o.returns \in Seq(Char), TakeText(o)
  PROVE  text' \in Seq(Char)
BY DEF TakeText

LEMMA EmbedInv == SInv /\ CallEmbed => SInv'
<1> SUFFICES ASSUME SInv, CallEmbed
             PROVE  SInv'
  OBVIOUS
<1>0. PICK p \in Manifests : \E o \in {PyEmbed(text, p), JsEmbed(text, p)} :
        Make(Call("embed", <<>>, o)) /\ TakeText(o)
  BY DEF CallEmbed
<1>1. PICK o \in {PyEmbed(text, p), JsEmbed(text, p)} :
      Make(Call("embed", <<>>, o)) /\ TakeText(o)
  BY <1>0
<1>2. text \in Seq(Char) /\ p \in Seq(Byte)
  BY SessionAssumption DEF SInv
<1>3. text' \in Seq(Char)
  BY <1>1, <1>2, EmbedOutcome, TextTaken
<1> QED
  BY <1>1, <1>3, OtherCall DEF SInv

LEMMA EncodePaddedInv == SInv /\ CallEncodePadded => SInv'
<1> SUFFICES ASSUME SInv, CallEncodePadded
             PROVE  SInv'
  OBVIOUS
<1>0. PICK p \in Manifests : \E o \in {PyEncodePadded(p), JsEncodePadded(p)} :
        /\ Make(Call("encode_padded", <<p>>, o))
        /\ text' = IF HasReturned(o) THEN text \o o.returns ELSE text
  BY DEF CallEncodePadded
<1>1. PICK o \in {PyEncodePadded(p), JsEncodePadded(p)} :
      /\ Make(Call("encode_padded", <<p>>, o))
      /\ text' = IF HasReturned(o) THEN text \o o.returns ELSE text
  BY <1>0
<1>2. text \in Seq(Char) /\ p \in Seq(Byte)
  BY SessionAssumption DEF SInv
<1>3. HasReturned(o) => o.returns \in Seq(Char)
  BY <1>2, EncodePaddedOutcome
<1>4. text' \in Seq(Char)
  BY <1>1, <1>2, <1>3
<1> QED
  BY <1>1, <1>4, OtherCall DEF SInv

LEMMA ExtractInv == SInv /\ CallExtract => SInv'
<1> SUFFICES ASSUME SInv, CallExtract
             PROVE  SInv'
  OBVIOUS
<1>1. PICK o \in {PyExtract(text), JsExtract(text)} : Make(Call("extract", <<>>, o))
  BY DEF CallExtract
<1>2. text \in Seq(Char) /\ text' = text
  BY DEF SInv, CallExtract
<1>3. call'.name = "extract" /\ call'.given = text /\ call'.outcome = o
  BY <1>1 DEF Make, Call
<1>4. NoneMeansUnsigned'
  BY <1>2, <1>3, ExtractOutcome DEF NoneMeansUnsigned
<1>5. CodelessMeansUnsigned'
  BY <1>3 DEF CodelessMeansUnsigned
<1> QED
  BY <1>2, <1>4, <1>5 DEF SInv

LEMMA StripInv == SInv /\ CallStrip => SInv'
<1> SUFFICES ASSUME SInv, CallStrip
             PROVE  SInv'
  OBVIOUS
<1>0. PICK r : \E o \in {PyStrip(text, r.start, r.length, traps),
                         JsStrip(text, r.start, r.length, traps)} :
        Make(Call("strip", <<r>>, o)) /\ TakeText(o)
  BY DEF CallStrip
<1>1. PICK o \in {PyStrip(text, r.start, r.length, traps),
                JsStrip(text, r.start, r.length, traps)} :
      Make(Call("strip", <<r>>, o)) /\ TakeText(o)
  BY <1>0
<1>2. text \in Seq(Char)
  BY DEF SInv
<1>3. text' \in Seq(Char)
  BY <1>1, <1>2, StripOutcome, TextTaken
<1> QED
  BY <1>1, <1>3, OtherCall DEF SInv

LEMMA ComputeInv == SInv /\ CallCompute => SInv'
<1> SUFFICES ASSUME SInv, CallCompute
             PROVE  SInv'
  OBVIOUS
<1>0. PICK alg \in Requested :
        \E o \in {PyComputeDataHash(text, alg), JsComputeDataHash(text, alg)} :
          Make(Call("compute", <<>>, o))
  BY DEF CallCompute
<1>1. PICK o \in {PyComputeDataHash(text, alg), JsComputeDataHash(text, alg)} :
      Make(Call("compute", <<>>, o))
  BY <1>0
<1>2. text \in Seq(Char) /\ text' = text
  BY DEF SInv, CallCompute
<1>3. call'.name = "compute" /\ call'.given = text /\ call'.outcome = o
  BY <1>1 DEF Make, Call
<1>4. CodelessMeansUnsigned'
  BY <1>2, <1>3, ComputeOutcome DEF CodelessMeansUnsigned
<1>5. NoneMeansUnsigned'
  BY <1>3 DEF NoneMeansUnsigned
<1> QED
  BY <1>2, <1>4, <1>5 DEF SInv

LEMMA VerifyInv == SInv /\ CallVerify => SInv'
<1> SUFFICES ASSUME SInv, CallVerify
             PROVE  SInv'
  OBVIOUS
<1>1. text' \in Seq(Char)
  BY DEF SInv, CallVerify
<1>2. \E args, o : Make(Call("verify", args, o))
  BY DEF CallVerify
<1> QED
  BY <1>1, <1>2, OtherCall DEF SInv

LEMMA EditInv == SInv /\ Edit => SInv'
<1> SUFFICES ASSUME SInv, Edit
             PROVE  SInv'
  OBVIOUS
<1>1. PICK c \in Keys : /\ Make(Call("none", <<>>, Returns(None)))
                        /\ text' \in {<<c>> \o text, text \o <<c>>}
  BY DEF Edit
<1>2. text \in Seq(Char) /\ <<c>> \in Seq(Char)
  BY SessionAssumption DEF SInv
<1>3. text' \in Seq(Char)
  BY <1>1, <1>2
<1> QED
  BY <1>1, <1>3, OtherCall DEF SInv

LEMMA NextInv == SInv /\ [SNext]_svars => SInv'
<1> SUFFICES ASSUME SInv, [SNext]_svars
             PROVE  SInv'
  OBVIOUS
<1>1. CASE SNext
  BY <1>1, EmbedInv, EncodePaddedInv, ExtractInv, StripInv, ComputeInv, VerifyInv,
     EditInv DEF SNext
<1>2. CASE UNCHANGED svars
  <2>1. text' = text /\ call' = call
    BY <1>2 DEF svars
  <2> QED
    BY <2>1 DEF SInv, NoneMeansUnsigned, CodelessMeansUnsigned
<1> QED
  BY <1>1, <1>2

LEMMA InitInv == SInit => SInv
<1> SUFFICES ASSUME SInit
             PROVE  SInv
  OBVIOUS
<1>1. text \in Seq(Char)
  BY SessionAssumption DEF SInit
<1>2. call.name = "none"
  BY DEF SInit, Call
<1> QED
  BY <1>1, <1>2 DEF SInv, NoneMeansUnsigned, CodelessMeansUnsigned

-----------------------------------------------------------------------------
(* What strip takes, in a session *)

\* The text fits the address space of the build: its length is a usize.
TextFits == ByteLen(text) <= USIZE_MAX

\* So does the range the host kept.
LocatedFits ==
  located # Nothing => located.start \in 0 .. USIZE_MAX /\ located.length \in 0 .. USIZE_MAX

\* An end that overflows traps, or wraps to an end in front of its start: a
\* strip that returns has taken the range it was asked for.
LEMMA StripReturns ==
  ASSUME NEW s \in Seq(Char), NEW start \in 0 .. USIZE_MAX, NEW length \in 0 .. USIZE_MAX,
         NEW t, NEW o \in {PyStrip(s, start, length, t), JsStrip(s, start, length, t)},
         HasReturned(o)
  PROVE  /\ IsOk(Strip(s, start, start + length))
         /\ o.returns = Strip(s, start, start + length).ok
<1> DEFINE n   == start + length
           end == Usize(n, t)
<1>1. USIZE_MAX \in Nat /\ start \in Nat /\ length \in Nat /\ n \in Nat
  BY WidthAssumption
<1>2. o \in {Panics, PyMapErr(Strip(s, start, end.returns)), JsErr(Strip(s, start, end.returns))}
      /\ (end = Panics => o = Panics)
  BY DEF PyStrip, JsStrip
<1>3. IsOk(Strip(s, start, end.returns)) /\ o.returns = Strip(s, start, end.returns).ok
      /\ end # Panics
  <2> HIDE DEF end
  <2>1. o # Panics /\ end # Panics
    BY <1>2, Outcomes
  <2> QED
    BY <1>2, <2>1, Mapped, Outcomes
<1>4. CASE n <= USIZE_MAX
  <2>1. end = Returns(n)
    BY <1>4 DEF Usize
  <2>2. end.returns = n
    BY <2>1, Outcomes
  <2> QED
    BY <1>3, <2>2
<1>5. CASE n > USIZE_MAX
  <2>1. ~(n <= USIZE_MAX)
    BY <1>1, <1>5
  <2>2. end = Returns(n % (USIZE_MAX + 1))
    BY <1>3, <2>1 DEF Usize
  <2>3. end.returns = n % (USIZE_MAX + 1)
    BY <2>2, Outcomes
  <2>4. n % (USIZE_MAX + 1) < start
    <3> DEFINE m == USIZE_MAX + 1
    <3>1. m \in Nat /\ m > 0 /\ m <= n /\ n < 2 * m /\ length < m
      BY <1>1, <1>5
    <3>2. n % m = n - m
      <4> HIDE DEF n, m
      <4> QED
        BY <1>1, <3>1
    <3>3. n - m < start
      BY <1>1, <3>1
    <3> QED
      BY <3>2, <3>3
  <2>5. n % (USIZE_MAX + 1) \in Nat
    BY <1>1
  <2>6. start > end.returns
    BY <1>1, <2>3, <2>4, <2>5
  <2>7. Strip(s, start, end.returns) = Err("MalformedExclusion")
    BY <2>6 DEF Strip
  <2> QED
    BY <1>3, <2>7, Results
<1>6. n <= USIZE_MAX \/ n > USIZE_MAX
  BY <1>1
<1> QED
  BY <1>4, <1>5, <1>6

LEMMA StripTakesRange ==
  ASSUME NEW s \in Seq(Char), NEW r, r.start \in 0 .. USIZE_MAX, r.length \in 0 .. USIZE_MAX,
         NEW t, NEW o \in {PyStrip(s, r.start, r.length, t), JsStrip(s, r.start, r.length, t)},
         HasReturned(o)
  PROVE  TakesRange(s, r, o.returns)
<1> DEFINE to     == r.start + r.length
           rest   == Strip(s, r.start, to).ok
           inside == {i \in DOMAIN s : Offset(s, i - 1) \in r.start .. to - 1}
<1>1. IsOk(Strip(s, r.start, to)) /\ o.returns = rest
  BY StripReturns
<1>2. r.start \in Nat /\ r.length \in Nat /\ to \in Nat /\ to - r.start = r.length
  BY WidthAssumption
<1>3. to <= ByteLen(s)
  <2> HIDE DEF to
  <2> QED
    BY <1>1, <1>2, StripParts
<1>4. /\ ByteLen(rest) = ByteLen(s) - (to - r.start)
      /\ \A i \in DOMAIN s : i \notin inside =>
           rest[Cardinality({j \in 1 .. i : j \notin inside})] = s[i]
  <2> HIDE DEF to
  <2> QED
    BY <1>1, <1>2, StripTakes
<1> HIDE DEF rest
<1>5. /\ to <= ByteLen(s)
      /\ ByteLen(rest) = ByteLen(s) - r.length
      /\ \A i \in DOMAIN s : i \notin inside =>
           rest[Cardinality({j \in 1 .. i : j \notin inside})] = s[i]
  BY <1>2, <1>3, <1>4
<1>6. TakesRange(s, r, rest)
  BY <1>5 DEF TakesRange
<1> QED
  BY <1>1, <1>6

\* The range a host takes from what extract returned.
LEMMA ExtractReturnsRange ==
  ASSUME NEW s \in Seq(Char), ByteLen(s) <= USIZE_MAX,
         NEW o \in {PyExtract(s), JsExtract(s)}, HasReturned(o), o.returns # None
  PROVE  /\ RangeOf(o.returns).start \in 0 .. USIZE_MAX
         /\ RangeOf(o.returns).length \in 0 .. USIZE_MAX
<1> DEFINE w == Extract(s).ok
<1>1. /\ Extract(s) # Err("NotFound")
      /\ o \in {PyMapErr(Extract(s)), AsObject(JsErr(Extract(s)))}
  BY Outcomes DEF PyExtract, JsExtract
<1>2. IsOk(Extract(s))
  <2> SUFFICES ASSUME ~IsOk(Extract(s))
               PROVE  FALSE
    OBVIOUS
  <2>1. /\ PyMapErr(Extract(s)) = Raises(Extract(s).err)
        /\ JsErr(Extract(s)) = Raises(Extract(s).err)
    BY Mapped
  <2>2. AsObject(Raises(Extract(s).err)) = Raises(Extract(s).err)
    BY Outcomes DEF AsObject
  <2> QED
    BY <1>1, <2>1, <2>2, Outcomes
<1>3. w \in LocateAll(s) /\ o \in {Returns(w), AsObject(Returns(w))}
  BY <1>1, <1>2, Mapped, ExtractedIsLocated
<1> HIDE DEF w
<1>4. w.start \in 0 .. USIZE_MAX /\ w.length \in 0 .. USIZE_MAX
  <2>1. /\ w.start \in Nat /\ w.length \in Nat
        /\ \E i \in 1 .. Len(s), n \in 1 .. Len(s) : w.start + w.length = Offset(s, n)
    BY <1>3, LocatedProperties
  <2>2. PICK n \in 1 .. Len(s) : w.start + w.length = Offset(s, n)
    BY <2>1
  <2>3. n \in 0 .. Len(s) /\ Len(s) \in 0 .. Len(s) /\ n <= Len(s)
    OBVIOUS
  <2>4. Offset(s, n) <= Offset(s, Len(s)) /\ Offset(s, n) \in Nat
    BY <2>3, PositionsInOrder
  <2>5. Offset(s, Len(s)) = ByteLen(s) /\ ByteLen(s) \in Nat
    BY OffsetEnds, ByteLenNat
  <2> QED
    BY <2>1, <2>2, <2>4, <2>5, WidthAssumption
<1>5. CASE o = Returns(w)
  <2>1. o.returns = w
    BY <1>5, Outcomes
  <2>2. RangeOf(w).start = w.start /\ RangeOf(w).length = w.length
    BY DEF RangeOf
  <2> QED
    BY <1>4, <2>1, <2>2
<1>6. CASE o = AsObject(Returns(w))
  <2> DEFINE object == [w EXCEPT !.start = AsU32(@), !.length = AsU32(@)]
  <2>1. AsObject(Returns(w)) = Returns(object)
    BY Outcomes DEF AsObject
  <2>2. DOMAIN w = {"payload", "version", "start", "length"}
    <3>1. PICK v \in Scan(s) : w \in DecodeFrame(v.run, v.start, v.length)
      BY <1>3 DEF LocateAll
    <3> QED
      BY <3>1 DEF DecodeFrame
  <2>3. object.start = AsU32(w.start) /\ object.length = AsU32(w.length)
    BY <2>2
  <2>4. \A x \in 0 .. USIZE_MAX : AsU32(x) \in 0 .. USIZE_MAX
    BY WidthAssumption DEF AsU32
  <2> HIDE DEF object
  <2>5. o.returns = object
    BY <1>6, <2>1, Outcomes
  <2>6. RangeOf(object).start = object.start /\ RangeOf(object).length = object.length
    BY DEF RangeOf
  <2> QED
    BY <1>4, <2>3, <2>4, <2>5, <2>6
<1> QED
  BY <1>3, <1>5, <1>6

StripSafe == LocatedFits /\ StripTakesTheRange

LEMMA StripSafeInit == SInit => StripSafe
<1> SUFFICES ASSUME SInit
             PROVE  StripSafe
  OBVIOUS
<1>1. located = Nothing /\ call.name = "none"
  BY DEF SInit, Call
<1> QED
  BY <1>1 DEF StripSafe, LocatedFits, StripTakesTheRange

\* Only strip strips.
LEMMA NotAStrip ==
  ASSUME NEW name, name # "strip", NEW args, NEW o, Make(Call(name, args, o))
  PROVE  StripTakesTheRange'
<1>1. call'.name = name
  BY DEF Make, Call
<1> QED
  BY <1>1 DEF StripTakesTheRange

LEMMA StripSafeStrip ==
  ASSUME SInv, TextFits, StripSafe, CallStrip
  PROVE  StripSafe'
<1>1. PICK r \in FreeRanges \cup ({located} \ {Nothing}) :
        \E o \in {PyStrip(text, r.start, r.length, traps),
                  JsStrip(text, r.start, r.length, traps)} :
          Make(Call("strip", <<r>>, o)) /\ TakeText(o)
  BY DEF CallStrip
<1>2. PICK o \in {PyStrip(text, r.start, r.length, traps),
                  JsStrip(text, r.start, r.length, traps)} : Make(Call("strip", <<r>>, o))
  BY <1>1
<1>3. text \in Seq(Char) /\ located' = located
  BY DEF SInv, CallStrip
<1>4. r.start \in 0 .. USIZE_MAX /\ r.length \in 0 .. USIZE_MAX
  BY <1>1, SessionAssumption DEF StripSafe, LocatedFits
<1>5. LocatedFits'
  BY <1>3 DEF StripSafe, LocatedFits
<1>6. call' = Call("strip", <<r>>, o)
  BY <1>2 DEF Make
<1>7. /\ call'.given = text /\ call'.args = <<r>> /\ call'.outcome = o
  BY <1>6 DEF Call
<1>8. HasReturned(o) => TakesRange(text, r, o.returns)
  BY <1>3, <1>4, StripTakesRange
<1>9. <<r>>[1] = r
  OBVIOUS
<1>10. StripTakesTheRange'
  BY <1>7, <1>8, <1>9 DEF StripTakesTheRange
<1> QED
  BY <1>5, <1>10 DEF StripSafe

LEMMA StripSafeNext == SInv /\ TextFits /\ StripSafe /\ [SNext]_svars => StripSafe'
<1> SUFFICES ASSUME SInv, TextFits, StripSafe, [SNext]_svars
             PROVE  StripSafe'
  OBVIOUS
<1>1. ASSUME located' = located
      PROVE  LocatedFits'
  BY <1>1 DEF StripSafe, LocatedFits
<1>2. CASE CallEmbed \/ CallEncodePadded \/ CallCompute \/ CallVerify \/ Edit
  <2>1. /\ located' = located
        /\ \E name, args, o : name # "strip" /\ Make(Call(name, args, o))
    BY <1>2 DEF CallEmbed, CallEncodePadded, CallCompute, CallVerify, Edit
  <2> QED
    BY <1>1, <2>1, NotAStrip DEF StripSafe
<1>3. CASE CallExtract
  <2>1. PICK o \in {PyExtract(text), JsExtract(text)} :
          /\ Make(Call("extract", <<>>, o))
          /\ located' = IF HasReturned(o) /\ o.returns # None THEN RangeOf(o.returns) ELSE located
    BY <1>3 DEF CallExtract
  <2>2. LocatedFits'
    <3>1. CASE HasReturned(o) /\ o.returns # None
      <4>1. located' = RangeOf(o.returns)
        BY <2>1, <3>1
      <4>2. text \in Seq(Char) /\ ByteLen(text) <= USIZE_MAX
        BY DEF SInv, TextFits
      <4> QED
        BY <3>1, <4>1, <4>2, ExtractReturnsRange DEF LocatedFits
    <3>2. CASE ~(HasReturned(o) /\ o.returns # None)
      BY <1>1, <2>1, <3>2
    <3> QED
      BY <3>1, <3>2
  <2> QED
    BY <2>1, <2>2, NotAStrip DEF StripSafe
<1>4. CASE UNCHANGED svars
  <2>1. located' = located /\ call' = call
    BY <1>4 DEF svars
  <2> QED
    BY <2>1 DEF StripSafe, LocatedFits, StripTakesTheRange
<1> QED
  BY <1>2, <1>3, <1>4, StripSafeStrip DEF SNext

-----------------------------------------------------------------------------
(* The binding the hosts hand over *)

\* One range is the same range in either language and in both their forms.
LEMMA SingleRange ==
  ASSUME NEW a, NEW b
  PROVE  /\ OfPairs(<<<<a, b>>>>) = <<[start |-> a, length |-> b]>>
         /\ AsPairs(<<[start |-> a, length |-> b]>>) = <<<<a, b>>>>
         /\ AsU32Ranges(<<[start |-> a, length |-> b]>>)
              = <<[start |-> AsU32(a), length |-> AsU32(b)]>>
         /\ Zip(<<a>>, <<b>>) = <<[start |-> a, length |-> b]>>
<1>1. /\ DOMAIN <<<<a, b>>>> = {1} /\ <<<<a, b>>>>[1] = <<a, b>>
      /\ <<a, b>>[1] = a /\ <<a, b>>[2] = b
  OBVIOUS
<1>2. OfPairs(<<<<a, b>>>>) = <<[start |-> a, length |-> b]>>
  BY <1>1 DEF OfPairs
<1>3. AsPairs(<<[start |-> a, length |-> b]>>) = <<<<a, b>>>>
  BY DEF AsPairs
<1>4. AsU32Ranges(<<[start |-> a, length |-> b]>>)
        = <<[start |-> AsU32(a), length |-> AsU32(b)]>>
  BY DEF AsU32Ranges
<1>5. Zip(<<a>>, <<b>>) = <<[start |-> a, length |-> b]>>
  BY DEF Zip
<1> QED
  BY <1>2, <1>3, <1>4, <1>5

\* What stands in a binding: the one range of a wrapper of the text it is for,
\* and the digest of the rest.
Binds(b) ==
  /\ b.given \in Seq(Char)
  /\ b.alg \in AlgorithmIds
  /\ ~HasCorruptedCandidate(b.given)
  /\ \E w \in LocateAll(b.given) :
       /\ WrapperEnd(w) <= USIZE_MAX
       /\ b.ranges = <<RangeOf(w)>>
       /\ b.hash = Digest(b.alg, Nfc(Without(b.given, w)))

\* compute returns such a binding: a dict of pairs in Python, an object whose
\* numbers are those of a u32 in JavaScript.
LEMMA ComputeReturns ==
  ASSUME NEW s \in Seq(Char), NEW alg
  PROVE  /\ \A o \in {PyComputeDataHash(s, alg)} : HasReturned(o) =>
              Binds([alg |-> o.returns.alg, hash |-> o.returns.hash,
                     ranges |-> OfPairs(o.returns.exclusions), given |-> s])
         /\ \A o \in {JsComputeDataHash(s, alg)} : HasReturned(o) =>
              Binds([alg |-> o.returns.alg, hash |-> o.returns.hash,
                     ranges |-> o.returns.exclusions, given |-> s])
<1> DEFINE r == ComputeDataHash(s, alg)
           w == Extract(s).ok
           h == Digest(alg, Nfc(Without(s, w)))
<1> SUFFICES ASSUME HasReturned(PyComputeDataHash(s, alg)) \/ HasReturned(JsComputeDataHash(s, alg))
             PROVE  /\ PyComputeDataHash(s, alg).returns.alg = alg
                    /\ JsComputeDataHash(s, alg).returns.alg = alg
                    /\ PyComputeDataHash(s, alg).returns.hash = h
                    /\ JsComputeDataHash(s, alg).returns.hash = h
                    /\ OfPairs(PyComputeDataHash(s, alg).returns.exclusions) = <<RangeOf(w)>>
                    /\ JsComputeDataHash(s, alg).returns.exclusions = <<RangeOf(w)>>
                    /\ alg \in AlgorithmIds
                    /\ ~HasCorruptedCandidate(s)
                    /\ w \in LocateAll(s) /\ WrapperEnd(w) <= USIZE_MAX
  <2> HIDE DEF w, h
  <2> QED
    BY DEF Binds, h
<1>1. IsOk(FromId(alg))
  <2>1. ~IsOk(FromId(alg)) => /\ PyAlgorithm(alg) = Raises(FromId(alg).err)
                              /\ JsAlgorithm(alg) = Raises(FromId(alg).err)
    BY Mapped DEF PyAlgorithm, JsAlgorithm
  <2> QED
    BY <2>1, Outcomes DEF PyComputeDataHash, JsComputeDataHash
<1>2. HasReturned(PyAlgorithm(alg)) /\ HasReturned(JsAlgorithm(alg))
  BY <1>1, Mapped, Outcomes DEF PyAlgorithm, JsAlgorithm
<1>3. /\ PyComputeDataHash(s, alg) = AsDict(PyMapErr(r))
      /\ JsComputeDataHash(s, alg) = AsBinding(JsErr(r))
  BY <1>2 DEF PyComputeDataHash, JsComputeDataHash
<1>4. IsOk(r)
  <2> HIDE DEF r
  <2>1. ~IsOk(r) => /\ AsDict(PyMapErr(r)) = Raises(r.err)
                    /\ AsBinding(JsErr(r)) = Raises(r.err)
    BY Mapped, Outcomes DEF AsDict, AsBinding
  <2> QED
    BY <1>3, <2>1, Outcomes
<1>5. /\ IsOk(Extract(s)) /\ WrapperEnd(w) <= USIZE_MAX
      /\ r.ok = [exclusions |-> <<RangeOf(w)>>, alg |-> alg, hash |-> h]
  BY <1>4, ComputedClaim
<1>6. w \in LocateAll(s) /\ ~HasCorruptedCandidate(s)
  <2>1. HasCorruptedCandidate(s) => ~IsOk(Extract(s))
    BY Results DEF Extract
  <2> QED
    BY <1>5, <2>1, ExtractedIsLocated
<1>7. alg \in AlgorithmIds
  BY <1>1, FromIdOk
<1> HIDE DEF w, h, r
<1>8. RangeOf(w) = [start |-> w.start, length |-> w.length]
  BY DEF RangeOf
<1>9. PyComputeDataHash(s, alg).returns = [r.ok EXCEPT !.exclusions = AsPairs(@)]
  <2> DEFINE dict == [r.ok EXCEPT !.exclusions = AsPairs(@)]
  <2>1. PyMapErr(r) = Returns(r.ok)
    BY <1>4, Mapped
  <2>2. AsDict(Returns(r.ok)) = Returns(dict)
    BY Outcomes DEF AsDict
  <2> HIDE DEF dict
  <2>3. PyComputeDataHash(s, alg).returns = dict
    BY <1>3, <2>1, <2>2, Outcomes
  <2> QED
    BY <2>3 DEF dict
<1>10. JsComputeDataHash(s, alg).returns = [r.ok EXCEPT !.exclusions = AsU32Ranges(@)]
  <2> DEFINE object == [r.ok EXCEPT !.exclusions = AsU32Ranges(@)]
  <2>1. JsErr(r) = Returns(r.ok)
    BY <1>4, Mapped
  <2>2. AsBinding(Returns(r.ok)) = Returns(object)
    BY Outcomes DEF AsBinding
  <2> HIDE DEF object
  <2>3. JsComputeDataHash(s, alg).returns = object
    BY <1>3, <2>1, <2>2, Outcomes
  <2> QED
    BY <2>3 DEF object
<1>11. AsPairs(<<RangeOf(w)>>) = <<<<w.start, w.length>>>>
  <2>1. AsPairs(<<[start |-> w.start, length |-> w.length]>>) = <<<<w.start, w.length>>>>
    BY SingleRange
  <2> QED
    BY <1>8, <2>1
<1>12. AsU32Ranges(<<RangeOf(w)>>) = <<RangeOf(w)>>
  <2>1. w.start \in Nat /\ w.length \in Nat /\ WrapperEnd(w) = w.start + w.length
    BY <1>6, LocatedProperties DEF WrapperEnd
  <2>2. w.start < USIZE_MAX + 1 /\ w.length < USIZE_MAX + 1 /\ USIZE_MAX \in Nat
    BY <1>5, <2>1, WidthAssumption
  <2>3. AsU32(w.start) = w.start /\ AsU32(w.length) = w.length
    <3>1. \A x \in Nat, m \in Nat : x < m => x % m = x
      OBVIOUS
    <3>2. USIZE_MAX + 1 \in Nat
      BY <2>2
    <3> QED
      BY <2>1, <2>2, <3>1, <3>2 DEF AsU32
  <2>4. AsU32Ranges(<<[start |-> w.start, length |-> w.length]>>)
          = <<[start |-> AsU32(w.start), length |-> AsU32(w.length)]>>
    BY SingleRange
  <2> QED
    BY <1>8, <2>3, <2>4
<1>13. /\ PyComputeDataHash(s, alg).returns
            = [exclusions |-> AsPairs(<<RangeOf(w)>>), alg |-> alg, hash |-> h]
       /\ JsComputeDataHash(s, alg).returns
            = [exclusions |-> AsU32Ranges(<<RangeOf(w)>>), alg |-> alg, hash |-> h]
  BY <1>5, <1>9, <1>10
<1>14. OfPairs(AsPairs(<<RangeOf(w)>>)) = <<RangeOf(w)>>
  <2>1. OfPairs(<<<<w.start, w.length>>>>) = <<[start |-> w.start, length |-> w.length]>>
    BY SingleRange
  <2> QED
    BY <1>8, <1>11, <2>1
<1> DEFINE pairs   == AsPairs(<<RangeOf(w)>>)
           numbers == AsU32Ranges(<<RangeOf(w)>>)
           dict    == PyComputeDataHash(s, alg).returns
           object  == JsComputeDataHash(s, alg).returns
<1>15. /\ dict = [exclusions |-> pairs, alg |-> alg, hash |-> h]
       /\ object = [exclusions |-> numbers, alg |-> alg, hash |-> h]
       /\ OfPairs(pairs) = <<RangeOf(w)>> /\ numbers = <<RangeOf(w)>>
  BY <1>12, <1>13, <1>14
<1> HIDE DEF pairs, numbers, dict, object
<1>16. /\ dict.alg = alg /\ dict.hash = h /\ OfPairs(dict.exclusions) = <<RangeOf(w)>>
       /\ object.alg = alg /\ object.hash = h /\ object.exclusions = <<RangeOf(w)>>
  BY <1>15
<1> QED
  BY <1>5, <1>6, <1>7, <1>16 DEF dict, object

BindingOK == binding # Nothing => Binds(binding)

LEMMA BindingInit == SInit => BindingOK
BY DEF SInit, BindingOK

LEMMA BindingNext == SInv /\ BindingOK /\ [SNext]_svars => BindingOK'
<1> SUFFICES ASSUME SInv, BindingOK, [SNext]_svars
             PROVE  BindingOK'
  OBVIOUS
<1>1. ASSUME binding' = binding
      PROVE  BindingOK'
  BY <1>1 DEF BindingOK
<1>2. CASE CallCompute
  <2>1. text \in Seq(Char)
    BY DEF SInv
  <2>2. PICK alg \in Requested :
          \/ IF HasReturned(PyComputeDataHash(text, alg))
             THEN Hold(PyComputeDataHash(text, alg),
                       OfPairs(PyComputeDataHash(text, alg).returns.exclusions))
             ELSE UNCHANGED binding
          \/ IF HasReturned(JsComputeDataHash(text, alg))
             THEN Hold(JsComputeDataHash(text, alg),
                       JsComputeDataHash(text, alg).returns.exclusions)
             ELSE UNCHANGED binding
    BY <1>2 DEF CallCompute
  <2>3. Binds(binding') \/ binding' = binding
    BY <2>1, <2>2, ComputeReturns DEF Hold
  <2> QED
    BY <1>1, <2>3 DEF BindingOK
<1>3. CASE ~CallCompute
  <2>1. binding' = binding
    BY <1>3 DEF SNext, svars, CallEmbed, CallEncodePadded, CallExtract, CallStrip,
                CallVerify, Edit
  <2> QED
    BY <1>1, <2>1
<1> QED
  BY <1>2, <1>3

\* The pairs and the vectors the hosts make of a binding of one range.
LEMMA OneRange ==
  ASSUME NEW w, binding.ranges = <<RangeOf(w)>>
  PROVE  /\ Starts = <<w.start>> /\ Lengths = <<w.length>>
         /\ Pairs = <<<<w.start, w.length>>>>
<1>1. RangeOf(w).start = w.start /\ RangeOf(w).length = w.length
  BY DEF RangeOf
<1>2. Starts = <<w.start>>
  BY <1>1 DEF Starts
<1>3. Lengths = <<w.length>>
  BY <1>1 DEF Lengths
<1>4. Pairs = <<<<w.start, w.length>>>>
  BY <1>2, <1>3 DEF Pairs
<1> QED
  BY <1>2, <1>3, <1>4

\* Verification of one range, from either language, returns exactly if the crate
\* accepts the range.
LEMMA VerifyOneRange ==
  ASSUME NEW s \in Seq(Char), NEW h, NEW w, NEW alg
  PROVE  LET d == [exclusions |-> <<RangeOf(w)>>, alg |-> alg, hash |-> h]
         IN  /\ HasReturned(PyVerifyDataHash(s, h, <<<<w.start, w.length>>>>, alg))
                  <=> IsOk(VerifyDataHash(s, d))
             /\ HasReturned(JsVerifyDataHash(s, h, <<w.start>>, <<w.length>>, alg))
                  <=> IsOk(VerifyDataHash(s, d))
<1> DEFINE d == [exclusions |-> <<RangeOf(w)>>, alg |-> alg, hash |-> h]
           r == VerifyDataHash(s, d)
<1>1. d.alg = alg /\ d.exclusions = <<RangeOf(w)>>
  OBVIOUS
<1>2. RangeOf(w) = [start |-> w.start, length |-> w.length]
  BY DEF RangeOf
<1>3. /\ OfPairs(<<<<w.start, w.length>>>>) = <<RangeOf(w)>>
      /\ Zip(<<w.start>>, <<w.length>>) = <<RangeOf(w)>>
  <2>1. /\ OfPairs(<<<<w.start, w.length>>>>) = <<[start |-> w.start, length |-> w.length]>>
        /\ Zip(<<w.start>>, <<w.length>>) = <<[start |-> w.start, length |-> w.length]>>
    BY SingleRange
  <2> QED
    BY <1>2, <2>1
<1>4. Len(<<w.start>>) = Len(<<w.length>>)
  OBVIOUS
<1>5. CASE IsOk(FromId(alg))
  <2>1. HasReturned(PyAlgorithm(alg)) /\ HasReturned(JsAlgorithm(alg))
    BY <1>5, Mapped, Outcomes DEF PyAlgorithm, JsAlgorithm
  <2>2. PyVerifyDataHash(s, h, <<<<w.start, w.length>>>>, alg) = PyMapErr(r)
    BY <1>3, <2>1 DEF PyVerifyDataHash
  <2>3. JsVerifyDataHash(s, h, <<w.start>>, <<w.length>>, alg) = JsErr(r)
    BY <1>3, <1>4, <2>1 DEF JsVerifyDataHash
  <2> HIDE DEF r
  <2> QED
    BY <2>2, <2>3, Mapped, Outcomes DEF r
<1>6. CASE ~IsOk(FromId(alg))
  <2>1. /\ PyAlgorithm(alg) = Raises(FromId(alg).err)
        /\ JsAlgorithm(alg) = Raises(FromId(alg).err)
    BY <1>6, Mapped DEF PyAlgorithm, JsAlgorithm
  <2>2. ~HasReturned(PyAlgorithm(alg)) /\ ~HasReturned(JsAlgorithm(alg))
    BY <2>1, Outcomes
  <2>3. /\ PyVerifyDataHash(s, h, <<<<w.start, w.length>>>>, alg) = PyAlgorithm(alg)
        /\ JsVerifyDataHash(s, h, <<w.start>>, <<w.length>>, alg) = JsAlgorithm(alg)
    BY <1>4, <2>2 DEF PyVerifyDataHash, JsVerifyDataHash
  <2>4. ~IsOk(r)
    BY <1>1, <1>6 DEF VerifyDataHash
  <2> QED
    BY <2>2, <2>3, <2>4
<1> QED
  BY <1>5, <1>6

LEMMA HandsOverHolds == SInv /\ BindingOK => HandsOver
<1> SUFFICES ASSUME SInv, BindingOK, binding # Nothing, text = binding.given
             PROVE  HasReturned(PyVerdict) /\ HasReturned(JsVerdict)
  BY DEF HandsOver
<1> DEFINE alg == binding.alg
           h   == binding.hash
<1>1. text \in Seq(Char) /\ alg \in AlgorithmIds /\ ~HasCorruptedCandidate(text)
  BY DEF BindingOK, Binds
<1>2. PICK w \in LocateAll(text) : /\ WrapperEnd(w) <= USIZE_MAX
                                  /\ binding.ranges = <<RangeOf(w)>>
                                  /\ h = Digest(alg, Nfc(Without(text, w)))
  BY DEF BindingOK, Binds
<1> DEFINE d == [exclusions |-> <<RangeOf(w)>>, alg |-> alg, hash |-> h]
<1>3. d.alg = alg /\ d.exclusions = <<RangeOf(w)>> /\ d.hash = h
  OBVIOUS
<1>4. /\ PyVerdict = PyVerifyDataHash(text, h, <<<<w.start, w.length>>>>, alg)
      /\ JsVerdict = JsVerifyDataHash(text, h, <<w.start>>, <<w.length>>, alg)
  BY <1>2, OneRange DEF PyVerdict, JsVerdict
<1>5. d.exclusions \in Seq({RangeOf(w)})
  BY <1>3
<1> HIDE DEF d, alg, h
<1>6. IsOk(VerifyDataHash(text, d))
  <2>1. IsOk(VerifyDataHash(text, d)) <=>
          /\ d.alg \in AlgorithmIds
          /\ ~HasCorruptedCandidate(text)
          /\ \E v \in LocateAll(text) :
               /\ WrapperEnd(v) <= USIZE_MAX
               /\ d.exclusions = <<RangeOf(v)>>
               /\ Digest(d.alg, Nfc(Without(text, v))) = d.hash
    BY <1>1, <1>5, VerifiesExactly
  <2>2. Digest(d.alg, Nfc(Without(text, w))) = d.hash
    BY <1>2, <1>3
  <2> QED
    BY <1>1, <1>2, <1>3, <2>1, <2>2
<1> QED
  BY <1>1, <1>4, <1>6, VerifyOneRange DEF d

\* Only verify verifies.
LEMMA NotAVerify ==
  ASSUME NEW name, name # "verify", NEW args, NEW o, Make(Call(name, args, o))
  PROVE  VerifiedIsWhole'
<1>1. call'.name = name
  BY DEF Make, Call
<1> QED
  BY <1>1 DEF VerifiedIsWhole

LEMMA VerifiedWholeVerify ==
  ASSUME SInv, BindingOK, CallVerify
  PROVE  VerifiedIsWhole'
<1>1. text \in Seq(Char) /\ binding # Nothing
  BY DEF SInv, CallVerify
<1>2. PICK v : binding.ranges = <<RangeOf(v)>>
  BY <1>1 DEF BindingOK, Binds
<1>3. Starts = <<v.start>> /\ Lengths = <<v.length>> /\ Pairs = <<<<v.start, v.length>>>>
  BY <1>2, OneRange
<1> DEFINE d(alg) == [exclusions |-> <<RangeOf(v)>>, alg |-> alg, hash |-> binding.hash]
<1>4. ASSUME NEW alg, IsOk(VerifyDataHash(text, d(alg)))
      PROVE  \E w \in PyLocateAll(text) : w[1] = v.start
  <2>1. d(alg).exclusions = <<RangeOf(v)>> /\ d(alg).exclusions \in Seq({RangeOf(v)})
    OBVIOUS
  <2> DEFINE given == d(alg)
  <2> HIDE DEF given
  <2>2. PICK w \in LocateAll(text) : given.exclusions = <<RangeOf(w)>>
    BY <1>1, <1>4, <2>1, VerifiesExactly DEF given
  <2>3. RangeOf(w) = RangeOf(v)
    BY <2>1, <2>2 DEF given
  <2>4. w.start = v.start
    BY <2>3 DEF RangeOf
  <2>5. <<w.start, w.length>> \in PyLocateAll(text) /\ <<w.start, w.length>>[1] = w.start
    BY DEF PyLocateAll
  <2> QED
    BY <2>4, <2>5
<1>5. PICK args, o :
        /\ Make(Call("verify", args, o))
        /\ HasReturned(o) => /\ args = <<<<v.start, v.length>>>> \/ args = <<<<v.start>>>>
                             /\ \E alg : IsOk(VerifyDataHash(text, d(alg)))
  <2>1. CASE Make(Call("verify", Pairs, PyVerdict))
    <3>1. PyVerdict = PyVerifyDataHash(text, binding.hash, <<<<v.start, v.length>>>>, binding.alg)
      BY <1>3 DEF PyVerdict
    <3>2. HasReturned(PyVerdict) => IsOk(VerifyDataHash(text, d(binding.alg)))
      BY <1>1, <3>1, VerifyOneRange
    <3> QED
      BY <1>3, <2>1, <3>2
  <2>2. ASSUME NEW alg,
               NEW s \in {Starts, Starts \o << 0 >>},
               Make(Call("verify", [k \in DOMAIN s |-> <<s[k]>>],
                         JsVerifyDataHash(text, binding.hash, s, Lengths, alg)))
        PROVE  \E args, o :
                 /\ Make(Call("verify", args, o))
                 /\ HasReturned(o) => /\ args = <<<<v.start, v.length>>>> \/ args = <<<<v.start>>>>
                                      /\ \E a : IsOk(VerifyDataHash(text, d(a)))
    <3> DEFINE verdict == JsVerifyDataHash(text, binding.hash, s, Lengths, alg)
    <3>1. CASE s = Starts
      <4>1. HasReturned(verdict) => IsOk(VerifyDataHash(text, d(alg)))
        BY <1>1, <1>3, <3>1, VerifyOneRange
      <4>2. [k \in DOMAIN s |-> <<s[k]>>] = <<<<v.start>>>>
        BY <1>3, <3>1
      <4> QED
        BY <2>2, <4>1, <4>2
    <3>2. CASE s = Starts \o << 0 >>
      <4>1. Len(s) # Len(Lengths)
        BY <1>3, <3>2
      <4>2. verdict = LengthsDiffer
        BY <4>1 DEF JsVerifyDataHash
      <4>3. ~HasReturned(verdict)
        BY <4>2 DEF LengthsDiffer, HasReturned
      <4> QED
        BY <2>2, <4>3
    <3> QED
      BY <2>2, <3>1, <3>2
  <2> QED
    BY <2>1, <2>2 DEF CallVerify
<1>6. call' = Call("verify", args, o)
  BY <1>5 DEF Make
<1>7. call'.given = text /\ call'.args = args /\ call'.outcome = o
  BY <1>6 DEF Call
<1>8. HasReturned(o) => Len(args) = 1 /\ args[1][1] = v.start
  BY <1>5
<1>9. HasReturned(o) => \E w \in PyLocateAll(text) : w[1] = v.start
  BY <1>4, <1>5
<1> QED
  BY <1>7, <1>8, <1>9 DEF VerifiedIsWhole

LEMMA VerifiedNext == SInv /\ BindingOK /\ VerifiedIsWhole /\ [SNext]_svars => VerifiedIsWhole'
<1> SUFFICES ASSUME SInv, BindingOK, VerifiedIsWhole, [SNext]_svars
             PROVE  VerifiedIsWhole'
  OBVIOUS
<1>1. CASE CallEmbed \/ CallEncodePadded \/ CallExtract \/ CallStrip \/ CallCompute \/ Edit
  <2>1. \E name, args, o : name # "verify" /\ Make(Call(name, args, o))
    BY <1>1 DEF CallEmbed, CallEncodePadded, CallExtract, CallStrip, CallCompute, Edit
  <2> QED
    BY <2>1, NotAVerify
<1>2. CASE UNCHANGED svars
  <2>1. call' = call
    BY <1>2 DEF svars
  <2> QED
    BY <2>1 DEF VerifiedIsWhole
<1> QED
  BY <1>1, <1>2, VerifiedWholeVerify DEF SNext

-----------------------------------------------------------------------------
(* The room a host plans for *)

\* The frame itself is no longer than the padded frame.
LEMMA TightFits ==
  ASSUME NEW p \in Seq(Byte), FitsLength(Len(p)), TargetLength(Len(p)) <= USIZE_MAX
  PROVE  /\ IsOk(Encode(p)) /\ IsOk(EncodePadded(p)) /\ EncodePadded(p) # Panic
         /\ ByteLen(EncodePadded(p).ok) = TargetLength(Len(p))
         /\ ByteLen(Encode(p).ok) <= TargetLength(Len(p))
<1> DEFINE target == TargetLength(Len(p))
           size   == ByteLen(Encode(p).ok)
           gap    == target - size
<1>1. IsOk(EncodePadded(p)) /\ ByteLen(EncodePadded(p).ok) = target
  BY PaddedLength
<1> EncodePadded(p) # Panic
  BY <1>1, PanicIsNoResult
<1>2. IsOk(Encode(p))
  BY Results DEF Encode, EncodeWithPadding
<1>3. size \in Nat
  <2>1. Encode(p).ok = Carry(Framed(p, <<>>)) /\ <<>> \in Seq(Byte)
    BY <1>2, EncodeOk
  <2>2. Carry(Framed(p, <<>>)) \in Seq(Char)
    BY <2>1, CarriedSignature
  <2> QED
    BY <2>1, <2>2, ByteLenNat
<1>4. ~(gap < 0)
  <2>1. gap < 0 => EncodePadded(p) = Err("UnrepresentableGap")
    BY <1>2, PanicIsNoResult DEF EncodePadded
  <2> QED
    BY <1>1, <2>1, Results
<1>5. target \in Nat
  BY WidthAssumption, MagicProperties DEF TargetLength, HEADER_LEN
<1> HIDE DEF target, size
<1>6. size <= target
  BY <1>3, <1>4, <1>5
<1> QED
  BY <1>1, <1>2, <1>6 DEF target, size

LEMMA RoomOfPadded ==
  ASSUME NEW p \in Seq(Byte), FitsLength(Len(p)), TargetLength(Len(p)) <= USIZE_MAX,
         NEW t, NEW o \in {PyEncodePadded(p), JsEncodePadded(p)},
         NEW room \in {PyTargetLength(Len(p), t), JsTargetLength(Len(p), t)}
  PROVE  /\ HasReturned(o) /\ room = Returns(ByteLen(o.returns))
         /\ \A tight \in {PyEncode(p), JsEncode(p)} :
              HasReturned(tight) /\ ByteLen(tight.returns) <= room.returns
<1>1. room = Returns(TargetLength(Len(p)))
  BY DEF PyTargetLength, JsTargetLength, Usize
<1>2. o = Returns(EncodePadded(p).ok)
  BY TightFits, Mapped DEF PyEncodePadded, JsEncodePadded
<1>3. HasReturned(o) /\ ByteLen(o.returns) = TargetLength(Len(p))
  BY <1>2, TightFits, Outcomes
<1>4. ASSUME NEW tight \in {PyEncode(p), JsEncode(p)}
      PROVE  HasReturned(tight) /\ ByteLen(tight.returns) <= room.returns
  <2>1. tight = Returns(Encode(p).ok)
    BY TightFits, Mapped DEF PyEncode, JsEncode
  <2>2. HasReturned(tight) /\ tight.returns = Encode(p).ok /\ room.returns = TargetLength(Len(p))
    BY <1>1, <2>1, Outcomes
  <2> QED
    BY <2>2, TightFits
<1> QED
  BY <1>1, <1>3, <1>4

LEMMA RoomNext == ManifestsFit /\ PlannedRoom /\ [SNext]_svars => PlannedRoom'
<1> SUFFICES ASSUME ManifestsFit, PlannedRoom, [SNext]_svars
             PROVE  PlannedRoom'
  OBVIOUS
<1>1. CASE CallEmbed \/ CallExtract \/ CallStrip \/ CallCompute \/ CallVerify \/ Edit
  <2>1. PICK name, args, o : name # "encode_padded" /\ Make(Call(name, args, o))
    BY <1>1 DEF CallEmbed, CallExtract, CallStrip, CallCompute, CallVerify, Edit
  <2>2. call'.name = name
    BY <2>1 DEF Make, Call
  <2> QED
    BY <2>1, <2>2 DEF PlannedRoom
<1>2. CASE CallEncodePadded
  <2>1. PICK p \in Manifests : \E o \in {PyEncodePadded(p), JsEncodePadded(p)} :
          Make(Call("encode_padded", <<p>>, o))
    BY <1>2 DEF CallEncodePadded
  <2>2. PICK o \in {PyEncodePadded(p), JsEncodePadded(p)} :
          Make(Call("encode_padded", <<p>>, o))
    BY <2>1
  <2>3. call' = Call("encode_padded", <<p>>, o) /\ traps' = traps
    BY <2>2 DEF Make
  <2>4. call'.args = <<p>> /\ call'.outcome = o /\ <<p>>[1] = p
    BY <2>3 DEF Call
  <2>5. p \in Seq(Byte) /\ FitsLength(Len(p)) /\ TargetLength(Len(p)) <= USIZE_MAX
    BY SessionAssumption DEF ManifestsFit, Fit
  <2>6. \A room \in {PyTargetLength(Len(p), traps), JsTargetLength(Len(p), traps)} :
          /\ HasReturned(o) /\ room = Returns(ByteLen(o.returns))
          /\ \A tight \in {PyEncode(p), JsEncode(p)} :
               HasReturned(tight) /\ ByteLen(tight.returns) <= room.returns
    BY <2>5, RoomOfPadded
  <2> QED
    BY <2>3, <2>4, <2>6 DEF PlannedRoom
<1>3. CASE UNCHANGED svars
  <2>1. call' = call /\ traps' = traps
    BY <1>3 DEF svars
  <2> QED
    BY <2>1 DEF PlannedRoom
<1> QED
  BY <1>1, <1>2, <1>3 DEF SNext

-----------------------------------------------------------------------------
(* Theorems *)

\* In every session extract returns None, in either language, for exactly the
\* texts without a signature, and whatever else it raises carries a status code.
THEOREM NoneIsUnsigned == SSpec => []NoneMeansUnsigned
<1>1. SInit => SInv
  BY InitInv
<1>2. SInv /\ [SNext]_svars => SInv'
  BY NextInv
<1>3. SInv => NoneMeansUnsigned
  BY DEF SInv
<1> QED
  BY <1>1, <1>2, <1>3, PTL DEF SSpec

\* In every session what compute_data_hash raises for a supported algorithm has
\* no status code exactly if the text has no signature, and is_no_manifest_located
\* says the same.
THEOREM CodelessIsUnsigned == SSpec => []CodelessMeansUnsigned
<1>1. SInit => SInv
  BY InitInv
<1>2. SInv /\ [SNext]_svars => SInv'
  BY NextInv
<1>3. SInv => CodelessMeansUnsigned
  BY DEF SInv
<1> QED
  BY <1>1, <1>2, <1>3, PTL DEF SSpec

\* As long as the text fits the address space, a strip that returns has taken the
\* whole range it was asked for and nothing else, however stale the range is and
\* whether the additions of usize trap or wrap.
THEOREM StripsTheRange == SSpec /\ []TextFits => []StripTakesTheRange
<1>1. SInit => SInv /\ StripSafe
  BY InitInv, StripSafeInit
<1>2. SInv /\ [SNext]_svars => SInv'
  BY NextInv
<1>3. SInv /\ TextFits /\ StripSafe /\ [SNext]_svars => StripSafe'
  BY StripSafeNext
<1>4. StripSafe => StripTakesTheRange
  BY DEF StripSafe
<1> QED
  BY <1>1, <1>2, <1>3, <1>4, PTL DEF SSpec

\* In every session a binding either language computed is accepted by both, as
\* long as the text is the one it was computed for.
THEOREM BindingHandsOver == SSpec => []HandsOver
<1>1. SInit => SInv /\ BindingOK
  BY InitInv, BindingInit
<1>2. SInv /\ [SNext]_svars => SInv'
  BY NextInv
<1>3. SInv /\ BindingOK /\ [SNext]_svars => BindingOK'
  BY BindingNext
<1>4. SInv /\ BindingOK => HandsOver
  BY HandsOverHolds
<1> QED
  BY <1>1, <1>2, <1>3, <1>4, PTL DEF SSpec

\* In every session a verification that returns was given one whole range, and a
\* wrapper of the text it was given stands there.
THEOREM VerifiesAWholeRange == SSpec => []VerifiedIsWhole
<1>1. SInit => SInv /\ BindingOK /\ VerifiedIsWhole
  <2>1. SInit => call.name = "none"
    BY DEF SInit, Call
  <2> QED
    BY <2>1, InitInv, BindingInit DEF VerifiedIsWhole
<1>2. SInv /\ [SNext]_svars => SInv'
  BY NextInv
<1>3. SInv /\ BindingOK /\ [SNext]_svars => BindingOK'
  BY BindingNext
<1>4. SInv /\ BindingOK /\ VerifiedIsWhole /\ [SNext]_svars => VerifiedIsWhole'
  BY VerifiedNext
<1> QED
  BY <1>1, <1>2, <1>3, <1>4, PTL DEF SSpec

\* In every session target_length announces, to either host, the room
\* encode_padded takes and no less than encode takes, whatever the bytes of the
\* manifest, as long as the padded wrappers of the manifests fit the address space.
THEOREM PlansTheRoom ==
  ASSUME ManifestsFit
  PROVE  SSpec => []PlannedRoom
<1>1. SInit => PlannedRoom
  <2>1. SInit => call.name = "none"
    BY DEF SInit, Call
  <2> QED
    BY <2>1 DEF PlannedRoom
<1>2. PlannedRoom /\ [SNext]_svars => PlannedRoom'
  BY RoomNext
<1> QED
  BY <1>1, <1>2, PTL DEF SSpec
=============================================================================
