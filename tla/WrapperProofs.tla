--------------------------- MODULE WrapperProofs ---------------------------
(***************************************************************************)
(* Theorems about the frame of src/wrapper.rs, for every text, payload and *)
(* width of the length field.                                              *)
(***************************************************************************)
EXTENDS Wrapper, VariationSelectorsProofs

-----------------------------------------------------------------------------
(* Results *)

\* A result is of one kind.
LEMMA OkOrErr ==
  /\ \A v : IsOk(Ok(v)) /\ Ok(v).ok = v
  /\ \A v : ~IsOk(Err(v))
<1>1. \A v : DOMAIN Ok(v) = {"ok"} /\ Ok(v).ok = v
  BY DEF Ok
<1>2. \A v : DOMAIN Err(v) = {"err"}
  BY DEF Err
<1>3. "ok" # "err"
  OBVIOUS
<1> QED
  BY <1>1, <1>2, <1>3 DEF IsOk

\* A panic is neither a result nor an error.
LEMMA PanicIsNoResult ==
  /\ ~IsOk(Panic)
  /\ \A e : Panic # Err(e)
<1>1. DOMAIN Panic = {"panic"} /\ \A e : DOMAIN Err(e) = {"err"}
  BY DEF Panic, Err
<1>2. "panic" # "ok" /\ "panic" # "err"
  OBVIOUS
<1> QED
  BY <1>1, <1>2 DEF IsOk

-----------------------------------------------------------------------------
(* The signature of a candidate *)

\* The magic is eight bytes.
LEMMA MagicProperties ==
  /\ MAGIC \in Seq(Byte)
  /\ Len(MAGIC) = 8
BY DEF MAGIC, Byte

\* The marker is a character of three bytes and no selector.
LEMMA MarkerProperties ==
  /\ MARKER \in Char
  /\ ~IsVs(MARKER)
  /\ LenUtf8(MARKER) = 3
<1>1. MARKER \notin VS_START .. VS_END /\ MARKER \notin VS_SUP_START .. VS_SUP_END
  BY DEF MARKER, VS_START, VS_END, VS_SUP_START, VS_SUP_END
<1>2. ~IsVs(MARKER)
  BY <1>1, VsToByteArms DEF IsVs
<1>3. MARKER \in Char
  <2>1. MARKER \in Nat /\ MARKER <= CHAR_MAX /\ CHAR_MAX \in Nat
    BY DEF MARKER, CHAR_MAX
  <2> QED
    BY <2>1 DEF Char
<1>4. LenUtf8(MARKER) = 3
  BY DEF MARKER, LenUtf8
<1> QED
  BY <1>2, <1>3, <1>4

\* The signature is the marker and the eight selectors of the magic.
LEMMA SignatureProperties ==
  /\ Signature \in Seq(Char)
  /\ Len(Signature) = 9
  /\ Signature[1] = MARKER
  /\ \A j \in 1 .. 8 : Signature[j + 1] = ByteToVs(MAGIC[j])
<1>1. /\ EncodeRun(MAGIC) \in Seq(Char)
      /\ Len(EncodeRun(MAGIC)) = 8
      /\ \A j \in 1 .. 8 : EncodeRun(MAGIC)[j] = ByteToVs(MAGIC[j])
  BY MagicProperties, EncodeRunProperties
<1> DEFINE encoded == EncodeRun(MAGIC)
<1>0. encoded \in Seq(Char) /\ MARKER \in Char
  BY <1>1, MarkerProperties
<1> HIDE DEF encoded
<1>2. /\ <<MARKER>> \o encoded \in Seq(Char)
      /\ Len(<<MARKER>> \o encoded) = Len(encoded) + 1
      /\ (<<MARKER>> \o encoded)[1] = MARKER
      /\ \A j \in 1 .. Len(encoded) : (<<MARKER>> \o encoded)[j + 1] = encoded[j]
  BY <1>0, ConsProperties
<1> QED
  BY <1>1, <1>2 DEF Signature, encoded

\* Where the signature stands, character by character.
LEMMA SignatureAt ==
  ASSUME NEW text \in Seq(Char), NEW i \in 1 .. Len(text)
  PROVE  OccursAt(Signature, text, i) <=>
           /\ i + 8 <= Len(text)
           /\ text[i] = MARKER
           /\ \A j \in 1 .. 8 : text[i + j] = ByteToVs(MAGIC[j])
<1> DEFINE sub == SubSeq(text, i, i + 8)
<1>1. OccursAt(Signature, text, i) <=> i + 8 <= Len(text) /\ sub = Signature
  <2>1. i + Len(Signature) - 1 = i + 8
    BY SignatureProperties
  <2> QED
    BY <2>1 DEF OccursAt
<1>2. SUFFICES ASSUME i + 8 <= Len(text)
               PROVE  sub = Signature <=>
                        /\ text[i] = MARKER
                        /\ \A j \in 1 .. 8 : text[i + j] = ByteToVs(MAGIC[j])
  BY <1>1
<1>3. /\ sub \in Seq(Char)
      /\ Len(sub) = 9
      /\ \A k \in 1 .. 9 : sub[k] = text[i + k - 1]
  <2>1. i \in 1 .. Len(text) + 1 /\ i + 8 \in i - 1 .. Len(text)
    BY <1>2
  <2>2. (i + 8) - i + 1 = 9
    OBVIOUS
  <2> QED
    BY <2>1, <2>2, PartProperties
<1> HIDE DEF sub
<1>4. sub[1] = text[i]
  <2>1. i + 1 - 1 = i
    OBVIOUS
  <2> QED
    BY <1>3, <2>1
<1>5. \A j \in 1 .. 8 : sub[j + 1] = text[i + j]
  <2> TAKE j \in 1 .. 8
  <2>1. j + 1 \in 1 .. 9 /\ i + (j + 1) - 1 = i + j
    OBVIOUS
  <2> QED
    BY <1>3, <2>1
<1>6. ASSUME sub = Signature
      PROVE  text[i] = MARKER /\ \A j \in 1 .. 8 : text[i + j] = ByteToVs(MAGIC[j])
  BY <1>4, <1>5, <1>6, SignatureProperties
<1>7. ASSUME text[i] = MARKER, \A j \in 1 .. 8 : text[i + j] = ByteToVs(MAGIC[j])
      PROVE  sub = Signature
  <2>1. ASSUME NEW k \in 1 .. 9
        PROVE  sub[k] = Signature[k]
    <3>1. CASE k = 1
      BY <1>4, <1>7, <3>1, SignatureProperties
    <3>2. CASE k # 1
      <4>1. PICK j \in 1 .. 8 : k = j + 1
        <5>1. k - 1 \in 1 .. 8 /\ k = (k - 1) + 1
          BY <3>2
        <5> QED
          BY <5>1
      <4> QED
        BY <1>5, <1>7, <4>1, SignatureProperties
    <3> QED
      BY <3>1, <3>2
  <2> QED
    BY <1>3, <2>1, SignatureProperties, SeqEqual
<1> QED
  BY <1>6, <1>7

\* A candidate is seen at a marker exactly if the encoded magic follows it.
LEMMA MagicIffSignature ==
  ASSUME NEW text \in Seq(Char), NEW i \in 1 .. Len(text), text[i] = MARKER
  PROVE  HasMagic(VisitAt(text, i).run) <=> OccursAt(Signature, text, i)
<1> DEFINE rest == SubSeq(text, i + 1, Len(text))
           run  == DecodeRun(rest).bytes
<1>1. VisitAt(text, i).run = run
  BY DEF VisitAt
<1>2. /\ rest \in Seq(Char)
      /\ Len(rest) = Len(text) - i
      /\ \A j \in 1 .. Len(text) - i : rest[j] = text[i + j]
  BY RestProperties
<1> HIDE DEF rest
<1>3. /\ RunLen(rest) \in 0 .. Len(rest)
      /\ \A j \in 1 .. RunLen(rest) : IsVs(rest[j])
  BY <1>2, RunLenDef
<1>4. /\ run \in Seq(Byte)
      /\ Len(run) = RunLen(rest)
      /\ \A j \in 1 .. RunLen(rest) : run[j] = VsToByte(rest[j])
  BY <1>2, DecodeRunProperties
<1> HIDE DEF run
<1>5. HasMagic(run) <=> 8 <= Len(run) /\ \A j \in 1 .. 8 : run[j] = MAGIC[j]
  <2>1. CASE Len(run) >= 8
    <3>1. /\ SubSeq(run, 1, 8) \in Seq(Byte)
          /\ Len(SubSeq(run, 1, 8)) = 8
          /\ \A j \in 1 .. 8 : SubSeq(run, 1, 8)[j] = run[j]
      BY <1>4, <2>1
    <3> QED
      BY <1>4, <2>1, <3>1, MagicProperties, SeqEqual DEF HasMagic
  <2> QED
    BY <1>4, <2>1, MagicProperties DEF HasMagic
<1>6. OccursAt(Signature, text, i)
        <=> i + 8 <= Len(text) /\ \A j \in 1 .. 8 : text[i + j] = ByteToVs(MAGIC[j])
  BY SignatureAt
<1>7. ASSUME HasMagic(run)
      PROVE  OccursAt(Signature, text, i)
  <2>1. 8 <= RunLen(rest) /\ 8 <= Len(text) - i
    BY <1>2, <1>3, <1>4, <1>5, <1>7
  <2>2. \A j \in 1 .. 8 : IsVs(rest[j]) /\ VsToByte(rest[j]) = MAGIC[j]
    BY <1>3, <1>4, <1>5, <1>7, <2>1
  <2>3. \A j \in 1 .. 8 : rest[j] = ByteToVs(MAGIC[j])
    BY <2>2, SelectorRoundTrip
  <2>4. \A j \in 1 .. 8 : text[i + j] = ByteToVs(MAGIC[j])
    BY <1>2, <2>1, <2>3
  <2>5. i + 8 <= Len(text)
    BY <2>1
  <2> QED
    BY <1>6, <2>4, <2>5
<1>8. ASSUME OccursAt(Signature, text, i)
      PROVE  HasMagic(run)
  <2>1. i + 8 <= Len(text) /\ \A j \in 1 .. 8 : text[i + j] = ByteToVs(MAGIC[j])
    BY <1>6, <1>8
  <2>2. 8 \in 0 .. Len(rest) /\ \A j \in 1 .. 8 : rest[j] = ByteToVs(MAGIC[j])
    <3>1. 8 \in 0 .. Len(rest)
      BY <1>2, <2>1
    <3>2. ASSUME NEW j \in 1 .. 8
          PROVE  rest[j] = ByteToVs(MAGIC[j])
      <4>1. j \in 1 .. Len(text) - i
        BY <2>1
      <4> QED
        BY <1>2, <2>1, <4>1
    <3> QED
      BY <3>1, <3>2
  <2>3. \A j \in 1 .. 8 : MAGIC[j] \in Byte
    BY MagicProperties, ElementOfSeq
  <2>4. \A j \in 1 .. 8 : IsVs(rest[j]) /\ VsToByte(rest[j]) = MAGIC[j]
    BY <2>2, <2>3, ByteRoundTrip
  <2>5. 8 <= RunLen(rest)
    BY <1>2, <2>2, <2>4, RunLenAtLeast
  <2>6. \A j \in 1 .. 8 : run[j] = MAGIC[j]
    BY <1>3, <1>4, <2>4, <2>5
  <2> QED
    BY <1>3, <1>4, <1>5, <2>5, <2>6
<1> QED
  BY <1>1, <1>7, <1>8 DEF run

\* extract says NotFound exactly if no marker has a run that bears the magic.
LEMMA NotFoundIffNoMagic ==
  ASSUME NEW text
  PROVE  Extract(text) = Err("NotFound") <=> \A v \in Scan(text) : ~HasMagic(v.run)
<1>1. \A v \in Scan(text) :
        DecodeFrame(v.run, v.start, v.length) # {} => HasMagic(v.run)
  BY DEF DecodeFrame, Decodes, HasBounds
<1>2. LocateAll(text) = {} <=>
        \A v \in Scan(text) : DecodeFrame(v.run, v.start, v.length) = {}
  BY DEF LocateAll
<1>3. Extract(text) = Err("NotFound") <=>
        ~HasCorruptedCandidate(text) /\ LocateAll(text) = {}
  BY DEF Extract, Err, Ok
<1> QED
  BY <1>1, <1>2, <1>3 DEF HasCorruptedCandidate

\* Error::NotFound means that the text carries no provenance at all, and only
\* it does: extract returns it exactly if the marker followed by the encoded
\* magic occurs nowhere in the text.
THEOREM NotFoundIffNoSignature ==
  ASSUME NEW text \in Seq(Char)
  PROVE  Extract(text) = Err("NotFound") <=> ~Occurs(Signature, text)
<1>1. ASSUME NEW v \in Scan(text), HasMagic(v.run)
      PROVE  Occurs(Signature, text)
  <2>1. PICK i \in 1 .. Len(text) : text[i] = MARKER /\ v = VisitAt(text, i)
    BY DEF Scan
  <2> QED
    BY <1>1, <2>1, MagicIffSignature DEF Occurs
<1>2. ASSUME NEW i \in 1 .. Len(text), OccursAt(Signature, text, i)
      PROVE  \E v \in Scan(text) : HasMagic(v.run)
  <2>1. text[i] = MARKER
    BY <1>2, SignatureAt
  <2>2. VisitAt(text, i) \in Scan(text)
    BY <2>1 DEF Scan
  <2> QED
    BY <1>2, <2>1, <2>2, MagicIffSignature
<1> QED
  BY <1>1, <1>2, NotFoundIffNoMagic DEF Occurs

-----------------------------------------------------------------------------
(* Encoding *)

\* Encoding distributes over concatenation.
LEMMA EncodeRunConcat ==
  ASSUME NEW s \in Seq(Byte), NEW t \in Seq(Byte)
  PROVE  EncodeRun(s \o t) = EncodeRun(s) \o EncodeRun(t)
<1>1. s \o t \in Seq(Byte) /\ Len(s \o t) = Len(s) + Len(t)
  OBVIOUS
<1>2. EncodeRun(s \o t) \in Seq(Char) /\ Len(EncodeRun(s \o t)) = Len(s) + Len(t)
  BY <1>1, EncodeRunProperties
<1>3. /\ EncodeRun(s) \in Seq(Char) /\ Len(EncodeRun(s)) = Len(s)
      /\ EncodeRun(t) \in Seq(Char) /\ Len(EncodeRun(t)) = Len(t)
  BY EncodeRunProperties
<1>4. /\ EncodeRun(s) \o EncodeRun(t) \in Seq(Char)
      /\ Len(EncodeRun(s) \o EncodeRun(t)) = Len(s) + Len(t)
  BY <1>3
<1>5. ASSUME NEW i \in 1 .. Len(s) + Len(t)
      PROVE  EncodeRun(s \o t)[i] = (EncodeRun(s) \o EncodeRun(t))[i]
  <2>1. EncodeRun(s \o t)[i] = ByteToVs((s \o t)[i])
    BY <1>1 DEF EncodeRun
  <2>2. CASE i <= Len(s)
    <3>1. (s \o t)[i] = s[i]
      BY <2>2
    <3>2. (EncodeRun(s) \o EncodeRun(t))[i] = EncodeRun(s)[i]
      BY <1>3, <2>2
    <3>3. EncodeRun(s)[i] = ByteToVs(s[i])
      BY <2>2 DEF EncodeRun
    <3> QED
      BY <2>1, <3>1, <3>2, <3>3
  <2>3. CASE i > Len(s)
    <3>1. (s \o t)[i] = t[i - Len(s)]
      BY <2>3
    <3>2. (EncodeRun(s) \o EncodeRun(t))[i] = EncodeRun(t)[i - Len(s)]
      BY <1>3, <2>3
    <3>3. EncodeRun(t)[i - Len(s)] = ByteToVs(t[i - Len(s)])
      BY <2>3 DEF EncodeRun
    <3> QED
      BY <2>1, <3>1, <3>2, <3>3
  <2>4. i <= Len(s) \/ i > Len(s)
    OBVIOUS
  <2> QED
    BY <2>2, <2>3, <2>4
<1> QED
  BY <1>2, <1>4, <1>5, SeqEqual

\* carry puts the marker in front of the encoded frame.
LEMMA CarryProperties ==
  ASSUME NEW framed \in Seq(Byte)
  PROVE  /\ Carry(framed) \in Seq(Char)
         /\ Len(Carry(framed)) = Len(framed) + 1
         /\ Carry(framed)[1] = MARKER
         /\ \A j \in 1 .. Len(framed) : Carry(framed)[j + 1] = ByteToVs(framed[j])
         /\ ByteLen(Carry(framed)) = 3 + ByteLen(EncodeRun(framed))
<1>1. EncodeRun(framed) \in Seq(Char) /\ MARKER \in Char
  BY EncodeRunProperties, MarkerProperties
<1>2. /\ Len(EncodeRun(framed)) = Len(framed)
      /\ \A j \in 1 .. Len(framed) : EncodeRun(framed)[j] = ByteToVs(framed[j])
  BY EncodeRunProperties
<1>3. /\ Carry(framed) \in Seq(Char)
      /\ Len(Carry(framed)) = Len(EncodeRun(framed)) + 1
      /\ Carry(framed)[1] = MARKER
      /\ \A j \in 1 .. Len(EncodeRun(framed)) :
           Carry(framed)[j + 1] = EncodeRun(framed)[j]
  BY <1>1, ConsProperties DEF Carry
<1>4. <<MARKER>> \in Seq(Char)
  BY <1>1
<1>5. ByteLen(Carry(framed)) = ByteLen(<<MARKER>>) + ByteLen(EncodeRun(framed))
  BY <1>1, <1>4, ByteLenConcat DEF Carry
<1> QED
  BY <1>2, <1>3, <1>5, ByteLenOne, MarkerProperties

\* The defining equation of Shifted.
LEMMA ShiftedDef ==
  ASSUME NEW n \in Nat
  PROVE  Shifted(n) = [k \in 0 .. LENGTH_BYTES |->
                         IF k = 0 THEN n ELSE Shifted(n)[k - 1] \div 256]
<1> DEFINE Shifts(m) == {f \in [0 .. m -> Nat] :
                           f = [k \in 0 .. m |->
                                  IF k = 0 THEN n ELSE f[k - 1] \div 256]}
           D == {m \in Nat : Shifts(m) # {}}
<1>1. 0 \in D
  <2>1. [k \in 0 .. 0 |-> n] \in Shifts(0)
    OBVIOUS
  <2> QED
    BY <2>1
<1>2. \A m \in D : m + 1 \in D
  <2> SUFFICES ASSUME NEW m \in D
               PROVE  m + 1 \in D
    OBVIOUS
  <2>1. PICK f \in [0 .. m -> Nat] :
          f = [k \in 0 .. m |-> IF k = 0 THEN n ELSE f[k - 1] \div 256]
    OBVIOUS
  <2> DEFINE g == [k \in 0 .. m + 1 |->
                     IF k = m + 1 THEN f[m] \div 256 ELSE f[k]]
  <2>2. g \in [0 .. m + 1 -> Nat]
    BY <2>1
  <2>3. \A k \in 0 .. m + 1 : g[k] = IF k = 0 THEN n ELSE g[k - 1] \div 256
    BY <2>1
  <2>4. g = [k \in 0 .. m + 1 |-> IF k = 0 THEN n ELSE g[k - 1] \div 256]
    BY <2>3
  <2>5. Shifts(m + 1) # {}
    <3> HIDE DEF g
    <3> QED
      BY <2>2, <2>4
  <2> QED
    <3> HIDE DEF Shifts
    <3> QED
      BY <2>5
<1>3. D = Nat
  <2> HIDE DEF D
  <2> QED
    BY <1>1, <1>2, NatSetInduction DEF D
<1>4. LENGTH_BYTES \in Nat
  BY WidthAssumption
<1>5. \E f : f = [k \in 0 .. LENGTH_BYTES |->
                    IF k = 0 THEN n ELSE f[k - 1] \div 256]
  <2>1. Shifts(LENGTH_BYTES) # {}
    <3> HIDE DEF Shifts
    <3> QED
      BY <1>3, <1>4
  <2> QED
    BY <2>1
<1> QED
  BY <1>5 DEF Shifted

\* Shifting a natural number gives a natural number.
LEMMA ShiftedNat ==
  ASSUME NEW n \in Nat
  PROVE  \A k \in 0 .. LENGTH_BYTES : Shifted(n)[k] \in Nat
<1> DEFINE D == {k \in Nat : k <= LENGTH_BYTES => Shifted(n)[k] \in Nat}
<1>1. LENGTH_BYTES \in Nat
  BY WidthAssumption
<1>2. 0 \in D
  BY <1>1, ShiftedDef
<1>3. ASSUME NEW k \in D
      PROVE  k + 1 \in D
  <2>1. CASE k + 1 <= LENGTH_BYTES
    <3>1. Shifted(n)[k + 1] = Shifted(n)[k] \div 256
      BY <1>1, <2>1, ShiftedDef
    <3>2. Shifted(n)[k] \in Nat
      BY <1>1, <2>1
    <3> QED
      BY <3>1, <3>2
  <2> QED
    BY <2>1
<1>4. D = Nat
  <2> HIDE DEF D
  <2> QED
    BY <1>2, <1>3, NatSetInduction DEF D
<1> QED
  BY <1>1, <1>4

\* Concatenation, of byte strings.
LEMMA ConcatBytes ==
  ASSUME NEW s \in Seq(Byte), NEW t \in Seq(Byte)
  PROVE  /\ s \o t \in Seq(Byte)
         /\ Len(s \o t) = Len(s) + Len(t)
         /\ \A j \in 1 .. Len(s) : (s \o t)[j] = s[j]
OBVIOUS

\* Concatenation, of texts.
LEMMA ConcatTexts ==
  ASSUME NEW s \in Seq(Char), NEW t \in Seq(Char)
  PROVE  /\ s \o t \in Seq(Char)
         /\ Len(s \o t) = Len(s) + Len(t)
         /\ \A k \in 1 .. Len(s) : (s \o t)[k] = s[k]
         /\ \A k \in 1 .. Len(t) : (s \o t)[Len(s) + k] = t[k]
OBVIOUS

\* A frame begins with the magic, and padding only adds to its end.
LEMMA FramedProperties ==
  ASSUME NEW payload \in Seq(Byte), NEW pad \in Seq(Byte)
  PROVE  /\ Framed(payload, pad) \in Seq(Byte)
         /\ Len(Framed(payload, pad)) = HEADER_LEN + Len(payload) + Len(pad)
         /\ \A j \in 1 .. 8 : Framed(payload, pad)[j] = MAGIC[j]
         /\ Framed(payload, pad) = Framed(payload, <<>>) \o pad
         /\ HEADER_LEN = 9 + LENGTH_BYTES
         /\ LENGTH_BYTES \in Nat
<1> DEFINE size  == ToBeBytes(Len(payload))
           front == MAGIC \o <<VERSION>> \o size \o payload
<1>1. LENGTH_BYTES \in Nat
  BY WidthAssumption
<1>2. size \in Seq(Byte) /\ Len(size) = LENGTH_BYTES
  <2>1. \A i \in 1 .. LENGTH_BYTES : LENGTH_BYTES - i \in 0 .. LENGTH_BYTES
    BY <1>1
  <2>2. \A i \in 1 .. LENGTH_BYTES :
          Shifted(Len(payload))[LENGTH_BYTES - i] % 256 \in Byte
    <3>1. \A x \in Nat : x % 256 \in Byte
      BY DEF Byte
    <3>2. Len(payload) \in Nat
      OBVIOUS
    <3> QED
      BY <2>1, <3>1, <3>2, ShiftedNat
  <2> QED
    BY <1>1, <2>2 DEF ToBeBytes
<1>3. VERSION \in Byte
  BY DEF VERSION, Byte
<1>4. Framed(payload, pad) = front \o pad /\ Framed(payload, <<>>) = front \o <<>>
  BY DEF Framed
<1> HIDE DEF size
<1>5. /\ front \in Seq(Byte)
      /\ Len(front) = 9 + LENGTH_BYTES + Len(payload)
      /\ \A j \in 1 .. 8 : front[j] = MAGIC[j]
  <2> DEFINE head == MAGIC \o <<VERSION>>
             wide == head \o size
  <2>1. /\ head \in Seq(Byte)
        /\ Len(head) = 9
        /\ \A j \in 1 .. 8 : head[j] = MAGIC[j]
    <3> DEFINE one == <<VERSION>>
    <3>1. one \in Seq(Byte) /\ Len(one) = 1
      BY <1>3
    <3> HIDE DEF one
    <3>2. MAGIC \in Seq(Byte) /\ Len(MAGIC) = 8
      BY MagicProperties
    <3>3. /\ MAGIC \o one \in Seq(Byte)
          /\ Len(MAGIC \o one) = Len(MAGIC) + Len(one)
          /\ \A j \in 1 .. Len(MAGIC) : (MAGIC \o one)[j] = MAGIC[j]
      BY <3>1, <3>2, ConcatBytes
    <3>4. Len(MAGIC \o one) = 9 /\ \A j \in 1 .. 8 : (MAGIC \o one)[j] = MAGIC[j]
      BY <3>1, <3>2, <3>3
    <3> QED
      BY <3>3, <3>4 DEF one
  <2> HIDE DEF head
  <2>2. /\ wide \in Seq(Byte)
        /\ Len(wide) = 9 + LENGTH_BYTES
        /\ \A j \in 1 .. 8 : wide[j] = MAGIC[j]
    <3>1. /\ wide \in Seq(Byte)
          /\ Len(wide) = Len(head) + Len(size)
          /\ \A j \in 1 .. Len(head) : wide[j] = head[j]
      BY <1>2, <2>1, ConcatBytes
    <3>2. \A j \in 1 .. 8 : j \in 1 .. Len(head)
      BY <2>1
    <3> HIDE DEF wide
    <3> QED
      BY <1>2, <2>1, <3>1, <3>2
  <2> HIDE DEF wide
  <2>3. /\ wide \o payload \in Seq(Byte)
        /\ Len(wide \o payload) = 9 + LENGTH_BYTES + Len(payload)
        /\ \A j \in 1 .. 8 : (wide \o payload)[j] = MAGIC[j]
    <3>1. /\ wide \o payload \in Seq(Byte)
          /\ Len(wide \o payload) = Len(wide) + Len(payload)
          /\ \A j \in 1 .. Len(wide) : (wide \o payload)[j] = wide[j]
      BY <2>2, ConcatBytes
    <3>2. \A j \in 1 .. 8 : j \in 1 .. Len(wide)
      BY <1>1, <2>2
    <3> QED
      BY <2>2, <3>1, <3>2
  <2> QED
    BY <2>3 DEF wide, head
<1> HIDE DEF front
<1>6. HEADER_LEN = 9 + LENGTH_BYTES
  BY <1>1, MagicProperties DEF HEADER_LEN
<1>7. /\ front \o pad \in Seq(Byte)
      /\ Len(front \o pad) = Len(front) + Len(pad)
      /\ \A j \in 1 .. 8 : (front \o pad)[j] = front[j]
      /\ front \o <<>> = front
  <2>1. front \in Seq(Byte) /\ \A j \in 1 .. 8 : j \in 1 .. Len(front)
    BY <1>1, <1>5
  <2> HIDE DEF front
  <2> QED
    BY <2>1
<1> QED
  BY <1>1, <1>4, <1>5, <1>6, <1>7

\* What encode_padded appends to fill its target length, when it succeeds.
LEMMA PaddingTyped ==
  ASSUME NEW gap \in Nat, IsOk(Padding(gap))
  PROVE  Padding(gap).ok \in Seq(Byte)
<1> DEFINE b == gap % 3
           a == (gap - 4 * b) \div 3
<1>1. ~(gap < 4 * b)
  BY DEF Padding, Err, IsOk
<1>2. b \in 0 .. 2
  OBVIOUS
<1>3. gap - 4 * b \in Nat
  <2> HIDE DEF b
  <2> QED
    BY <1>1, <1>2
<1>4. a \in Nat
  <2> HIDE DEF b
  <2> QED
    BY <1>3
<1>5. a + b \in Nat
  BY <1>2, <1>4
<1>6. \h00 \in Byte /\ \h10 \in Byte
  BY DEF Byte
<1>7. Padding(gap).ok = [i \in 1 .. a + b |-> IF i <= a THEN \h00 ELSE \h10]
  BY <1>1 DEF Padding, Ok
<1> HIDE DEF a, b
<1> QED
  BY <1>5, <1>6, <1>7

\* Whatever encode_with_padding returns is a carried frame.
LEMMA EncodeWithPaddingOk ==
  ASSUME NEW payload \in Seq(Byte), NEW pad \in Seq(Byte),
         IsOk(EncodeWithPadding(payload, pad))
  PROVE  EncodeWithPadding(payload, pad).ok = Carry(Framed(payload, pad))
BY DEF EncodeWithPadding, Ok, Err, IsOk

\* encode returns the carried frame without padding, or fails.
LEMMA EncodeOk ==
  ASSUME NEW payload \in Seq(Byte), IsOk(Encode(payload))
  PROVE  Encode(payload).ok = Carry(Framed(payload, <<>>))
<1>1. <<>> \in Seq(Byte)
  OBVIOUS
<1> QED
  BY <1>1, EncodeWithPaddingOk DEF Encode

\* encode_padded returns a carried frame with some padding, where its length is
\* one of the build, or fails.
LEMMA EncodePaddedOk ==
  ASSUME NEW payload \in Seq(Byte), IsOk(EncodePadded(payload))
  PROVE  /\ \E pad \in Seq(Byte) : EncodePadded(payload).ok = Carry(Framed(payload, pad))
         /\ TargetLength(Len(payload)) <= USIZE_MAX
<1> DEFINE target == TargetLength(Len(payload))
           base   == Encode(payload)
           gap    == target - ByteLen(base.ok)
           pad    == Padding(gap)
<1>0. ~(target > USIZE_MAX)
  BY PanicIsNoResult DEF EncodePadded
<1>1. IsOk(base) /\ ~(gap < 0) /\ IsOk(pad)
  <2>1. CASE ~IsOk(base)
    BY <1>0, <2>1 DEF EncodePadded
  <2>2. CASE IsOk(base) /\ gap < 0
    BY <1>0, <2>2 DEF EncodePadded, Err, IsOk
  <2>3. CASE IsOk(base) /\ ~(gap < 0) /\ ~IsOk(pad)
    BY <1>0, <2>3 DEF EncodePadded
  <2> QED
    BY <2>1, <2>2, <2>3
<1>2. EncodePadded(payload) = EncodeWithPadding(payload, pad.ok)
  BY <1>0, <1>1 DEF EncodePadded
<1>3. gap \in Nat /\ target <= USIZE_MAX
  <2>1. ByteLen(base.ok) \in Nat
    <3>1. <<>> \in Seq(Byte)
      OBVIOUS
    <3>2. Framed(payload, <<>>) \in Seq(Byte)
      BY <3>1, FramedProperties
    <3>3. Carry(Framed(payload, <<>>)) \in Seq(Char)
      BY <3>2, CarryProperties
    <3> QED
      BY <1>1, <3>3, EncodeOk, ByteLenNat
  <2>2. target \in Int
    <3>1. HEADER_LEN \in Nat
      BY WidthAssumption, MagicProperties DEF HEADER_LEN
    <3> QED
      BY <3>1 DEF TargetLength
  <2>3. USIZE_MAX \in Nat
    BY WidthAssumption
  <2> HIDE DEF target, base
  <2> QED
    BY <1>0, <1>1, <2>1, <2>2, <2>3
<1>4. pad.ok \in Seq(Byte)
  <2> HIDE DEF gap
  <2> QED
    BY <1>1, <1>3, PaddingTyped
<1> HIDE DEF pad
<1>5. \E q \in Seq(Byte) : EncodePadded(payload).ok = Carry(Framed(payload, q))
  BY <1>2, <1>4, EncodeWithPaddingOk
<1> QED
  BY <1>3, <1>5

\* A carried frame begins with the signature.
LEMMA CarriedSignature ==
  ASSUME NEW payload \in Seq(Byte), NEW pad \in Seq(Byte)
  PROVE  /\ Carry(Framed(payload, pad)) \in Seq(Char)
         /\ OccursAt(Signature, Carry(Framed(payload, pad)), 1)
<1> DEFINE framed == Framed(payload, pad)
           text   == Carry(framed)
<1>1. framed \in Seq(Byte) /\ Len(framed) >= 8 /\ \A j \in 1 .. 8 : framed[j] = MAGIC[j]
  <2>1. Len(payload) \in Nat /\ Len(pad) \in Nat
    OBVIOUS
  <2> HIDE DEF framed
  <2>2. /\ framed \in Seq(Byte)
        /\ Len(framed) = HEADER_LEN + Len(payload) + Len(pad)
        /\ HEADER_LEN = 9 + LENGTH_BYTES
        /\ LENGTH_BYTES \in Nat
        /\ \A j \in 1 .. 8 : framed[j] = MAGIC[j]
    BY FramedProperties DEF framed
  <2> QED
    BY <2>1, <2>2
<1> HIDE DEF framed
<1>2. /\ text \in Seq(Char)
      /\ Len(text) = Len(framed) + 1
      /\ text[1] = MARKER
      /\ \A j \in 1 .. Len(framed) : text[j + 1] = ByteToVs(framed[j])
  BY <1>1, CarryProperties
<1> HIDE DEF text
<1>3. \A j \in 1 .. 8 : text[1 + j] = ByteToVs(MAGIC[j])
  <2>1. \A j \in 1 .. 8 : j \in 1 .. Len(framed) /\ 1 + j = j + 1
    BY <1>1
  <2> QED
    BY <1>1, <1>2, <2>1
<1>4. 1 \in 1 .. Len(text) /\ 1 + 8 <= Len(text)
  BY <1>1, <1>2
<1>5. OccursAt(Signature, text, 1)
  BY <1>2, <1>3, <1>4, SignatureAt
<1> QED
  BY <1>2, <1>5 DEF text, framed

-----------------------------------------------------------------------------
(* Padding *)

\* A selector of the first block is three bytes long, one of the Supplement four.
LEMMA SelectorLength ==
  /\ LenUtf8(ByteToVs(\h00)) = 3
  /\ LenUtf8(ByteToVs(\h10)) = 4
BY DEF LenUtf8, ByteToVs, VS_START, VS_SUP_START

\* "Only 1, 2 and 5 are not expressible" as 3a + 4b.
LEMMA PaddingFails ==
  ASSUME NEW gap \in Nat
  PROVE  gap < 4 * (gap % 3) <=> gap \in {1, 2, 5}
<1> DEFINE q == gap \div 3
           b == gap % 3
<1>1. q \in Nat /\ b \in 0 .. 2 /\ gap = 3 * q + b
  OBVIOUS
<1> HIDE DEF q, b
<1>2. CASE b = 0
  BY <1>1, <1>2 DEF b
<1>3. CASE b = 1
  <2>1. gap < 4 * b <=> q = 0
    BY <1>1, <1>3
  <2>2. gap \in {1, 2, 5} <=> q = 0
    BY <1>1, <1>3
  <2> QED
    BY <2>1, <2>2 DEF b
<1>4. CASE b = 2
  <2>1. gap < 4 * b <=> q \in {0, 1}
    BY <1>1, <1>4
  <2>2. gap \in {1, 2, 5} <=> q \in {0, 1}
    BY <1>1, <1>4
  <2> QED
    BY <2>1, <2>2 DEF b
<1>5. b = 0 \/ b = 1 \/ b = 2
  BY <1>1
<1> QED
  BY <1>2, <1>3, <1>4, <1>5

\* Every other gap is filled to the byte.
LEMMA PaddingFits ==
  ASSUME NEW gap \in Nat, gap \notin {1, 2, 5}
  PROVE  /\ IsOk(Padding(gap))
         /\ Padding(gap).ok \in Seq(Byte)
         /\ ByteLen(EncodeRun(Padding(gap).ok)) = gap
<1> DEFINE b   == gap % 3
           a   == (gap - 4 * b) \div 3
           pad == [i \in 1 .. a + b |-> IF i <= a THEN \h00 ELSE \h10]
           run == EncodeRun(pad)
           D   == {n \in Nat : n <= a + b =>
                     PrefixLen(run)[n] = IF n <= a THEN 3 * n ELSE 3 * a + 4 * (n - a)}
<1>1. Padding(gap) = Ok(pad) /\ IsOk(Padding(gap))
  <2>1. ~(gap < 4 * b)
    BY PaddingFails
  <2> QED
    BY <2>1 DEF Padding, Ok, IsOk
<1>2. pad \in Seq(Byte)
  BY <1>1, PaddingTyped DEF Ok
<1>3. a \in Nat /\ b \in Nat /\ gap = 3 * a + 4 * b
  <2>1. gap >= 4 * b
    BY PaddingFails
  <2>2. \E q \in Nat : gap = 3 * q + b
    <3>1. gap \div 3 \in Nat /\ gap = 3 * (gap \div 3) + b
      OBVIOUS
    <3> QED
      BY <3>1
  <2>3. b \in 0 .. 2
    OBVIOUS
  <2> HIDE DEF b
  <2>4. PICK q \in Nat : gap = 3 * q + b
    BY <2>2
  <2>5. gap - 4 * b = 3 * (q - b) /\ q - b \in Nat
    BY <2>1, <2>3, <2>4
  <2>6. (3 * (q - b)) \div 3 = q - b
    BY <2>5
  <2>7. a = q - b
    BY <2>5, <2>6
  <2> QED
    BY <2>3, <2>4, <2>5, <2>7
<1>4. /\ Len(pad) = a + b
      /\ \A i \in 1 .. a + b : pad[i] = IF i <= a THEN \h00 ELSE \h10
  <2> HIDE DEF a, b
  <2> QED
    BY <1>3
<1> HIDE DEF a, b, pad
<1>5. /\ Len(run) = a + b
      /\ \A i \in 1 .. a + b : run[i] = ByteToVs(pad[i])
  BY <1>2, <1>4, EncodeRunProperties
<1> HIDE DEF run
<1>6. \A i \in 1 .. a + b : LenUtf8(run[i]) = IF i <= a THEN 3 ELSE 4
  BY <1>4, <1>5, SelectorLength
<1>7. Len(run) \in Nat
  BY <1>3, <1>5
<1>8. 0 \in D
  BY <1>3, <1>7, PrefixLenDef
<1>9. ASSUME NEW n \in D
      PROVE  n + 1 \in D
  <2>1. CASE n + 1 <= a + b
    <3>1. PrefixLen(run)[n + 1] = PrefixLen(run)[n] + LenUtf8(run[n + 1])
      BY <1>5, <1>7, <2>1, PrefixLenNext
    <3>2. LenUtf8(run[n + 1]) = IF n + 1 <= a THEN 3 ELSE 4
      BY <1>3, <1>6, <2>1
    <3>3. PrefixLen(run)[n] = IF n <= a THEN 3 * n ELSE 3 * a + 4 * (n - a)
      BY <1>3, <2>1
    <3>4. PrefixLen(run)[n + 1]
            = IF n + 1 <= a THEN 3 * (n + 1) ELSE 3 * a + 4 * ((n + 1) - a)
      BY <1>3, <3>1, <3>2, <3>3
    <3> QED
      BY <3>4
  <2> QED
    BY <2>1
<1>10. D = Nat
  <2> HIDE DEF D
  <2> QED
    BY <1>8, <1>9, NatSetInduction DEF D
<1>11. ByteLen(run) = gap
  <2>1. a + b \in Nat
    BY <1>3
  <2>2. PrefixLen(run)[a + b] = IF a + b <= a THEN 3 * (a + b) ELSE 3 * a + 4 * b
    BY <1>3, <1>10, <2>1
  <2> QED
    BY <1>3, <1>5, <2>2 DEF ByteLen
<1> QED
  BY <1>1, <1>2, <1>11 DEF Ok, run

\* encode_padded never fails on a payload whose length fits the length field and
\* whose target length fits usize, and its byte length is the target: a function
\* of the size of the manifest alone, whatever its bytes.
THEOREM PaddedLength ==
  ASSUME NEW payload \in Seq(Byte), FitsLength(Len(payload)),
         TargetLength(Len(payload)) <= USIZE_MAX
  PROVE  /\ IsOk(EncodePadded(payload))
         /\ ByteLen(EncodePadded(payload).ok) = TargetLength(Len(payload))
<1> DEFINE target == TargetLength(Len(payload))
           framed == Framed(payload, <<>>)
           base   == Encode(payload)
           body   == ByteLen(EncodeRun(framed))
           gap    == target - ByteLen(base.ok)
           pad    == Padding(gap)
<1>1. <<>> \in Seq(Byte) /\ Len(payload) \in Nat
  OBVIOUS
<1>2. IsOk(base) /\ base.ok = Carry(framed)
  BY DEF Encode, EncodeWithPadding, Ok, IsOk
<1>3. /\ framed \in Seq(Byte)
      /\ Len(framed) = HEADER_LEN + Len(payload)
      /\ HEADER_LEN \in Nat
  <2>1. /\ framed \in Seq(Byte)
        /\ Len(framed) = HEADER_LEN + Len(payload) + Len(<<>>)
        /\ HEADER_LEN = 9 + LENGTH_BYTES
        /\ LENGTH_BYTES \in Nat
    BY <1>1, FramedProperties
  <2>2. Len(<<>>) = 0
    OBVIOUS
  <2> HIDE DEF framed
  <2> QED
    BY <1>1, <2>1, <2>2
<1> HIDE DEF framed
<1>4. body \in Nat /\ body <= 4 * (HEADER_LEN + Len(payload))
  <2>1. EncodeRun(framed) \in Seq(Char) /\ Len(EncodeRun(framed)) = Len(framed)
    BY <1>3, EncodeRunProperties
  <2>2. Len(framed) \in Nat
    BY <1>1, <1>3
  <2>3. Len(framed) \in 0 .. Len(EncodeRun(framed)) /\ Len(EncodeRun(framed)) \in Nat
    BY <2>1, <2>2
  <2>4. /\ PrefixLen(EncodeRun(framed))[Len(framed)] \in Nat
        /\ PrefixLen(EncodeRun(framed))[Len(framed)] <= 4 * Len(framed)
    BY <2>3, PrefixLenRange
  <2> QED
    BY <1>3, <2>1, <2>4 DEF ByteLen
<1>5. ByteLen(base.ok) = 3 + body
  BY <1>2, <1>3, CarryProperties
<1> HIDE DEF body
<1>6. target = 3 + (HEADER_LEN + Len(payload)) * 4 + 6
  BY DEF TargetLength
<1>6a. ~(target > USIZE_MAX)
  <2>1. target \in Int /\ USIZE_MAX \in Nat
    <3> HIDE DEF target
    <3> QED
      BY <1>1, <1>3, <1>6, WidthAssumption
  <2> HIDE DEF target
  <2>2. target <= USIZE_MAX
    BY DEF target
  <2> QED
    BY <2>1, <2>2
<1>7. /\ gap \in Nat /\ gap >= 6
      /\ 3 + body + gap = target
  <2> HIDE DEF base, target
  <2> QED
    BY <1>1, <1>3, <1>4, <1>5, <1>6
<1>8. gap \notin {1, 2, 5} /\ ~(gap < 0)
  BY <1>7
<1> HIDE DEF gap
<1>9. /\ IsOk(pad)
      /\ pad.ok \in Seq(Byte)
      /\ ByteLen(EncodeRun(pad.ok)) = gap
  BY <1>7, <1>8, PaddingFits
<1>10. EncodePadded(payload) = Ok(Carry(Framed(payload, pad.ok)))
  <2>1. EncodePadded(payload) = EncodeWithPadding(payload, pad.ok)
    BY <1>2, <1>6a, <1>8, <1>9 DEF EncodePadded, gap
  <2> QED
    BY <2>1 DEF EncodeWithPadding
<1> HIDE DEF pad
<1>11. ByteLen(Carry(Framed(payload, pad.ok))) = 3 + (body + gap)
  <2>1. Framed(payload, pad.ok) = framed \o pad.ok
    BY <1>9, FramedProperties DEF framed
  <2>2. framed \o pad.ok \in Seq(Byte)
    BY <1>3, <1>9
  <2>3. EncodeRun(framed \o pad.ok) = EncodeRun(framed) \o EncodeRun(pad.ok)
    BY <1>3, <1>9, EncodeRunConcat
  <2>4. EncodeRun(framed) \in Seq(Char) /\ EncodeRun(pad.ok) \in Seq(Char)
    BY <1>3, <1>9, EncodeRunProperties
  <2>5. ByteLen(EncodeRun(framed) \o EncodeRun(pad.ok)) = body + gap
    BY <1>9, <2>4, ByteLenConcat DEF body
  <2> QED
    BY <2>1, <2>2, <2>3, <2>5, CarryProperties
<1>12. 3 + (body + gap) = target
  <2> HIDE DEF target
  <2> QED
    BY <1>4, <1>7
<1> QED
  BY <1>10, <1>11, <1>12 DEF Ok, IsOk

-----------------------------------------------------------------------------
(* Locating *)

\* The index of the last character of the run behind the marker at i.
LastOf(text, i) == i + RunLen(SubSeq(text, i + 1, Len(text)))

\* What is visited at a marker: the bytes of the selectors behind it, and the
\* range from the marker through the last of them.
LEMMA VisitAtProperties ==
  ASSUME NEW text \in Seq(Char), NEW i \in 1 .. Len(text), text[i] = MARKER
  PROVE  LET v == VisitAt(text, i)
             n == LastOf(text, i)
         IN  /\ n \in i .. Len(text)
             /\ \A j \in i + 1 .. n : IsVs(text[j])
             /\ n < Len(text) => ~IsVs(text[n + 1])
             /\ v.run \in Seq(Byte)
             /\ Len(v.run) = n - i
             /\ \A j \in 1 .. n - i : v.run[j] = VsToByte(text[i + j])
             /\ v.start = Offset(text, i - 1)
             /\ v.start \in Nat
             /\ v.length \in Nat
             /\ v.start + v.length = Offset(text, n)
<1> DEFINE v    == VisitAt(text, i)
           rest == SubSeq(text, i + 1, Len(text))
           n    == RunLen(rest)
<1>1. LastOf(text, i) = i + n
  BY DEF LastOf
<1>2. /\ rest \in Seq(Char)
      /\ Len(rest) = Len(text) - i
      /\ \A j \in 1 .. Len(text) - i : rest[j] = text[i + j]
  BY RestProperties
<1>3. /\ v.run = DecodeRun(rest).bytes
      /\ v.start = Offset(text, i - 1)
      /\ v.length = 3 + DecodeRun(rest).consumed
  BY MarkerProperties DEF VisitAt
<1> HIDE DEF rest
<1>4. n \in 0 .. Len(rest)
  BY <1>2, RunLenDef
<1>5. /\ v.run \in Seq(Byte)
      /\ Len(v.run) = n
      /\ \A j \in 1 .. n : v.run[j] = VsToByte(rest[j])
      /\ DecodeRun(rest).consumed = Offset(rest, n)
  BY <1>2, <1>3, DecodeRunProperties
<1> HIDE DEF n, v
<1>6. /\ Offset(rest, n) = PrefixLen(rest)[n] /\ PrefixLen(rest)[n] \in Nat
      /\ Offset(text, i - 1) = PrefixLen(text)[i - 1] /\ PrefixLen(text)[i - 1] \in Nat
      /\ Offset(text, i + n) = PrefixLen(text)[i + n]
  <2>1. i - 1 \in 0 .. Len(text) /\ i + n \in 0 .. Len(text)
    BY <1>2, <1>4
  <2>2. Len(text) \in Nat /\ Len(rest) \in Nat
    BY <1>2
  <2> QED
    BY <1>2, <1>4, <2>1, <2>2, OffsetIsPrefixLen, PrefixLenRange
<1>7. PrefixLen(text)[i + n] = PrefixLen(text)[i] + PrefixLen(rest)[n]
  <2>1. i \in 0 .. Len(text) /\ n \in 0 .. Len(text) - i
    BY <1>2, <1>4
  <2> QED
    BY <2>1, PrefixLenRest DEF rest
<1>8. PrefixLen(text)[i] = PrefixLen(text)[i - 1] + 3
  <2>1. i - 1 \in Nat /\ (i - 1) + 1 = i /\ (i - 1) + 1 <= Len(text)
    OBVIOUS
  <2> QED
    BY <2>1, PrefixLenNext, MarkerProperties
<1>9. v.start \in Nat /\ v.length \in Nat /\ v.start + v.length = Offset(text, i + n)
  <2> DEFINE front == PrefixLen(text)[i - 1]
             tail  == PrefixLen(rest)[n]
  <2>1. front \in Nat /\ tail \in Nat
    BY <1>6
  <2>2. v.start = front /\ v.length = 3 + tail
    BY <1>3, <1>5, <1>6
  <2>3. Offset(text, i + n) = (front + 3) + tail
    BY <1>6, <1>7, <1>8
  <2> HIDE DEF front, tail
  <2> QED
    BY <2>1, <2>2, <2>3
<1>10. i + n \in i .. Len(text)
  BY <1>2, <1>4
<1>11. \A j \in i + 1 .. i + n : IsVs(text[j])
  <2> TAKE j \in i + 1 .. i + n
  <2>1. j - i \in 1 .. n /\ j - i \in 1 .. Len(text) - i /\ i + (j - i) = j
    BY <1>2, <1>4
  <2>2. IsVs(rest[j - i])
    BY <1>2, <2>1, RunLenDef DEF n
  <2> QED
    BY <1>2, <2>1, <2>2
<1>12. i + n < Len(text) => ~IsVs(text[(i + n) + 1])
  <2> HAVE i + n < Len(text)
  <2>1. n < Len(rest) /\ n + 1 \in 1 .. Len(text) - i /\ i + (n + 1) = (i + n) + 1
    BY <1>2, <1>4
  <2>2. ~IsVs(rest[n + 1])
    BY <1>2, <2>1, RunLenDef DEF n
  <2>3. rest[n + 1] = text[i + (n + 1)]
    BY <1>2, <2>1
  <2>4. rest[n + 1] = text[(i + n) + 1]
    BY <2>1, <2>3
  <2> QED
    BY <2>2, <2>4
<1>13. /\ Len(v.run) = (i + n) - i
       /\ \A j \in 1 .. (i + n) - i : v.run[j] = VsToByte(text[i + j])
  <2>1. (i + n) - i = n
    BY <1>2, <1>4
  <2>2. ASSUME NEW j \in 1 .. n
        PROVE  v.run[j] = VsToByte(text[i + j])
    <3>1. j \in 1 .. Len(text) - i
      BY <1>2, <1>4
    <3> QED
      BY <1>2, <1>5, <3>1
  <2> QED
    BY <1>5, <2>1, <2>2
<1>14. v.start = Offset(text, i - 1)
  BY <1>3
<1> QED
  BY <1>1, <1>5, <1>9, <1>10, <1>11, <1>12, <1>13, <1>14 DEF v

\* What scan reports to its visitor is a run of bytes and a range of the text
\* that starts at a marker and ends where a character ends.
LEMMA VisitProperties ==
  ASSUME NEW text \in Seq(Char), NEW v \in Scan(text)
  PROVE  /\ v.run \in Seq(Byte)
         /\ v.start \in Nat
         /\ v.length \in Nat
         /\ \E i \in 1 .. Len(text), n \in 1 .. Len(text) :
              /\ i <= n
              /\ text[i] = MARKER
              /\ \A j \in i + 1 .. n : IsVs(text[j])
              /\ n < Len(text) => ~IsVs(text[n + 1])
              /\ v.start = Offset(text, i - 1)
              /\ v.start + v.length = Offset(text, n)
<1>1. PICK i \in 1 .. Len(text) : text[i] = MARKER /\ v = VisitAt(text, i)
  BY DEF Scan
<1> DEFINE n == LastOf(text, i)
<1>2. /\ n \in i .. Len(text)
      /\ \A j \in i + 1 .. n : IsVs(text[j])
      /\ n < Len(text) => ~IsVs(text[n + 1])
      /\ v.run \in Seq(Byte)
      /\ v.start = Offset(text, i - 1)
      /\ v.start \in Nat
      /\ v.length \in Nat
      /\ v.start + v.length = Offset(text, n)
  BY <1>1, VisitAtProperties
<1> HIDE DEF n
<1>3. n \in 1 .. Len(text) /\ i <= n
  BY <1>2
<1> QED
  BY <1>1, <1>2, <1>3

\* A located wrapper reports the range of one visit.
LEMMA LocatedProperties ==
  ASSUME NEW text \in Seq(Char), NEW w \in LocateAll(text)
  PROVE  /\ w.start \in Nat
         /\ w.length \in Nat
         /\ \E i \in 1 .. Len(text), n \in 1 .. Len(text) :
              /\ i <= n
              /\ text[i] = MARKER
              /\ \A j \in i + 1 .. n : IsVs(text[j])
              /\ n < Len(text) => ~IsVs(text[n + 1])
              /\ w.start = Offset(text, i - 1)
              /\ w.start + w.length = Offset(text, n)
<1>1. PICK v \in Scan(text) : w \in DecodeFrame(v.run, v.start, v.length)
  BY DEF LocateAll
<1>2. w.start = v.start /\ w.length = v.length
  BY <1>1 DEF DecodeFrame
<1> QED
  BY <1>2, VisitProperties

\* What extract returns is one of the wrappers locate_all finds.
LEMMA ExtractedIsLocated ==
  ASSUME NEW text, IsOk(Extract(text))
  PROVE  /\ Extract(text).ok \in LocateAll(text)
         /\ LocateAll(text) = {Extract(text).ok}
         /\ ~HasCorruptedCandidate(text)
<1> DEFINE found == LocateAll(text)
<1>1. /\ ~HasCorruptedCandidate(text)
      /\ found # {}
      /\ \E w \in found : found = {w}
  BY DEF Extract, Err, IsOk
<1>2. Extract(text) = Ok(CHOOSE w \in found : TRUE)
  BY <1>1 DEF Extract
<1>3. (CHOOSE w \in found : TRUE) \in found
  BY <1>1
<1> QED
  BY <1>1, <1>2, <1>3 DEF Ok

\* What strip returns is a text.
LEMMA StripTyped ==
  ASSUME NEW text \in Seq(Char), NEW from, NEW to, IsOk(Strip(text, from, to))
  PROVE  Strip(text, from, to).ok \in Seq(Char)
<1>1. /\ IsCharBoundary(text, from) /\ IsCharBoundary(text, to)
      /\ Strip(text, from, to)
           = Ok(Slice(text, 0, from) \o Slice(text, to, ByteLen(text)))
  BY DEF Strip, Err, IsOk
<1>2. IsCharBoundary(text, 0) /\ IsCharBoundary(text, ByteLen(text))
  <2>1. 0 \in 0 .. Len(text) /\ Len(text) \in 0 .. Len(text)
    OBVIOUS
  <2> QED
    BY <2>1, CharsBeforeOffset, OffsetEnds
<1>3. Slice(text, 0, from) \in Seq(Char) /\ Slice(text, to, ByteLen(text)) \in Seq(Char)
  BY <1>1, <1>2, SliceTyped
<1> QED
  BY <1>1, <1>3 DEF Ok

\* Stripping the bytes of the characters i through n never fails, and removes
\* exactly those.
LEMMA StripCharacters ==
  ASSUME NEW text \in Seq(Char), NEW i \in 1 .. Len(text), NEW n \in 1 .. Len(text), i <= n
  PROVE  Strip(text, Offset(text, i - 1), Offset(text, n))
           = Ok(SubSeq(text, 1, i - 1) \o SubSeq(text, n + 1, Len(text)))
<1> DEFINE from == Offset(text, i - 1)
           to   == Offset(text, n)
<1>1. /\ i - 1 \in 0 .. Len(text) /\ n \in 0 .. Len(text) /\ i - 1 < n
      /\ 0 \in 0 .. Len(text) /\ Len(text) \in 0 .. Len(text)
  OBVIOUS
<1>2. IsCharBoundary(text, from) /\ IsCharBoundary(text, to)
  BY <1>1, CharsBeforeOffset
<1>3. from < to
  BY <1>1, OffsetIncreasing
<1>4. from \in Nat /\ to \in Nat /\ ByteLen(text) \in Nat
  <2>1. Len(text) \in Nat
    OBVIOUS
  <2> QED
    BY <1>1, <2>1, OffsetIsPrefixLen, PrefixLenRange, ByteLenNat
<1>5. to <= ByteLen(text)
  <2>1. CASE n = Len(text)
    BY <1>4, <2>1, OffsetEnds
  <2>2. CASE n < Len(text)
    BY <1>1, <1>4, <2>2, OffsetIncreasing, OffsetEnds
  <2> QED
    BY <1>1, <2>1, <2>2
<1>6. Slice(text, 0, from) = SubSeq(text, 1, i - 1)
  <2>1. Slice(text, Offset(text, 0), from) = SubSeq(text, 0 + 1, i - 1)
    BY <1>1, SliceAtOffsets
  <2> QED
    BY <2>1, OffsetEnds
<1>7. Slice(text, to, ByteLen(text)) = SubSeq(text, n + 1, Len(text))
  <2>1. Slice(text, to, Offset(text, Len(text))) = SubSeq(text, n + 1, Len(text))
    BY <1>1, SliceAtOffsets
  <2> QED
    BY <2>1, OffsetEnds
<1> HIDE DEF from, to
<1>9. ~(to > ByteLen(text)) /\ ~(from > to)
  BY <1>3, <1>4, <1>5
<1>10. Strip(text, from, to)
         = Ok(SubSeq(text, 1, i - 1) \o SubSeq(text, n + 1, Len(text)))
  BY <1>2, <1>6, <1>7, <1>9 DEF Strip
<1> QED
  BY <1>10 DEF from, to

\* Stripping the range of a located wrapper never fails, and removes exactly the
\* marker and the whole run of selectors behind it: no host text goes with it,
\* and no selector of the wrapper stays behind.
THEOREM StripRemovesWrapper ==
  ASSUME NEW text \in Seq(Char), NEW w \in LocateAll(text)
  PROVE  \E i \in 1 .. Len(text), n \in 1 .. Len(text) :
           /\ i <= n
           /\ text[i] = MARKER
           /\ \A j \in i + 1 .. n : IsVs(text[j])
           /\ n < Len(text) => ~IsVs(text[n + 1])
           /\ w.start = Offset(text, i - 1)
           /\ Strip(text, w.start, w.start + w.length)
                = Ok(SubSeq(text, 1, i - 1) \o SubSeq(text, n + 1, Len(text)))
<1>1. PICK i \in 1 .. Len(text), n \in 1 .. Len(text) :
        /\ i <= n
        /\ text[i] = MARKER
        /\ \A j \in i + 1 .. n : IsVs(text[j])
        /\ n < Len(text) => ~IsVs(text[n + 1])
        /\ w.start = Offset(text, i - 1)
        /\ w.start + w.length = Offset(text, n)
  BY LocatedProperties
<1>2. Strip(text, w.start, w.start + w.length)
        = Ok(SubSeq(text, 1, i - 1) \o SubSeq(text, n + 1, Len(text)))
  BY <1>1, StripCharacters
<1> QED
  BY <1>1, <1>2

\* Where extract returns a wrapper, its marker is the only place at which the
\* signature occurs.
LEMMA OneSignature ==
  ASSUME NEW text \in Seq(Char), IsOk(Extract(text)),
         NEW i \in 1 .. Len(text), Extract(text).ok.start = Offset(text, i - 1),
         NEW j \in 1 .. Len(text), OccursAt(Signature, text, j)
  PROVE  j = i
<1> DEFINE v == VisitAt(text, j)
<1>1. text[j] = MARKER
  BY SignatureAt
<1>2. v \in Scan(text)
  BY <1>1 DEF Scan
<1>3. HasMagic(v.run)
  BY <1>1, MagicIffSignature
<1>4. v.start = Offset(text, j - 1)
  BY DEF VisitAt
<1> HIDE DEF v
<1>5. DecodeFrame(v.run, v.start, v.length) # {}
  BY <1>2, <1>3, ExtractedIsLocated DEF HasCorruptedCandidate
<1>6. PICK u \in DecodeFrame(v.run, v.start, v.length) : TRUE
  BY <1>5
<1>7. u \in LocateAll(text)
  BY <1>2, <1>6 DEF LocateAll
<1>8. u.start = Offset(text, j - 1)
  BY <1>4, <1>6 DEF DecodeFrame
<1>9. Offset(text, j - 1) = Offset(text, i - 1)
  BY <1>7, <1>8, ExtractedIsLocated
<1>10. i - 1 \in 0 .. Len(text) /\ j - 1 \in 0 .. Len(text)
  OBVIOUS
<1>11. /\ Offset(text, i - 1) = PrefixLen(text)[i - 1] /\ PrefixLen(text)[i - 1] \in Nat
       /\ Offset(text, j - 1) = PrefixLen(text)[j - 1] /\ PrefixLen(text)[j - 1] \in Nat
  <2>1. Len(text) \in Nat
    OBVIOUS
  <2> QED
    BY <1>10, <2>1, OffsetIsPrefixLen, PrefixLenRange
<1>12. ~(i - 1 < j - 1)
  BY <1>9, <1>10, <1>11, OffsetIncreasing
<1>13. ~(j - 1 < i - 1)
  BY <1>9, <1>10, <1>11, OffsetIncreasing
<1> QED
  BY <1>12, <1>13

\* A text is unsigned once the one wrapper extract finds in it is stripped: what
\* stood in front of the wrapper and what stands behind it, which does not begin
\* with a selector, never join to form another candidate.
THEOREM StripUnsigns ==
  ASSUME NEW text \in Seq(Char), IsOk(Extract(text))
  PROVE  LET w    == Extract(text).ok
             rest == Strip(text, w.start, w.start + w.length)
         IN  IsOk(rest) /\ Extract(rest.ok) = Err("NotFound")
<1> DEFINE w == Extract(text).ok
<1>1. PICK i \in 1 .. Len(text), n \in 1 .. Len(text) :
        /\ i <= n
        /\ n < Len(text) => ~IsVs(text[n + 1])
        /\ w.start = Offset(text, i - 1)
        /\ Strip(text, w.start, w.start + w.length)
             = Ok(SubSeq(text, 1, i - 1) \o SubSeq(text, n + 1, Len(text)))
  BY ExtractedIsLocated, StripRemovesWrapper
<1> DEFINE a    == SubSeq(text, 1, i - 1)
           b    == SubSeq(text, n + 1, Len(text))
           rest == a \o b
           d    == (n - i) + 1
<1>2. /\ a \in Seq(Char) /\ Len(a) = i - 1
      /\ \A k \in 1 .. i - 1 : a[k] = text[k]
  <2>1. 1 \in 1 .. Len(text) + 1 /\ i - 1 \in 1 - 1 .. Len(text) /\ (i - 1) - 1 + 1 = i - 1
    OBVIOUS
  <2>2. \A k \in 1 .. i - 1 : 1 + k - 1 = k
    OBVIOUS
  <2> QED
    BY <2>1, <2>2, PartProperties
<1>3. /\ b \in Seq(Char) /\ Len(b) = Len(text) - n
      /\ \A k \in 1 .. Len(text) - n : b[k] = text[n + k]
  <2>1. n \in 0 .. Len(text)
    OBVIOUS
  <2> QED
    BY <2>1, RestProperties
<1> HIDE DEF a, b
<1>4. /\ rest \in Seq(Char)
      /\ Len(rest) = Len(a) + Len(b)
      /\ \A k \in 1 .. Len(a) : rest[k] = a[k]
      /\ \A k \in 1 .. Len(b) : rest[Len(a) + k] = b[k]
  BY <1>2, <1>3, ConcatTexts
<1> HIDE DEF rest
<1>5. d \in Nat /\ d >= 1
  BY <1>1
<1>6. /\ Len(rest) \in Nat
      /\ Len(rest) = (i - 1) + (Len(text) - n)
      /\ Len(rest) + d = Len(text)
  BY <1>2, <1>3, <1>4
<1>7. \A k \in 1 .. i - 1 : rest[k] = text[k]
  BY <1>2, <1>4
<1>8. \A k \in i .. Len(rest) : rest[k] = text[k + d]
  <2> TAKE k \in i .. Len(rest)
  <2>1. /\ k - (i - 1) \in 1 .. Len(text) - n
        /\ (i - 1) + (k - (i - 1)) = k
        /\ n + (k - (i - 1)) = k + d
    BY <1>6
  <2>2. rest[(i - 1) + (k - (i - 1))] = b[k - (i - 1)]
    BY <1>2, <1>3, <1>4, <2>1
  <2>3. b[k - (i - 1)] = text[n + (k - (i - 1))]
    BY <1>3, <2>1
  <2> QED
    BY <2>1, <2>2, <2>3
<1>9. n + 1 = i + d
  OBVIOUS
<1> HIDE DEF d
<1>nat. i \in Nat /\ n \in Nat /\ Len(text) \in Nat /\ 1 <= i /\ n <= Len(text) /\ i <= n
  BY <1>1
<1>10. ASSUME NEW j \in 1 .. Len(rest), OccursAt(Signature, rest, j)
       PROVE  FALSE
  <2>1. /\ j + 8 <= Len(rest)
        /\ rest[j] = MARKER
        /\ \A k \in 1 .. 8 : rest[j + k] = ByteToVs(MAGIC[k])
    BY <1>4, <1>10, SignatureAt
  <2>nat. j \in Nat /\ 1 <= j /\ j + 8 <= Len(rest)
    <3>1. j + 8 <= Len(rest)
      BY <2>1
    <3> QED
      BY <1>6, <3>1
  <2>2. CASE j + 8 <= i - 1
    <3>1. j \in 1 .. Len(text) /\ j + 8 <= Len(text)
      BY <1>1, <2>2
    <3>2. text[j] = MARKER
      <4>1. j \in 1 .. i - 1
        BY <2>2
      <4> QED
        BY <1>7, <2>1, <4>1
    <3>3. \A k \in 1 .. 8 : text[j + k] = ByteToVs(MAGIC[k])
      <4> TAKE k \in 1 .. 8
      <4>1. j + k \in 1 .. i - 1
        BY <2>2
      <4> QED
        BY <1>7, <2>1, <4>1
    <3>4. OccursAt(Signature, text, j)
      BY <3>1, <3>2, <3>3, SignatureAt
    <3>5. j = i
      BY <1>1, <3>1, <3>4, OneSignature
    <3> QED
      BY <2>2, <3>5
  <2>3. CASE j >= i
    <3>1. j + d \in 1 .. Len(text) /\ (j + d) + 8 <= Len(text)
      <4>1. j + d \in Nat /\ 1 <= j + d
        BY <1>5, <2>nat
      <4>2. (j + d) + 8 <= Len(text)
        BY <1>5, <1>6, <1>nat, <2>nat
      <4> QED
        BY <4>1, <4>2, <1>nat
    <3>2. text[j + d] = MARKER
      <4>1. j \in i .. Len(rest)
        BY <2>3
      <4> QED
        BY <1>8, <2>1, <4>1
    <3>3. \A k \in 1 .. 8 : text[(j + d) + k] = ByteToVs(MAGIC[k])
      <4> TAKE k \in 1 .. 8
      <4>1. j + k \in i .. Len(rest) /\ (j + k) + d = (j + d) + k
        BY <1>5, <1>6, <1>nat, <2>nat, <2>3
      <4>2. rest[j + k] = text[(j + k) + d]
        BY <1>8, <4>1
      <4> QED
        BY <2>1, <4>1, <4>2
    <3>4. OccursAt(Signature, text, j + d)
      BY <3>1, <3>2, <3>3, SignatureAt
    <3>5. j + d = i
      BY <1>1, <3>1, <3>4, OneSignature
    <3> QED
      BY <1>5, <2>3, <3>5
  <2>4. CASE j <= i - 1 /\ i - 1 < j + 8
    <3>1. i - j \in 1 .. 8 /\ j + (i - j) = i /\ i \in i .. Len(rest)
      BY <1>6, <1>nat, <2>nat, <2>4
    <3>2. rest[j + (i - j)] = ByteToVs(MAGIC[i - j])
      BY <2>1, <3>1
    <3>3. rest[i] = text[i + d]
      BY <1>8, <3>1
    <3>4. text[n + 1] = ByteToVs(MAGIC[i - j])
      BY <1>9, <3>1, <3>2, <3>3
    <3>5. MAGIC[i - j] \in Byte
      BY <3>1, MagicProperties, ElementOfSeq
    <3>6. IsVs(text[n + 1])
      BY <3>4, <3>5, ByteRoundTrip
    <3>7. n < Len(text)
      BY <1>6, <1>nat, <2>nat, <2>4
    <3> QED
      BY <1>1, <3>6, <3>7
  <2> QED
    BY <2>2, <2>3, <2>4
<1>11. ~Occurs(Signature, rest)
  BY <1>10 DEF Occurs
<1>12. Extract(rest) = Err("NotFound")
  BY <1>4, <1>11, NotFoundIffNoSignature
<1>13. Strip(text, w.start, w.start + w.length) = Ok(rest)
  BY <1>1 DEF rest, a, b
<1> HIDE DEF w
<1>14. /\ IsOk(Strip(text, w.start, w.start + w.length))
       /\ Strip(text, w.start, w.start + w.length).ok = rest
  BY <1>13 DEF Ok, IsOk
<1> QED
  BY <1>12, <1>14 DEF w

-----------------------------------------------------------------------------
(* The length field. *)


\* The value of the first i bytes of a big-endian number.
Value(bytes) ==
  LET acc[i \in 0 .. Len(bytes)] ==
        IF i = 0 THEN 0 ELSE 256 * acc[i - 1] + bytes[i]
  IN  acc

\* Each byte more is one more digit.
LEMMA ValueDef ==
  ASSUME NEW b \in Seq(Byte)
  PROVE  /\ Value(b)[0] = 0
         /\ \A i \in 1 .. Len(b) : Value(b)[i] = 256 * Value(b)[i - 1] + b[i]
         /\ FromBeBytes(b) = Value(b)[Len(b)]
<1> DEFINE Is(f) == f = [i \in 0 .. Len(b) |->
                           IF i = 0 THEN 0 ELSE 256 * f[i - 1] + b[i]]
           g == [i \in 1 .. Len(b) |-> [x \in Nat |-> 256 * x + b[i]]]
<1>1. Len(b) \in Nat /\ \A i \in 1 .. Len(b) : b[i] \in Nat
  <2>1. Len(b) \in Nat /\ \A i \in 1 .. Len(b) : b[i] \in Byte
    BY ElementOfSeq
  <2>2. Byte \subseteq Nat
    BY DEF Byte
  <2> QED
    BY <2>1, <2>2
<1>2. g \in [1 .. Len(b) -> [Nat -> Nat]]
  BY <1>1
<1>3. PICK f \in [0 .. Len(b) -> Nat] : Stepwise(f, Len(b), 0, g)
  <2>1. 0 \in Nat /\ Len(b) \in Nat
    BY <1>1
  <2> HIDE DEF g, Is
  <2> QED
    BY <1>2, <2>1, StepwiseFunction
<1>4. \A i \in 1 .. Len(b) : f[i] = 256 * f[i - 1] + b[i]
  <2> TAKE i \in 1 .. Len(b)
  <2>1. f[i - 1] \in Nat
    BY <1>1
  <2> QED
    BY <1>3, <2>1 DEF Stepwise
<1>5. Is(f)
  BY <1>1, <1>3, <1>4 DEF Stepwise
<1>6. Is(Value(b))
  <2>1. \E h : Is(h)
    BY <1>5
  <2> QED
    BY <2>1 DEF Value
<1>7. FromBeBytes(b) = Value(b)[Len(b)]
  BY DEF FromBeBytes, Value
<1>8. \A i \in 0 .. Len(b) :
        Value(b)[i] = IF i = 0 THEN 0 ELSE 256 * Value(b)[i - 1] + b[i]
  BY <1>6
<1> QED
  BY <1>1, <1>7, <1>8

\* The value of bytes is a natural number.
LEMMA ValueNat ==
  ASSUME NEW b \in Seq(Byte)
  PROVE  \A i \in 0 .. Len(b) : Value(b)[i] \in Nat
<1> DEFINE D == {i \in Nat : i <= Len(b) => Value(b)[i] \in Nat}
<1>1. Len(b) \in Nat /\ \A i \in 1 .. Len(b) : b[i] \in Nat
  <2>1. Len(b) \in Nat /\ \A i \in 1 .. Len(b) : b[i] \in Byte
    BY ElementOfSeq
  <2>2. Byte \subseteq Nat
    BY DEF Byte
  <2> QED
    BY <2>1, <2>2
<1>2. 0 \in D
  BY ValueDef
<1>3. ASSUME NEW i \in D
      PROVE  i + 1 \in D
  <2>1. CASE i + 1 <= Len(b)
    <3>1. i + 1 \in 1 .. Len(b) /\ (i + 1) - 1 = i
      BY <1>1, <2>1
    <3>2. Value(b)[i + 1] = 256 * Value(b)[i] + b[i + 1] /\ Value(b)[i] \in Nat
      BY <1>1, <2>1, <3>1, ValueDef
    <3> QED
      BY <1>1, <3>1, <3>2
  <2>2. CASE ~(i + 1 <= Len(b))
    BY <2>2
  <2> QED
    BY <2>1, <2>2
<1>4. D = Nat
  <2> HIDE DEF D
  <2> QED
    BY <1>2, <1>3, NatSetInduction DEF D
<1> QED
  BY <1>1, <1>4

\* to_be_bytes makes LENGTH_BYTES bytes.
LEMMA ToBeBytesTyped ==
  ASSUME NEW n \in Nat
  PROVE  /\ ToBeBytes(n) \in Seq(Byte)
         /\ Len(ToBeBytes(n)) = LENGTH_BYTES
         /\ \A i \in 1 .. LENGTH_BYTES :
              ToBeBytes(n)[i] = Shifted(n)[LENGTH_BYTES - i] % 256
<1>1. LENGTH_BYTES \in Nat
  BY WidthAssumption
<1>2. \A i \in 1 .. LENGTH_BYTES : Shifted(n)[LENGTH_BYTES - i] % 256 \in Byte
  <2>1. \A x \in Nat : x % 256 \in Byte
    BY DEF Byte
  <2>2. \A i \in 1 .. LENGTH_BYTES : LENGTH_BYTES - i \in 0 .. LENGTH_BYTES
    BY <1>1
  <2> QED
    BY <2>1, <2>2, ShiftedNat
<1> QED
  BY <1>1, <1>2 DEF ToBeBytes

\* A length that fits the field is read back from it.
LEMMA LengthReadsBack ==
  ASSUME NEW n \in Nat, FitsLength(n)
  PROVE  FromBeBytes(ToBeBytes(n)) = n
<1> DEFINE b == ToBeBytes(n)
           D == {i \in Nat : i <= LENGTH_BYTES => Value(b)[i] = Shifted(n)[LENGTH_BYTES - i]}
<1>1. /\ LENGTH_BYTES \in Nat
      /\ b \in Seq(Byte)
      /\ Len(b) = LENGTH_BYTES
      /\ \A i \in 1 .. LENGTH_BYTES : b[i] = Shifted(n)[LENGTH_BYTES - i] % 256
  BY ToBeBytesTyped, WidthAssumption
<1>2. /\ Shifted(n)[0] = n
      /\ \A k \in 1 .. LENGTH_BYTES : Shifted(n)[k] = Shifted(n)[k - 1] \div 256
      /\ \A k \in 0 .. LENGTH_BYTES : Shifted(n)[k] \in Nat
  BY <1>1, ShiftedDef, ShiftedNat
<1> HIDE DEF b
<1>3. 0 \in D
  <2>1. Value(b)[0] = 0 /\ Shifted(n)[LENGTH_BYTES] = 0 /\ LENGTH_BYTES - 0 = LENGTH_BYTES
    BY <1>1, ValueDef DEF FitsLength
  <2> QED
    BY <2>1
<1>4. ASSUME NEW i \in D
      PROVE  i + 1 \in D
  <2>1. CASE i + 1 <= LENGTH_BYTES
    <3> DEFINE k == LENGTH_BYTES - i
    <3>1. /\ i + 1 \in 1 .. LENGTH_BYTES /\ (i + 1) - 1 = i
          /\ k \in 1 .. LENGTH_BYTES /\ k - 1 \in 0 .. LENGTH_BYTES
          /\ LENGTH_BYTES - (i + 1) = k - 1
      BY <1>1, <2>1
    <3>2. Value(b)[i + 1] = 256 * Value(b)[i] + b[i + 1]
      BY <1>1, <3>1, ValueDef
    <3>3. Value(b)[i] = Shifted(n)[k] /\ b[i + 1] = Shifted(n)[k - 1] % 256
      BY <1>1, <2>1, <3>1
    <3> HIDE DEF k
    <3>4. Shifted(n)[k] = Shifted(n)[k - 1] \div 256 /\ Shifted(n)[k - 1] \in Nat
      BY <1>2, <3>1
    <3>5. Value(b)[i + 1] = Shifted(n)[k - 1]
      BY <3>2, <3>3, <3>4
    <3> QED
      BY <3>1, <3>5
  <2>2. CASE ~(i + 1 <= LENGTH_BYTES)
    BY <2>2
  <2> QED
    BY <2>1, <2>2
<1>5. D = Nat
  <2> HIDE DEF D
  <2> QED
    BY <1>3, <1>4, NatSetInduction DEF D
<1>6. Value(b)[LENGTH_BYTES] = Shifted(n)[0]
  <2>1. LENGTH_BYTES \in D /\ LENGTH_BYTES - LENGTH_BYTES = 0
    BY <1>1, <1>5
  <2> QED
    BY <1>1, <2>1
<1> QED
  BY <1>1, <1>2, <1>6, ValueDef DEF b

\* What is read from the field fits it, and is written back as the same bytes.
LEMMA FieldWritesBack ==
  ASSUME NEW b \in Seq(Byte), Len(b) = LENGTH_BYTES
  PROVE  /\ FromBeBytes(b) \in Nat
         /\ FitsLength(FromBeBytes(b))
         /\ ToBeBytes(FromBeBytes(b)) = b
<1> DEFINE n == FromBeBytes(b)
           D == {k \in Nat : k <= LENGTH_BYTES => Shifted(n)[k] = Value(b)[LENGTH_BYTES - k]}
<1>1. /\ LENGTH_BYTES \in Nat
      /\ \A i \in 1 .. LENGTH_BYTES : b[i] \in Byte
  BY WidthAssumption, ElementOfSeq
<1>2. /\ Value(b)[0] = 0
      /\ \A i \in 1 .. LENGTH_BYTES : Value(b)[i] = 256 * Value(b)[i - 1] + b[i]
      /\ \A i \in 0 .. LENGTH_BYTES : Value(b)[i] \in Nat
      /\ n = Value(b)[LENGTH_BYTES]
  BY ValueDef, ValueNat
<1>3. n \in Nat
  BY <1>1, <1>2
<1> HIDE DEF n
<1>4. /\ Shifted(n)[0] = n
      /\ \A k \in 1 .. LENGTH_BYTES : Shifted(n)[k] = Shifted(n)[k - 1] \div 256
  BY <1>1, <1>3, ShiftedDef
<1>5. 0 \in D
  <2>1. LENGTH_BYTES - 0 = LENGTH_BYTES
    BY <1>1
  <2> QED
    BY <1>2, <1>4, <2>1
<1>6. ASSUME NEW k \in D
      PROVE  k + 1 \in D
  <2>1. CASE k + 1 <= LENGTH_BYTES
    <3> DEFINE i == LENGTH_BYTES - k
    <3>1. /\ k + 1 \in 1 .. LENGTH_BYTES /\ (k + 1) - 1 = k
          /\ i \in 1 .. LENGTH_BYTES /\ i - 1 \in 0 .. LENGTH_BYTES
          /\ LENGTH_BYTES - (k + 1) = i - 1
      BY <1>1, <2>1
    <3>2. Shifted(n)[k + 1] = Value(b)[i] \div 256
      BY <1>1, <1>4, <2>1, <3>1
    <3> HIDE DEF i
    <3>3. Value(b)[i] = 256 * Value(b)[i - 1] + b[i] /\ Value(b)[i - 1] \in Nat /\ b[i] \in Byte
      BY <1>1, <1>2, <3>1
    <3>4. Shifted(n)[k + 1] = Value(b)[i - 1]
      <4> DEFINE x == Value(b)[i - 1]
                 d == b[i]
      <4>1. x \in Nat /\ d \in Byte /\ Shifted(n)[k + 1] = (256 * x + d) \div 256
        BY <3>2, <3>3
      <4> HIDE DEF x, d
      <4>2. (256 * x + d) \div 256 = x
        BY <4>1 DEF Byte
      <4> QED
        BY <4>1, <4>2 DEF x
    <3> QED
      BY <3>1, <3>4
  <2>2. CASE ~(k + 1 <= LENGTH_BYTES)
    BY <2>2
  <2> QED
    BY <2>1, <2>2
<1>7. D = Nat
  <2> HIDE DEF D
  <2> QED
    BY <1>5, <1>6, NatSetInduction DEF D
<1>8. \A k \in 0 .. LENGTH_BYTES : Shifted(n)[k] = Value(b)[LENGTH_BYTES - k]
  BY <1>1, <1>7
<1> HIDE DEF D
<1>9. FitsLength(n)
  <2>1. LENGTH_BYTES \in 0 .. LENGTH_BYTES /\ LENGTH_BYTES - LENGTH_BYTES = 0
    BY <1>1
  <2> QED
    BY <1>2, <1>8, <2>1 DEF FitsLength
<1>10. ASSUME NEW i \in 1 .. LENGTH_BYTES
       PROVE  ToBeBytes(n)[i] = b[i]
  <2>1. LENGTH_BYTES - i \in 0 .. LENGTH_BYTES /\ LENGTH_BYTES - (LENGTH_BYTES - i) = i
    BY <1>1
  <2>2. ToBeBytes(n)[i] = Value(b)[i] % 256
    BY <1>3, <1>8, <2>1, ToBeBytesTyped
  <2>3. Value(b)[i] = 256 * Value(b)[i - 1] + b[i] /\ Value(b)[i - 1] \in Nat /\ b[i] \in Byte
    <3>1. i - 1 \in 0 .. LENGTH_BYTES
      BY <1>1
    <3> QED
      BY <1>1, <1>2, <3>1
  <2>4. (256 * Value(b)[i - 1] + b[i]) % 256 = b[i]
    <3> DEFINE x == Value(b)[i - 1]
               d == b[i]
    <3>1. x \in Nat /\ d \in Byte
      BY <2>3
    <3> HIDE DEF x, d
    <3>2. (256 * x + d) \div 256 = x
      BY <3>1 DEF Byte
    <3>3. 256 * x + d = 256 * ((256 * x + d) \div 256) + ((256 * x + d) % 256)
      BY <3>1 DEF Byte
    <3>4. (256 * x + d) % 256 = d
      BY <3>1, <3>2, <3>3 DEF Byte
    <3> QED
      BY <3>4 DEF x, d
  <2> QED
    BY <2>2, <2>3, <2>4
<1>11. ToBeBytes(n) = b
  BY <1>3, <1>10, ToBeBytesTyped, SeqEqual
<1> QED
  BY <1>3, <1>9, <1>11 DEF n

-----------------------------------------------------------------------------
(* Decoding what was encoded, and encoding what was decoded. *)


\* The layout both versions share: magic, version, length and payload, and what
\* is put behind them.
LaidOut(v, p, pad) == MAGIC \o <<v>> \o ToBeBytes(Len(p)) \o p \o pad

\* The same, byte by byte.
IsLaidOut(framed, v, p, pad) ==
  /\ framed \in Seq(Byte)
  /\ Len(framed) = HEADER_LEN + Len(p) + Len(pad)
  /\ \A j \in 1 .. 8 : framed[j] = MAGIC[j]
  /\ framed[9] = v
  /\ \A j \in 1 .. LENGTH_BYTES : framed[9 + j] = ToBeBytes(Len(p))[j]
  /\ \A j \in 1 .. Len(p) : framed[HEADER_LEN + j] = p[j]
  /\ HEADER_LEN = 9 + LENGTH_BYTES

\* A frame of any version, byte by byte.
LEMMA LaidOutElements ==
  ASSUME NEW v \in Byte, NEW p \in Seq(Byte), NEW pad \in Seq(Byte)
  PROVE  IsLaidOut(LaidOut(v, p, pad), v, p, pad)
<1> DEFINE one    == <<v>>
           size   == ToBeBytes(Len(p))
           head   == MAGIC \o one
           front  == head \o size
           whole  == front \o p
           framed == whole \o pad
<1>1. LENGTH_BYTES \in Nat /\ Len(p) \in Nat /\ Len(pad) \in Nat
  BY WidthAssumption
<1>2. size \in Seq(Byte) /\ Len(size) = LENGTH_BYTES
  BY <1>1, ToBeBytesTyped
<1>3. one \in Seq(Byte) /\ Len(one) = 1 /\ one[1] = v
  OBVIOUS
<1>4. MAGIC \in Seq(Byte) /\ Len(MAGIC) = 8
  BY MagicProperties
<1>5. /\ head = MAGIC \o one /\ front = head \o size
      /\ whole = front \o p /\ framed = whole \o pad
      /\ LaidOut(v, p, pad) = framed
  BY DEF LaidOut
<1>6. HEADER_LEN = 9 + LENGTH_BYTES
  BY <1>1, <1>4 DEF HEADER_LEN
<1> HIDE DEF one, size, head, front, whole, framed
<1>7. /\ head \in Seq(Byte) /\ Len(head) = 9
      /\ \A j \in 1 .. 8 : head[j] = MAGIC[j]
      /\ head[9] = v
  <2>1. /\ head \in Seq(Byte) /\ Len(head) = Len(MAGIC) + Len(one)
        /\ \A j \in 1 .. Len(MAGIC) : head[j] = MAGIC[j]
        /\ \A j \in 1 .. Len(one) : head[Len(MAGIC) + j] = one[j]
    <3>1. MAGIC \in Seq(Byte) /\ one \in Seq(Byte)
      BY <1>3, <1>4
    <3> QED
      BY <3>1, JoinProperties DEF head
  <2>2. 1 \in 1 .. Len(one) /\ Len(MAGIC) + 1 = 9
    BY <1>3, <1>4
  <2>3. head[9] = v
    BY <1>3, <2>1, <2>2
  <2> QED
    BY <1>3, <1>4, <2>1, <2>3
<1>8. /\ front \in Seq(Byte) /\ Len(front) = 9 + LENGTH_BYTES
      /\ \A j \in 1 .. 9 : front[j] = head[j]
      /\ \A j \in 1 .. LENGTH_BYTES : front[9 + j] = size[j]
  <2>1. /\ front \in Seq(Byte) /\ Len(front) = Len(head) + Len(size)
        /\ \A j \in 1 .. Len(head) : front[j] = head[j]
        /\ \A j \in 1 .. Len(size) : front[Len(head) + j] = size[j]
    <3>1. head \in Seq(Byte) /\ size \in Seq(Byte)
      BY <1>2, <1>7
    <3> QED
      BY <3>1, JoinProperties DEF front
  <2> QED
    BY <1>2, <1>7, <2>1
<1>9. /\ whole \in Seq(Byte) /\ Len(whole) = HEADER_LEN + Len(p)
      /\ \A j \in 1 .. HEADER_LEN : whole[j] = front[j]
      /\ \A j \in 1 .. Len(p) : whole[HEADER_LEN + j] = p[j]
  <2>1. /\ whole \in Seq(Byte) /\ Len(whole) = Len(front) + Len(p)
        /\ \A j \in 1 .. Len(front) : whole[j] = front[j]
        /\ \A j \in 1 .. Len(p) : whole[Len(front) + j] = p[j]
    <3>1. front \in Seq(Byte)
      BY <1>8
    <3> QED
      BY <3>1, JoinProperties DEF whole
  <2>2. Len(front) = HEADER_LEN
    BY <1>6, <1>8
  <2> QED
    BY <2>1, <2>2
<1>10. /\ framed \in Seq(Byte)
       /\ Len(framed) = HEADER_LEN + Len(p) + Len(pad)
       /\ \A j \in 1 .. HEADER_LEN + Len(p) : framed[j] = whole[j]
  <2>1. /\ framed \in Seq(Byte) /\ Len(framed) = Len(whole) + Len(pad)
        /\ \A j \in 1 .. Len(whole) : framed[j] = whole[j]
    <3>1. whole \in Seq(Byte)
      BY <1>9
    <3> QED
      BY <3>1, JoinProperties DEF framed
  <2> QED
    BY <1>9, <2>1
<1>11. \A j \in 1 .. 9 + LENGTH_BYTES : framed[j] = front[j]
  <2> TAKE j \in 1 .. 9 + LENGTH_BYTES
  <2>1. j \in 1 .. HEADER_LEN /\ j \in 1 .. HEADER_LEN + Len(p)
    BY <1>1, <1>6
  <2> QED
    BY <1>9, <1>10, <2>1
<1>12. \A j \in 1 .. 9 : framed[j] = head[j]
  <2> TAKE j \in 1 .. 9
  <2>1. j \in 1 .. 9 + LENGTH_BYTES
    BY <1>1
  <2> QED
    BY <1>8, <1>11, <2>1
<1>13. \A j \in 1 .. LENGTH_BYTES : framed[9 + j] = size[j]
  <2> TAKE j \in 1 .. LENGTH_BYTES
  <2>1. 9 + j \in 1 .. 9 + LENGTH_BYTES
    BY <1>1
  <2> QED
    BY <1>8, <1>11, <2>1
<1>14. \A j \in 1 .. Len(p) : framed[HEADER_LEN + j] = p[j]
  <2> TAKE j \in 1 .. Len(p)
  <2>1. HEADER_LEN + j \in 1 .. HEADER_LEN + Len(p)
    BY <1>1, <1>6
  <2> QED
    BY <1>9, <1>10, <2>1
<1>15. \A j \in 1 .. 8 : framed[j] = MAGIC[j]
  <2> TAKE j \in 1 .. 8
  <2>1. j \in 1 .. 9
    OBVIOUS
  <2> QED
    BY <1>7, <1>12, <2>1
<1>16. framed[9] = v
  <2>1. 9 \in 1 .. 9
    OBVIOUS
  <2> QED
    BY <1>7, <1>12, <2>1
<1> QED
  BY <1>5, <1>6, <1>10, <1>13, <1>14, <1>15, <1>16 DEF size, IsLaidOut

\* The first version is one.
LEMMA FramedIsLaidOut ==
  ASSUME NEW p, NEW pad
  PROVE  Framed(p, pad) = LaidOut(VERSION, p, pad) /\ VERSION \in Byte
BY DEF Framed, LaidOut, VERSION, Byte

\* So a frame, byte by byte.
LEMMA FramedElements ==
  ASSUME NEW p \in Seq(Byte), NEW pad \in Seq(Byte)
  PROVE  LET framed == Framed(p, pad)
         IN  /\ framed \in Seq(Byte)
             /\ Len(framed) = HEADER_LEN + Len(p) + Len(pad)
             /\ \A j \in 1 .. 8 : framed[j] = MAGIC[j]
             /\ framed[9] = VERSION
             /\ \A j \in 1 .. LENGTH_BYTES : framed[9 + j] = ToBeBytes(Len(p))[j]
             /\ \A j \in 1 .. Len(p) : framed[HEADER_LEN + j] = p[j]
             /\ HEADER_LEN = 9 + LENGTH_BYTES
<1>1. IsLaidOut(Framed(p, pad), VERSION, p, pad)
  BY FramedIsLaidOut, LaidOutElements
<1> QED
  BY <1>1 DEF IsLaidOut

\* Whatever follows a header and a body in a run, they are read as they were laid
\* out.
LEMMA LaidOutReads ==
  ASSUME NEW v \in Byte, NEW p \in Seq(Byte),
         FitsLength(Len(p)), HEADER_LEN + Len(p) <= USIZE_MAX,
         NEW run \in Seq(Byte), Len(run) >= HEADER_LEN + Len(p),
         \A j \in 1 .. HEADER_LEN + Len(p) : run[j] = LaidOut(v, p, <<>>)[j]
  PROVE  /\ HasBounds(run)
         /\ run[Len(MAGIC) + 1] = v
         /\ BodyEnd(run) = HEADER_LEN + Len(p)
         /\ SubSeq(run, HEADER_LEN + 1, BodyEnd(run)) = p
<1> DEFINE size   == ToBeBytes(Len(p))
           framed == LaidOut(v, p, <<>>)
           field  == SubSeq(run, 10, 9 + LENGTH_BYTES)
<1>1. LENGTH_BYTES \in Nat /\ Len(p) \in Nat /\ HEADER_LEN = 9 + LENGTH_BYTES
  BY WidthAssumption, MagicProperties DEF HEADER_LEN
<1>2. /\ \A j \in 1 .. 8 : framed[j] = MAGIC[j]
      /\ framed[9] = v
      /\ \A j \in 1 .. LENGTH_BYTES : framed[9 + j] = size[j]
      /\ \A j \in 1 .. Len(p) : framed[HEADER_LEN + j] = p[j]
  <2>1. <<>> \in Seq(Byte)
    OBVIOUS
  <2>2. IsLaidOut(LaidOut(v, p, <<>>), v, p, <<>>)
    BY <2>1, LaidOutElements
  <2> HIDE DEF framed
  <2>3. IsLaidOut(framed, v, p, <<>>)
    BY <2>2 DEF framed
  <2> QED
    BY <2>3 DEF IsLaidOut
<1> HIDE DEF framed
<1>3. size \in Seq(Byte) /\ Len(size) = LENGTH_BYTES
  BY <1>1, ToBeBytesTyped
<1>4. FromBeBytes(size) = Len(p)
  BY <1>1, LengthReadsBack
<1> HIDE DEF size
<1>5. \A j \in 1 .. HEADER_LEN + Len(p) : run[j] = framed[j]
  BY DEF framed
<1>6. HasMagic(run)
  <2>1. /\ SubSeq(run, 1, 8) \in Seq(Byte) /\ Len(SubSeq(run, 1, 8)) = 8
        /\ \A j \in 1 .. 8 : SubSeq(run, 1, 8)[j] = run[j]
    BY <1>1
  <2>2. \A j \in 1 .. 8 : run[j] = MAGIC[j]
    <3> TAKE j \in 1 .. 8
    <3>1. j \in 1 .. HEADER_LEN + Len(p)
      BY <1>1
    <3> QED
      BY <1>2, <1>5, <3>1
  <2> QED
    BY <1>1, <2>1, <2>2, MagicProperties, SeqEqual DEF HasMagic
<1>7. field = size
  <2>1. 10 \in 1 .. Len(run) + 1 /\ 9 + LENGTH_BYTES \in 10 - 1 .. Len(run)
    BY <1>1
  <2>2. /\ field \in Seq(Byte) /\ Len(field) = LENGTH_BYTES
        /\ \A j \in 1 .. LENGTH_BYTES : field[j] = run[9 + j]
    <3>1. /\ field \in Seq(Byte)
          /\ Len(field) = (9 + LENGTH_BYTES) - 10 + 1
          /\ \A j \in 1 .. (9 + LENGTH_BYTES) - 10 + 1 : field[j] = run[10 + j - 1]
      <4> HIDE DEF field
      <4> QED
        BY <2>1, PartProperties DEF field
    <3>2. (9 + LENGTH_BYTES) - 10 + 1 = LENGTH_BYTES
      BY <1>1
    <3> HIDE DEF field
    <3>3. ASSUME NEW j \in 1 .. LENGTH_BYTES
          PROVE  field[j] = run[9 + j]
      <4>1. 10 + j - 1 = 9 + j
        OBVIOUS
      <4>2. field[j] = run[10 + j - 1]
        BY <3>1, <3>2
      <4> QED
        BY <4>1, <4>2
    <3> QED
      BY <3>1, <3>2, <3>3
  <2>3. \A j \in 1 .. LENGTH_BYTES : field[j] = size[j]
    <3> TAKE j \in 1 .. LENGTH_BYTES
    <3>1. 9 + j \in 1 .. HEADER_LEN + Len(p)
      BY <1>1
    <3> QED
      BY <1>2, <1>5, <2>2, <3>1
  <2> HIDE DEF field
  <2> QED
    BY <1>3, <2>2, <2>3, SeqEqual
<1>8. BodyEnd(run) = HEADER_LEN + Len(p)
  <2>1. Len(MAGIC) + 2 = 10
    BY MagicProperties
  <2>2. Declared(run) = FromBeBytes(field)
    BY <1>1, <2>1 DEF Declared
  <2> QED
    BY <1>4, <1>7, <2>2 DEF BodyEnd
<1>9. run[Len(MAGIC) + 1] = v
  <2>1. Len(MAGIC) + 1 = 9 /\ 9 \in 1 .. HEADER_LEN + Len(p)
    BY <1>1, MagicProperties
  <2> QED
    BY <1>2, <1>5, <2>1
<1>10. HasBounds(run)
  BY <1>1, <1>6, <1>8 DEF HasBounds
<1>11. SubSeq(run, HEADER_LEN + 1, HEADER_LEN + Len(p)) = p
  <2> DEFINE body == SubSeq(run, HEADER_LEN + 1, HEADER_LEN + Len(p))
  <2>1. /\ HEADER_LEN + 1 \in 1 .. Len(run) + 1
        /\ HEADER_LEN + Len(p) \in (HEADER_LEN + 1) - 1 .. Len(run)
    BY <1>1
  <2>2. /\ body \in Seq(Byte)
        /\ Len(body) = (HEADER_LEN + Len(p)) - (HEADER_LEN + 1) + 1
        /\ \A j \in 1 .. (HEADER_LEN + Len(p)) - (HEADER_LEN + 1) + 1 :
             body[j] = run[(HEADER_LEN + 1) + j - 1]
    <3> HIDE DEF body
    <3> QED
      BY <2>1, PartProperties DEF body
  <2>3. (HEADER_LEN + Len(p)) - (HEADER_LEN + 1) + 1 = Len(p)
    BY <1>1
  <2> HIDE DEF body
  <2>4. \A j \in 1 .. Len(p) : body[j] = p[j]
    <3> TAKE j \in 1 .. Len(p)
    <3>1. HEADER_LEN + j \in 1 .. HEADER_LEN + Len(p)
      BY <1>1
    <3>2. run[HEADER_LEN + j] = p[j]
      BY <1>2, <1>5, <3>1
    <3>3. (HEADER_LEN + 1) + j - 1 = HEADER_LEN + j
      BY <1>1
    <3>4. body[j] = run[(HEADER_LEN + 1) + j - 1]
      BY <2>2, <2>3
    <3> QED
      BY <3>2, <3>3, <3>4
  <2>5. body = p
    BY <2>2, <2>3, <2>4, SeqEqual
  <2> QED
    BY <2>5 DEF body
<1> QED
  BY <1>8, <1>9, <1>10, <1>11

\* Whatever follows a frame in a run, the frame decodes to its payload.
LEMMA FrameDecodes ==
  ASSUME NEW p \in Seq(Byte), FitsLength(Len(p)), HEADER_LEN + Len(p) <= USIZE_MAX,
         NEW run \in Seq(Byte), Len(run) >= HEADER_LEN + Len(p),
         \A j \in 1 .. HEADER_LEN + Len(p) : run[j] = Framed(p, <<>>)[j]
  PROVE  /\ Decodes(run)
         /\ SubSeq(run, HEADER_LEN + 1, BodyEnd(run)) = p
<1>1. VERSION \in Byte
  BY FramedIsLaidOut
<1>2. \A j \in 1 .. HEADER_LEN + Len(p) : run[j] = LaidOut(VERSION, p, <<>>)[j]
  BY FramedIsLaidOut
<1>3. /\ HasBounds(run)
      /\ run[Len(MAGIC) + 1] = VERSION
      /\ BodyEnd(run) = HEADER_LEN + Len(p)
      /\ SubSeq(run, HEADER_LEN + 1, BodyEnd(run)) = p
  BY <1>1, <1>2, LaidOutReads
<1> QED
  BY <1>3 DEF Decodes


\* A run of selectors behind a marker is read through.
LEMMA LastOfAtLeast ==
  ASSUME NEW text \in Seq(Char), NEW i \in 1 .. Len(text), text[i] = MARKER,
         NEW n \in i .. Len(text), \A j \in i + 1 .. n : IsVs(text[j])
  PROVE  n <= LastOf(text, i)
<1> DEFINE last == LastOf(text, i)
<1>1. last \in i .. Len(text) /\ (last < Len(text) => ~IsVs(text[last + 1]))
  BY VisitAtProperties
<1> HIDE DEF last
<1>2. CASE last < n
  <2>0. last \in Nat /\ n \in Nat /\ n <= Len(text) /\ i <= last
    BY <1>1
  <2>1. last + 1 \in i + 1 .. n /\ last < Len(text)
    BY <1>2, <2>0
  <2> QED
    BY <1>1, <2>1
<1>3. CASE ~(last < n)
  <2>1. last \in Int /\ n \in Int
    BY <1>1
  <2>2. n <= last
    BY <1>3, <2>1
  <2> QED
    BY <2>2 DEF last
<1> QED
  BY <1>2, <1>3

\* r is the run behind the marker at i of t, and n its last character.
ReadsRun(t, i, n, r) ==
  /\ t[i] = MARKER
  /\ n \in i .. Len(t)
  /\ \A j \in i + 1 .. n : IsVs(t[j])
  /\ n < Len(t) => ~IsVs(t[n + 1])
  /\ r \in Seq(Byte)
  /\ Len(r) = n - i
  /\ \A j \in 1 .. n - i : r[j] = VsToByte(t[i + j])

\* A run read to its end is what the operator VisitAt says is visited.
LEMMA RunVisited ==
  ASSUME NEW t \in Seq(Char), NEW i \in 1 .. Len(t), NEW n, NEW r, ReadsRun(t, i, n, r)
  PROVE  /\ VisitAt(t, i).run = r
         /\ VisitAt(t, i).start = Offset(t, i - 1)
         /\ VisitAt(t, i).length = Offset(t, n) - Offset(t, i - 1)
<1> DEFINE v    == VisitAt(t, i)
           last == LastOf(t, i)
<1>1. /\ last \in i .. Len(t)
      /\ \A j \in i + 1 .. last : IsVs(t[j])
      /\ v.run \in Seq(Byte)
      /\ Len(v.run) = last - i
      /\ \A j \in 1 .. last - i : v.run[j] = VsToByte(t[i + j])
      /\ v.start = Offset(t, i - 1)
      /\ v.start \in Nat
      /\ v.length \in Nat
      /\ v.start + v.length = Offset(t, last)
  BY VisitAtProperties DEF ReadsRun
<1>0. /\ t[i] = MARKER
      /\ n \in i .. Len(t)
      /\ \A j \in i + 1 .. n : IsVs(t[j])
      /\ n < Len(t) => ~IsVs(t[n + 1])
      /\ r \in Seq(Byte)
      /\ Len(r) = n - i
      /\ \A j \in 1 .. n - i : r[j] = VsToByte(t[i + j])
  BY DEF ReadsRun
<1>2. n <= last
  BY <1>0, LastOfAtLeast
<1> HIDE DEF v, last
<1>3. last = n
  <2>1. Len(t) \in Nat /\ i \in Nat /\ n \in Nat /\ i <= n /\ last \in Nat /\ last <= Len(t)
    BY <1>0, <1>1
  <2>2. CASE n < last
    <3>1. n + 1 \in i + 1 .. last /\ n < Len(t)
      BY <2>1, <2>2
    <3> QED
      BY <1>0, <1>1, <3>1
  <2> QED
    BY <1>2, <2>1, <2>2
<1>4. v.run = r
  <2>1. Len(v.run) = Len(r)
    BY <1>0, <1>1, <1>3
  <2>2. \A j \in 1 .. Len(r) : v.run[j] = r[j]
    BY <1>0, <1>1, <1>3
  <2> QED
    BY <1>0, <1>1, <2>1, <2>2, SeqEqual
<1>5. v.length = Offset(t, n) - Offset(t, i - 1)
  BY <1>1, <1>3
<1> QED
  BY <1>1, <1>4, <1>5 DEF v

\* A marker's run is the same without what stands behind its text, unless that
\* begins with a selector.
LEMMA RunInFront ==
  ASSUME NEW x \in Seq(Char), NEW y \in Seq(Char), Len(y) > 0 => ~IsVs(y[1]),
         NEW j \in 1 .. Len(x), x[j] = MARKER
  PROVE  /\ j \in 1 .. Len(x \o y)
         /\ (x \o y)[j] = MARKER
         /\ VisitAt(x \o y, j).run = VisitAt(x, j).run
<1> DEFINE s == x \o y
           n == LastOf(x, j)
           r == VisitAt(x, j).run
<1>1. /\ s \in Seq(Char) /\ Len(s) = Len(x) + Len(y)
      /\ \A k \in 1 .. Len(x) : s[k] = x[k]
      /\ \A k \in 1 .. Len(y) : s[Len(x) + k] = y[k]
  BY JoinProperties
<1>2. /\ n \in j .. Len(x)
      /\ \A k \in j + 1 .. n : IsVs(x[k])
      /\ n < Len(x) => ~IsVs(x[n + 1])
      /\ r \in Seq(Byte)
      /\ Len(r) = n - j
      /\ \A k \in 1 .. n - j : r[k] = VsToByte(x[j + k])
  BY VisitAtProperties
<1> HIDE DEF s, n, r
<1>3. Len(x) \in Nat /\ Len(y) \in Nat /\ j \in Nat /\ n \in Nat /\ 1 <= j /\ n <= Len(x)
  BY <1>2
<1>4. j \in 1 .. Len(s) /\ s[j] = MARKER /\ n \in j .. Len(s)
  BY <1>1, <1>2, <1>3
<1>5. \A k \in j + 1 .. n : IsVs(s[k])
  <2> TAKE k \in j + 1 .. n
  <2>1. k \in 1 .. Len(x)
    BY <1>3
  <2> QED
    BY <1>1, <1>2, <2>1
<1>6. n < Len(s) => ~IsVs(s[n + 1])
  <2>1. CASE n < Len(x)
    <3>1. n + 1 \in 1 .. Len(x)
      BY <1>3, <2>1
    <3> QED
      BY <1>1, <1>2, <2>1, <3>1
  <2>2. CASE n = Len(x) /\ n < Len(s)
    <3>1. 1 \in 1 .. Len(y) /\ Len(y) > 0 /\ n + 1 = Len(x) + 1
      BY <1>1, <1>3, <2>2
    <3> QED
      BY <1>1, <3>1
  <2> QED
    BY <1>3, <2>1, <2>2
<1>7. \A k \in 1 .. n - j : r[k] = VsToByte(s[j + k])
  <2> TAKE k \in 1 .. n - j
  <2>1. j + k \in 1 .. Len(x)
    BY <1>3
  <2> QED
    BY <1>1, <1>2, <2>1
<1>8. ReadsRun(s, j, n, r)
  BY <1>2, <1>4, <1>5, <1>6, <1>7 DEF ReadsRun
<1>9. VisitAt(s, j).run = r
  BY <1>1, <1>4, <1>8, RunVisited
<1> QED
  BY <1>4, <1>9 DEF s, r

\* And without what stands in front of its text.
LEMMA RunBehind ==
  ASSUME NEW x \in Seq(Char), NEW y \in Seq(Char),
         NEW j \in 1 .. Len(y), y[j] = MARKER
  PROVE  /\ Len(x) + j \in 1 .. Len(x \o y)
         /\ (x \o y)[Len(x) + j] = MARKER
         /\ VisitAt(x \o y, Len(x) + j).run = VisitAt(y, j).run
<1> DEFINE s == x \o y
           m == Len(x)
           i == m + j
           l == LastOf(y, j)
           n == m + l
           r == VisitAt(y, j).run
<1>1. /\ s \in Seq(Char) /\ Len(s) = m + Len(y)
      /\ \A k \in 1 .. Len(y) : s[m + k] = y[k]
  BY JoinProperties
<1>2. /\ l \in j .. Len(y)
      /\ \A k \in j + 1 .. l : IsVs(y[k])
      /\ l < Len(y) => ~IsVs(y[l + 1])
      /\ r \in Seq(Byte)
      /\ Len(r) = l - j
      /\ \A k \in 1 .. l - j : r[k] = VsToByte(y[j + k])
  BY VisitAtProperties
<1> HIDE DEF s, l, r
<1>3. m \in Nat /\ Len(y) \in Nat /\ j \in Nat /\ l \in Nat /\ 1 <= j /\ j <= l /\ l <= Len(y)
  BY <1>2
<1> HIDE DEF m
<1>4. i \in 1 .. Len(s) /\ s[i] = MARKER /\ n \in i .. Len(s) /\ n - i = l - j
  BY <1>1, <1>3
<1>5. \A k \in i + 1 .. n : IsVs(s[k])
  <2> TAKE k \in i + 1 .. n
  <2>1. k - m \in 1 .. Len(y) /\ k - m \in j + 1 .. l /\ m + (k - m) = k
    BY <1>3
  <2>2. s[m + (k - m)] = y[k - m]
    BY <1>1, <2>1
  <2> QED
    BY <1>2, <2>1, <2>2
<1>6. n < Len(s) => ~IsVs(s[n + 1])
  <2>1. CASE n < Len(s)
    <3>1. l < Len(y) /\ l + 1 \in 1 .. Len(y) /\ n + 1 = m + (l + 1)
      BY <1>1, <1>3, <2>1
    <3>2. s[m + (l + 1)] = y[l + 1]
      BY <1>1, <3>1
    <3> QED
      BY <1>2, <3>1, <3>2
  <2> QED
    BY <2>1
<1>7. \A k \in 1 .. n - i : r[k] = VsToByte(s[i + k])
  <2> TAKE k \in 1 .. n - i
  <2>1. k \in 1 .. l - j /\ j + k \in 1 .. Len(y) /\ i + k = m + (j + k)
    BY <1>3, <1>4
  <2>2. s[m + (j + k)] = y[j + k]
    BY <1>1, <2>1
  <2> QED
    BY <1>2, <2>1, <2>2
<1> HIDE DEF i, n
<1>8. Len(r) = n - i
  BY <1>2, <1>4
<1>9. ReadsRun(s, i, n, r)
  BY <1>2, <1>4, <1>5, <1>6, <1>7, <1>8 DEF ReadsRun
<1>10. VisitAt(s, i).run = r
  BY <1>1, <1>4, <1>9, RunVisited
<1> QED
  BY <1>4, <1>10 DEF s, i, m, r

\* What locate_all makes of the marker at i.
WrapperAt(text, i) ==
  LET v == VisitAt(text, i)
  IN  [payload |-> SubSeq(v.run, HEADER_LEN + 1, BodyEnd(v.run)),
       version |-> VERSION,
       start   |-> v.start,
       length  |-> v.length]

\* A located wrapper is that of a marker behind which a frame stands.
LEMMA LocatedAt ==
  ASSUME NEW text \in Seq(Char), NEW w
  PROVE  w \in LocateAll(text) <=>
           \E i \in 1 .. Len(text) :
             text[i] = MARKER /\ Decodes(VisitAt(text, i).run) /\ w = WrapperAt(text, i)
<1>1. ASSUME NEW i \in 1 .. Len(text), text[i] = MARKER
      PROVE  LET v == VisitAt(text, i)
             IN  w \in DecodeFrame(v.run, v.start, v.length) <=>
                   Decodes(v.run) /\ w = WrapperAt(text, i)
  BY DEF DecodeFrame, WrapperAt
<1>2. w \in LocateAll(text) <=>
        \E i \in 1 .. Len(text) :
          /\ text[i] = MARKER
          /\ LET v == VisitAt(text, i) IN w \in DecodeFrame(v.run, v.start, v.length)
  BY DEF LocateAll, Scan
<1> QED
  BY <1>1, <1>2

\* The signature stands at the marker of every located wrapper.
LEMMA LocatedSignature ==
  ASSUME NEW text \in Seq(Char), NEW i \in 1 .. Len(text), text[i] = MARKER,
         Decodes(VisitAt(text, i).run)
  PROVE  OccursAt(Signature, text, i)
BY MagicIffSignature DEF Decodes, HasBounds

\* Where the signature occurs once, and a frame decodes there, extract returns
\* its wrapper.
LEMMA OneCandidate ==
  ASSUME NEW text \in Seq(Char), NEW i \in 1 .. Len(text), text[i] = MARKER,
         Decodes(VisitAt(text, i).run),
         \A j \in 1 .. Len(text) : OccursAt(Signature, text, j) => j = i
  PROVE  /\ Extract(text) = Ok(WrapperAt(text, i))
         /\ LocateAll(text) = {WrapperAt(text, i)}
         /\ ~HasCorruptedCandidate(text)
<1>1. ASSUME NEW v \in Scan(text), HasMagic(v.run)
      PROVE  v = VisitAt(text, i)
  <2>1. PICK j \in 1 .. Len(text) : text[j] = MARKER /\ v = VisitAt(text, j)
    BY DEF Scan
  <2>2. OccursAt(Signature, text, j)
    BY <1>1, <2>1, MagicIffSignature
  <2> QED
    BY <2>1, <2>2
<1>2. ~HasCorruptedCandidate(text)
  <2>1. DecodeFrame(VisitAt(text, i).run, VisitAt(text, i).start,
                    VisitAt(text, i).length) # {}
    BY DEF DecodeFrame
  <2> QED
    BY <1>1, <2>1 DEF HasCorruptedCandidate
<1>3. LocateAll(text) = {WrapperAt(text, i)}
  <2>1. \A w : w \in LocateAll(text) => w = WrapperAt(text, i)
    <3> SUFFICES ASSUME NEW w, w \in LocateAll(text)
                 PROVE  w = WrapperAt(text, i)
      OBVIOUS
    <3>1. PICK j \in 1 .. Len(text) :
            text[j] = MARKER /\ Decodes(VisitAt(text, j).run) /\ w = WrapperAt(text, j)
      BY LocatedAt
    <3>2. j = i
      BY <3>1, LocatedSignature
    <3> QED
      BY <3>1, <3>2
  <2>2. WrapperAt(text, i) \in LocateAll(text)
    BY LocatedAt
  <2> QED
    BY <2>1, <2>2
<1>4. Extract(text) = Ok(WrapperAt(text, i))
  <2> DEFINE w == WrapperAt(text, i)
  <2> HIDE DEF w
  <2>1. LocateAll(text) = {w}
    BY <1>3 DEF w
  <2>2. /\ LocateAll(text) # {}
        /\ \E u \in LocateAll(text) : LocateAll(text) = {u}
        /\ (CHOOSE u \in LocateAll(text) : TRUE) = w
    BY <2>1
  <2>3. Extract(text) = Ok(w)
    BY <1>2, <2>2 DEF Extract
  <2> QED
    BY <2>3 DEF w
<1> QED
  BY <1>2, <1>3, <1>4

\* A run that decodes begins with the frame of the payload it decodes to.
LEMMA DecodedFrame ==
  ASSUME NEW run \in Seq(Byte), Decodes(run)
  PROVE  LET p == SubSeq(run, HEADER_LEN + 1, BodyEnd(run))
         IN  /\ p \in Seq(Byte)
             /\ FitsLength(Len(p))
             /\ Len(run) >= HEADER_LEN + Len(p)
             /\ \A j \in 1 .. HEADER_LEN + Len(p) : run[j] = Framed(p, <<>>)[j]
<1> DEFINE p      == SubSeq(run, HEADER_LEN + 1, BodyEnd(run))
           field  == SubSeq(run, 10, 9 + LENGTH_BYTES)
           n      == FromBeBytes(field)
           framed == Framed(p, <<>>)
<1>1. LENGTH_BYTES \in Nat /\ HEADER_LEN = 9 + LENGTH_BYTES /\ Len(MAGIC) = 8
  BY WidthAssumption, MagicProperties DEF HEADER_LEN
<1>2. /\ Len(run) >= HEADER_LEN
      /\ SubSeq(run, 1, 8) = MAGIC
      /\ run[9] = VERSION
      /\ Len(run) >= BodyEnd(run)
  <2>1. 8 + 1 = 9
    OBVIOUS
  <2> QED
    BY <1>1, <2>1 DEF Decodes, HasBounds, HasMagic
<1>3. /\ field \in Seq(Byte) /\ Len(field) = LENGTH_BYTES
      /\ \A j \in 1 .. LENGTH_BYTES : field[j] = run[9 + j]
  <2>1. 10 \in 1 .. Len(run) + 1 /\ 9 + LENGTH_BYTES \in 10 - 1 .. Len(run)
    BY <1>1, <1>2
  <2>2. /\ field \in Seq(Byte)
        /\ Len(field) = (9 + LENGTH_BYTES) - 10 + 1
        /\ \A j \in 1 .. (9 + LENGTH_BYTES) - 10 + 1 : field[j] = run[10 + j - 1]
    BY <2>1, PartProperties
  <2>3. (9 + LENGTH_BYTES) - 10 + 1 = LENGTH_BYTES
    BY <1>1
  <2> HIDE DEF field
  <2>4. ASSUME NEW j \in 1 .. LENGTH_BYTES
        PROVE  field[j] = run[9 + j]
    <3>1. 10 + j - 1 = 9 + j
      OBVIOUS
    <3>2. field[j] = run[10 + j - 1]
      BY <2>2, <2>3
    <3> QED
      BY <3>1, <3>2
  <2> QED
    BY <2>2, <2>3, <2>4
<1>4. BodyEnd(run) = HEADER_LEN + n
  <2>1. Len(MAGIC) + 2 = 10
    BY <1>1
  <2> QED
    BY <1>1, <2>1 DEF BodyEnd, Declared
<1> HIDE DEF field
<1>5. n \in Nat /\ FitsLength(n) /\ ToBeBytes(n) = field
  BY <1>3, FieldWritesBack
<1> HIDE DEF n
<1>6. /\ p \in Seq(Byte) /\ Len(p) = n
      /\ \A j \in 1 .. n : p[j] = run[HEADER_LEN + j]
  <2>1. /\ HEADER_LEN + 1 \in 1 .. Len(run) + 1
        /\ HEADER_LEN + n \in (HEADER_LEN + 1) - 1 .. Len(run)
    BY <1>1, <1>2, <1>4, <1>5
  <2>2. /\ p \in Seq(Byte)
        /\ Len(p) = (HEADER_LEN + n) - (HEADER_LEN + 1) + 1
        /\ \A j \in 1 .. (HEADER_LEN + n) - (HEADER_LEN + 1) + 1 :
             p[j] = run[(HEADER_LEN + 1) + j - 1]
    BY <1>4, <2>1, PartProperties
  <2>3. (HEADER_LEN + n) - (HEADER_LEN + 1) + 1 = n
    BY <1>1, <1>5
  <2> HIDE DEF p
  <2>4. ASSUME NEW j \in 1 .. n
        PROVE  p[j] = run[HEADER_LEN + j]
    <3>1. (HEADER_LEN + 1) + j - 1 = HEADER_LEN + j
      BY <1>1
    <3>2. p[j] = run[(HEADER_LEN + 1) + j - 1]
      BY <2>2, <2>3
    <3> QED
      BY <3>1, <3>2
  <2> QED
    BY <2>2, <2>3, <2>4
<1> HIDE DEF p
<1>7. /\ \A j \in 1 .. 8 : framed[j] = MAGIC[j]
      /\ framed[9] = VERSION
      /\ \A j \in 1 .. LENGTH_BYTES : framed[9 + j] = ToBeBytes(Len(p))[j]
      /\ \A j \in 1 .. Len(p) : framed[HEADER_LEN + j] = p[j]
  <2>1. <<>> \in Seq(Byte)
    OBVIOUS
  <2> QED
    BY <1>6, <2>1, FramedElements
<1> HIDE DEF framed
<1>8. \A j \in 1 .. 8 : run[j] = MAGIC[j]
  <2>1. \A j \in 1 .. 8 : SubSeq(run, 1, 8)[j] = run[j]
    BY <1>1, <1>2
  <2> QED
    BY <1>2, <2>1
<1>9. ASSUME NEW j \in 1 .. HEADER_LEN + Len(p)
      PROVE  run[j] = framed[j]
  <2>1. CASE j \in 1 .. 8
    BY <1>7, <1>8, <2>1
  <2>2. CASE j = 9
    BY <1>2, <1>7, <2>2
  <2>3. CASE j \in 10 .. HEADER_LEN
    <3>1. j - 9 \in 1 .. LENGTH_BYTES /\ 9 + (j - 9) = j
      BY <1>1, <2>3
    <3>2. framed[9 + (j - 9)] = field[j - 9] /\ field[j - 9] = run[9 + (j - 9)]
      BY <1>3, <1>5, <1>6, <1>7, <3>1
    <3> QED
      BY <3>1, <3>2
  <2>4. CASE j > HEADER_LEN
    <3>1. j - HEADER_LEN \in 1 .. n /\ HEADER_LEN + (j - HEADER_LEN) = j
      BY <1>1, <1>5, <1>6, <2>4
    <3>2. /\ framed[HEADER_LEN + (j - HEADER_LEN)] = p[j - HEADER_LEN]
          /\ p[j - HEADER_LEN] = run[HEADER_LEN + (j - HEADER_LEN)]
      BY <1>6, <1>7, <3>1
    <3> QED
      BY <3>1, <3>2
  <2> QED
    BY <1>1, <1>5, <1>6, <2>1, <2>2, <2>3, <2>4
<1>10. Len(run) >= HEADER_LEN + Len(p)
  BY <1>2, <1>4, <1>6
<1> QED
  BY <1>5, <1>6, <1>9, <1>10 DEF p, framed

\* Encoding the payload of a located wrapper gives back what is stored: the
\* length its header declares is exactly the length it is read with.
THEOREM StoredReencodes ==
  ASSUME NEW text \in Seq(Char), NEW w \in LocateAll(text)
  PROVE  LET stored == Slice(text, w.start, w.start + w.length)
             again  == Encode(w.payload)
         IN  /\ w.payload \in Seq(Byte)
             /\ IsOk(again)
             /\ SubSeq(stored, 1, Len(again.ok)) = again.ok
<1>1. PICK i \in 1 .. Len(text) :
        text[i] = MARKER /\ Decodes(VisitAt(text, i).run) /\ w = WrapperAt(text, i)
  BY LocatedAt
<1> DEFINE v      == VisitAt(text, i)
           n      == LastOf(text, i)
           p      == SubSeq(v.run, HEADER_LEN + 1, BodyEnd(v.run))
           framed == Framed(p, <<>>)
           again  == Carry(framed)
           stored == SubSeq(text, i, n)
<1>2. /\ n \in i .. Len(text)
      /\ \A j \in i + 1 .. n : IsVs(text[j])
      /\ v.run \in Seq(Byte)
      /\ Len(v.run) = n - i
      /\ \A j \in 1 .. n - i : v.run[j] = VsToByte(text[i + j])
      /\ v.start = Offset(text, i - 1)
      /\ v.start + v.length = Offset(text, n)
  BY <1>1, VisitAtProperties
<1>3. w.payload = p /\ w.start = v.start /\ w.length = v.length
  BY <1>1 DEF WrapperAt
<1>4. Decodes(v.run)
  BY <1>1
<1> HIDE DEF v, n
<1>5. /\ p \in Seq(Byte)
      /\ FitsLength(Len(p))
      /\ Len(v.run) >= HEADER_LEN + Len(p)
      /\ \A j \in 1 .. HEADER_LEN + Len(p) : v.run[j] = framed[j]
  BY <1>2, <1>4, DecodedFrame
<1> HIDE DEF p
<1>6. framed \in Seq(Byte) /\ Len(framed) = HEADER_LEN + Len(p) /\ HEADER_LEN \in Nat
  <2>1. <<>> \in Seq(Byte) /\ Len(<<>>) = 0
    OBVIOUS
  <2>2. /\ framed \in Seq(Byte) /\ Len(framed) = HEADER_LEN + Len(p) + Len(<<>>)
        /\ HEADER_LEN = 9 + LENGTH_BYTES
    BY <1>5, <2>1, FramedElements
  <2>3. Len(p) \in Nat /\ LENGTH_BYTES \in Nat
    BY <1>5, WidthAssumption
  <2> HIDE DEF framed
  <2> QED
    BY <2>1, <2>2, <2>3
<1>7. Encode(p) = Ok(again)
  BY <1>5 DEF Encode, EncodeWithPadding
<1> HIDE DEF framed
<1>8. /\ again \in Seq(Char) /\ Len(again) = Len(framed) + 1
      /\ again[1] = MARKER
      /\ \A j \in 1 .. Len(framed) : again[j + 1] = ByteToVs(framed[j])
  BY <1>6, CarryProperties
<1> HIDE DEF again
<1>9. Slice(text, w.start, w.start + w.length) = stored
  <2>1. i - 1 \in 0 .. Len(text) /\ n \in 0 .. Len(text) /\ (i - 1) + 1 = i
    BY <1>2
  <2>2. Slice(text, Offset(text, i - 1), Offset(text, n)) = SubSeq(text, (i - 1) + 1, n)
    BY <2>1, SliceAtOffsets
  <2> QED
    BY <1>2, <1>3, <2>1, <2>2
<1>10. /\ stored \in Seq(Char) /\ Len(stored) = n - i + 1
       /\ \A j \in 1 .. n - i + 1 : stored[j] = text[i + j - 1]
  <2>1. i \in 1 .. Len(text) + 1 /\ n \in i - 1 .. Len(text)
    BY <1>2
  <2> QED
    BY <2>1, PartProperties
<1> HIDE DEF stored
<1>11. Len(again) \in 0 .. Len(stored)
  <2>1. Len(framed) \in Nat
    BY <1>6
  <2> QED
    BY <1>2, <1>5, <1>6, <1>8, <1>10, <2>1
<1>12. /\ SubSeq(stored, 1, Len(again)) \in Seq(Char)
       /\ Len(SubSeq(stored, 1, Len(again))) = Len(again)
       /\ \A j \in 1 .. Len(again) : SubSeq(stored, 1, Len(again))[j] = stored[j]
  BY <1>10, <1>11
<1>13. ASSUME NEW j \in 1 .. Len(again)
       PROVE  stored[j] = again[j]
  <2>0. n - i + 1 \in Nat /\ j \in 1 .. n - i + 1
    BY <1>2, <1>10, <1>11
  <2>1. stored[j] = text[i + j - 1]
    BY <1>10, <2>0
  <2>2. CASE j = 1
    <3>1. i + 1 - 1 = i
      OBVIOUS
    <3> QED
      BY <1>1, <1>8, <2>1, <2>2, <3>1
  <2>3. CASE j # 1
    <3> DEFINE k == j - 1
    <3>1. /\ k \in 1 .. Len(framed) /\ k + 1 = j /\ k \in 1 .. n - i
          /\ i + j - 1 = i + k /\ i + k \in i + 1 .. n
      BY <1>2, <1>6, <1>8, <2>0, <2>3
    <3> HIDE DEF k
    <3>2. again[j] = ByteToVs(framed[k])
      BY <1>8, <3>1
    <3>3. framed[k] = v.run[k] /\ v.run[k] = VsToByte(text[i + k])
      BY <1>2, <1>5, <1>6, <3>1
    <3>4. ByteToVs(VsToByte(text[i + k])) = text[i + k]
      BY <1>2, <3>1, SelectorRoundTrip
    <3> QED
      BY <2>1, <3>1, <3>2, <3>3, <3>4
  <2> QED
    BY <2>2, <2>3
<1>14. SubSeq(stored, 1, Len(again)) = again
  BY <1>8, <1>12, <1>13, SeqEqual
<1> QED
  BY <1>3, <1>5, <1>7, <1>9, <1>14 DEF Ok, IsOk

-----------------------------------------------------------------------------
(* A carried frame in a text. *)


\* What is carried: a marker, then nothing but selectors.
LEMMA CarryShape ==
  ASSUME NEW framed \in Seq(Byte)
  PROVE  /\ Carry(framed) \in Seq(Char)
         /\ Len(Carry(framed)) = Len(framed) + 1
         /\ Carry(framed)[1] = MARKER
         /\ \A j \in 1 .. Len(framed) :
              /\ Carry(framed)[j + 1] = ByteToVs(framed[j])
              /\ IsVs(Carry(framed)[j + 1])
              /\ VsToByte(Carry(framed)[j + 1]) = framed[j]
<1>1. /\ Carry(framed) \in Seq(Char)
      /\ Len(Carry(framed)) = Len(framed) + 1
      /\ Carry(framed)[1] = MARKER
      /\ \A j \in 1 .. Len(framed) : Carry(framed)[j + 1] = ByteToVs(framed[j])
  BY CarryProperties
<1>2. \A j \in 1 .. Len(framed) : framed[j] \in Byte
  BY ElementOfSeq
<1> QED
  BY <1>1, <1>2, ByteRoundTrip

\* A carried frame: a marker, then nothing but selectors.
LEMMA CarrierShape ==
  ASSUME NEW p \in Seq(Byte), NEW pad \in Seq(Byte)
  PROVE  LET framed == Framed(p, pad)
             c      == Carry(framed)
         IN  /\ framed \in Seq(Byte)
             /\ Len(framed) = HEADER_LEN + Len(p) + Len(pad)
             /\ Len(framed) >= 9
             /\ c \in Seq(Char)
             /\ Len(c) = Len(framed) + 1
             /\ c[1] = MARKER
             /\ \A j \in 1 .. Len(framed) :
                  c[j + 1] = ByteToVs(framed[j]) /\ IsVs(c[j + 1]) /\ VsToByte(c[j + 1]) = framed[j]
<1> DEFINE framed == Framed(p, pad)
           c      == Carry(framed)
<1>1. framed \in Seq(Byte) /\ Len(framed) = HEADER_LEN + Len(p) + Len(pad)
  BY FramedElements
<1>2. Len(framed) >= 9
  <2>1. LENGTH_BYTES \in Nat /\ Len(p) \in Nat /\ Len(pad) \in Nat /\ HEADER_LEN = 9 + LENGTH_BYTES
    BY WidthAssumption, MagicProperties DEF HEADER_LEN
  <2> HIDE DEF framed
  <2> QED
    BY <1>1, <2>1
<1> HIDE DEF framed
<1>3. /\ c \in Seq(Char)
      /\ Len(c) = Len(framed) + 1
      /\ c[1] = MARKER
      /\ \A j \in 1 .. Len(framed) :
           c[j + 1] = ByteToVs(framed[j]) /\ IsVs(c[j + 1]) /\ VsToByte(c[j + 1]) = framed[j]
  BY <1>1, CarryShape
<1> HIDE DEF c
<1> QED
  BY <1>1, <1>2, <1>3 DEF c, framed

\* Joining three texts from the left or from the right.
LEMMA JoinAssoc ==
  ASSUME NEW x \in Seq(Char), NEW y \in Seq(Char), NEW z \in Seq(Char)
  PROVE  x \o (y \o z) = (x \o y) \o z
<1> DEFINE yz == y \o z
           xy == x \o y
<1>1. /\ yz \in Seq(Char) /\ Len(yz) = Len(y) + Len(z)
      /\ \A k \in 1 .. Len(y) : yz[k] = y[k]
      /\ \A k \in 1 .. Len(z) : yz[Len(y) + k] = z[k]
  BY JoinProperties
<1>2. /\ xy \in Seq(Char) /\ Len(xy) = Len(x) + Len(y)
      /\ \A k \in 1 .. Len(x) : xy[k] = x[k]
      /\ \A k \in 1 .. Len(y) : xy[Len(x) + k] = y[k]
  BY JoinProperties
<1> HIDE DEF yz, xy
<1>3. /\ x \o yz \in Seq(Char) /\ Len(x \o yz) = Len(x) + Len(yz)
      /\ \A k \in 1 .. Len(x) : (x \o yz)[k] = x[k]
      /\ \A k \in 1 .. Len(yz) : (x \o yz)[Len(x) + k] = yz[k]
  <2>1. yz \in Seq(Char)
    BY <1>1
  <2> QED
    BY <2>1, JoinProperties
<1>4. /\ xy \o z \in Seq(Char) /\ Len(xy \o z) = Len(xy) + Len(z)
      /\ \A k \in 1 .. Len(xy) : (xy \o z)[k] = xy[k]
      /\ \A k \in 1 .. Len(z) : (xy \o z)[Len(xy) + k] = z[k]
  <2>1. xy \in Seq(Char)
    BY <1>2
  <2> QED
    BY <2>1, JoinProperties
<1> DEFINE l == x \o yz
           r == xy \o z
<1>5. Len(x) \in Nat /\ Len(y) \in Nat /\ Len(z) \in Nat
  OBVIOUS
<1> HIDE DEF l, r
<1>6. ASSUME NEW k \in 1 .. Len(l)
      PROVE  l[k] = r[k]
  <2>0. k \in 1 .. Len(x) + Len(y) + Len(z)
    BY <1>1, <1>3, <1>5 DEF l
  <2>1. CASE k <= Len(x)
    <3>1. k \in 1 .. Len(x) /\ k \in 1 .. Len(xy)
      BY <1>2, <1>5, <2>0, <2>1
    <3> QED
      BY <1>2, <1>3, <1>4, <3>1 DEF l, r
  <2>2. CASE Len(x) < k /\ k <= Len(x) + Len(y)
    <3> DEFINE m == k - Len(x)
    <3>1. m \in 1 .. Len(y) /\ m \in 1 .. Len(yz) /\ k \in 1 .. Len(xy) /\ k = Len(x) + m
      BY <1>1, <1>2, <1>5, <2>0, <2>2
    <3> HIDE DEF m
    <3>2. l[Len(x) + m] = yz[m] /\ yz[m] = y[m]
      BY <1>1, <1>3, <3>1 DEF l
    <3>3. r[k] = xy[k] /\ xy[Len(x) + m] = y[m]
      BY <1>2, <1>4, <3>1 DEF r
    <3> QED
      BY <3>1, <3>2, <3>3
  <2>3. CASE Len(x) + Len(y) < k
    <3> DEFINE m == k - (Len(x) + Len(y))
    <3>1. /\ m \in 1 .. Len(z) /\ Len(y) + m \in 1 .. Len(yz)
          /\ k = Len(x) + (Len(y) + m) /\ k = Len(xy) + m
      BY <1>1, <1>2, <1>5, <2>0, <2>3
    <3> HIDE DEF m
    <3>2. l[Len(x) + (Len(y) + m)] = yz[Len(y) + m] /\ yz[Len(y) + m] = z[m]
      BY <1>1, <1>3, <3>1 DEF l
    <3>3. r[Len(xy) + m] = z[m]
      BY <1>4, <3>1 DEF r
    <3> QED
      BY <3>1, <3>2, <3>3
  <2> QED
    BY <1>5, <2>0, <2>1, <2>2, <2>3
<1>7. Len(l) = Len(r)
  BY <1>1, <1>2, <1>3, <1>4, <1>5 DEF l, r
<1>8. l = r
  BY <1>3, <1>4, <1>6, <1>7, SeqEqual DEF l, r
<1> QED
  BY <1>8 DEF l, r, xy, yz

\* The runs of a text that are not the carried one are those of what stands in
\* front of it and behind it.
LEMMA RunsAround ==
  ASSUME NEW b \in Seq(Char), NEW a \in Seq(Char), NEW framed \in Seq(Byte),
         NEW v \in Scan(b \o Carry(framed) \o a)
  PROVE  \/ v = VisitAt(b \o Carry(framed) \o a, Len(b) + 1)
         \/ \E u \in Scan(b) \cup Scan(a) : u.run = v.run
<1> DEFINE c    == Carry(framed)
           text == b \o c \o a
           n    == Len(b)
           m    == Len(c)
<1>1. /\ c \in Seq(Char) /\ m = Len(framed) + 1 /\ c[1] = MARKER
      /\ \A k \in 1 .. Len(framed) : IsVs(c[k + 1])
  BY CarryShape
<1>2. PICK j \in 1 .. Len(text) : text[j] = MARKER /\ v = VisitAt(text, j)
  BY DEF Scan
<1> HIDE DEF c
<1>3. /\ text \in Seq(Char)
      /\ Len(text) = n + m + Len(a)
      /\ \A k \in 1 .. n : text[k] = b[k]
      /\ \A k \in 1 .. m : text[n + k] = c[k]
      /\ \A k \in 1 .. Len(a) : text[n + m + k] = a[k]
  BY <1>1, ThreeParts
<1>4. n \in Nat /\ m \in Nat /\ Len(a) \in Nat /\ Len(framed) \in Nat
  BY <1>1
<1>5. CASE j <= n
  <2> DEFINE y == c \o a
  <2>1. y \in Seq(Char) /\ y[1] = MARKER
    <3>1. y \in Seq(Char) /\ \A k \in 1 .. Len(c) : y[k] = c[k]
      BY <1>1, JoinProperties
    <3>2. 1 \in 1 .. Len(c)
      BY <1>1, <1>4
    <3> HIDE DEF y
    <3> QED
      BY <1>1, <3>1, <3>2
  <2>2. text = b \o y
    BY <1>1, JoinAssoc
  <2> HIDE DEF y
  <2>3. j \in 1 .. Len(b) /\ b[j] = MARKER
    BY <1>2, <1>3, <1>4, <1>5
  <2>4. ~IsVs(y[1])
    BY <2>1, MarkerProperties
  <2>5. VisitAt(b \o y, j).run = VisitAt(b, j).run
    BY <2>1, <2>3, <2>4, RunInFront
  <2>6. VisitAt(b, j) \in Scan(b)
    BY <2>3 DEF Scan
  <2> QED
    BY <1>2, <2>2, <2>5, <2>6
<1>6. CASE j = n + 1
  BY <1>2, <1>6 DEF c
<1>7. CASE n + 1 < j /\ j <= n + m
  <2> DEFINE k == j - (n + 1)
  <2>1. k \in 1 .. Len(framed) /\ k + 1 \in 1 .. m /\ j = n + (k + 1)
    BY <1>1, <1>4, <1>7
  <2> HIDE DEF k
  <2>2. text[n + (k + 1)] = c[k + 1] /\ IsVs(c[k + 1])
    BY <1>1, <1>3, <2>1
  <2> QED
    BY <1>2, <2>1, <2>2, MarkerProperties
<1>8. CASE n + m < j
  <2> DEFINE x == b \o c
             k == j - (n + m)
  <2>1. x \in Seq(Char) /\ Len(x) = n + m /\ text = x \o a
    BY <1>1, JoinProperties
  <2>2. k \in 1 .. Len(a) /\ j = n + m + k
    BY <1>2, <1>3, <1>4, <1>8
  <2> HIDE DEF x, k
  <2>3. a[k] = MARKER
    BY <1>2, <1>3, <2>2
  <2>4. VisitAt(x \o a, Len(x) + k).run = VisitAt(a, k).run
    BY <2>1, <2>2, <2>3, RunBehind
  <2>5. VisitAt(a, k) \in Scan(a)
    BY <2>2, <2>3 DEF Scan
  <2> QED
    BY <1>2, <2>1, <2>2, <2>4, <2>5
<1> QED
  BY <1>4, <1>5, <1>6, <1>7, <1>8

\* The signature is a marker and selectors: it occurs in a text that is put
\* together from others only where it occurs in one of them, if the middle one is
\* a carried frame.  A marker is no selector, so no occurrence crosses a seam.
LEMMA OneSignatureIn ==
  ASSUME NEW b \in Seq(Char), NEW a \in Seq(Char),
         NEW p \in Seq(Byte), NEW pad \in Seq(Byte),
         ~Occurs(Signature, b), ~Occurs(Signature, a)
  PROVE  LET text == b \o Carry(Framed(p, pad)) \o a
         IN  \A j \in 1 .. Len(text) : OccursAt(Signature, text, j) => j = Len(b) + 1
<1> DEFINE c    == Carry(Framed(p, pad))
           text == b \o c \o a
           n    == Len(b)
           m    == Len(c)
<1>1. /\ c \in Seq(Char) /\ m >= 10 /\ c[1] = MARKER
      /\ \A k \in 2 .. m : IsVs(c[k])
  <2>1. /\ c \in Seq(Char) /\ m = Len(Framed(p, pad)) + 1 /\ Len(Framed(p, pad)) >= 9
        /\ Framed(p, pad) \in Seq(Byte)
        /\ c[1] = MARKER
        /\ \A k \in 1 .. Len(Framed(p, pad)) : IsVs(c[k + 1])
    BY CarrierShape
  <2> HIDE DEF c
  <2>2. Len(Framed(p, pad)) \in Nat
    BY <2>1
  <2>3. ASSUME NEW k \in 2 .. m
        PROVE  IsVs(c[k])
    <3>1. k - 1 \in 1 .. Len(Framed(p, pad)) /\ (k - 1) + 1 = k
      BY <2>1, <2>2
    <3>2. IsVs(c[(k - 1) + 1])
      BY <2>1, <3>1
    <3> QED
      BY <3>1, <3>2
  <2> QED
    BY <2>1, <2>2, <2>3
<1> HIDE DEF c
<1>2. /\ text \in Seq(Char)
      /\ Len(text) = n + m + Len(a)
      /\ \A k \in 1 .. n : text[k] = b[k]
      /\ \A k \in 1 .. m : text[n + k] = c[k]
      /\ \A k \in 1 .. Len(a) : text[n + m + k] = a[k]
  BY <1>1, ThreeParts
<1>3. n \in Nat /\ m \in Nat /\ Len(a) \in Nat
  BY <1>1
<1> HIDE DEF text, n, m
<1> SUFFICES ASSUME NEW j \in 1 .. Len(text), OccursAt(Signature, text, j)
             PROVE  j = n + 1
  BY DEF text, n, c
<1>4. /\ j + 8 <= Len(text)
      /\ text[j] = MARKER
      /\ \A k \in 1 .. 8 : text[j + k] = ByteToVs(MAGIC[k])
  BY <1>2, SignatureAt
<1>5. j \in Nat /\ 1 <= j
  BY <1>2
<1>6. \A k \in 1 .. 8 : text[j + k] # MARKER
  <2> TAKE k \in 1 .. 8
  <2>1. MAGIC[k] \in Byte
    BY MagicProperties, ElementOfSeq
  <2>2. IsVs(text[j + k])
    BY <1>4, <2>1, ByteRoundTrip
  <2> QED
    BY <2>2, MarkerProperties
<1>7. CASE j + 8 <= n
  <2>1. j \in 1 .. Len(b) /\ j + 8 <= Len(b)
    BY <1>3, <1>5, <1>7 DEF n
  <2>2. b[j] = MARKER
    BY <1>2, <1>4, <2>1 DEF n
  <2>3. \A k \in 1 .. 8 : b[j + k] = ByteToVs(MAGIC[k])
    <3> TAKE k \in 1 .. 8
    <3>1. j + k \in 1 .. n
      BY <1>3, <1>5, <1>7
    <3> QED
      BY <1>2, <1>4, <3>1
  <2>4. OccursAt(Signature, b, j)
    BY <2>1, <2>2, <2>3, SignatureAt
  <2> QED
    BY <2>1, <2>4 DEF Occurs
<1>8. CASE j <= n /\ n < j + 8
  <2>1. (n + 1) - j \in 1 .. 8 /\ j + ((n + 1) - j) = n + 1 /\ 1 \in 1 .. m
    BY <1>1, <1>3, <1>5, <1>8
  <2>2. text[n + 1] = MARKER
    BY <1>1, <1>2, <2>1
  <2>3. text[j + ((n + 1) - j)] # MARKER
    BY <1>6, <2>1
  <2> QED
    BY <2>1, <2>2, <2>3
<1>9. CASE n + 1 < j /\ j <= n + m
  <2>1. j - n \in 2 .. m /\ j - n \in 1 .. m /\ n + (j - n) = j
    BY <1>3, <1>5, <1>9
  <2>2. text[n + (j - n)] = c[j - n] /\ IsVs(c[j - n])
    BY <1>1, <1>2, <2>1
  <2> QED
    BY <1>4, <2>1, <2>2, MarkerProperties
<1>10. CASE n + m < j
  <2> DEFINE i == j - (n + m)
  <2>1. i \in 1 .. Len(a) /\ i + 8 <= Len(a) /\ n + m + i = j
    BY <1>2, <1>3, <1>4, <1>5, <1>10
  <2> HIDE DEF i
  <2>2. a[i] = MARKER
    BY <1>2, <1>4, <2>1
  <2>3. \A k \in 1 .. 8 : a[i + k] = ByteToVs(MAGIC[k])
    <3> TAKE k \in 1 .. 8
    <3>1. i + k \in 1 .. Len(a) /\ n + m + (i + k) = j + k
      BY <1>3, <2>1
    <3>2. text[n + m + (i + k)] = a[i + k]
      BY <1>2, <3>1
    <3> QED
      BY <1>4, <3>1, <3>2
  <2>4. OccursAt(Signature, a, i)
    BY <2>1, <2>2, <2>3, SignatureAt
  <2> QED
    BY <2>1, <2>4 DEF Occurs
<1> QED
  BY <1>3, <1>5, <1>7, <1>8, <1>9, <1>10

\* Between b and a, the run behind the marker begins with what was carried, from
\* the byte b ends at; it goes further only if something stands behind it.
CarriedAt(b, framed, a) ==
  LET text == b \o Carry(framed) \o a
      i    == Len(b) + 1
      v    == VisitAt(text, i)
  IN  /\ text \in Seq(Char)
      /\ i \in 1 .. Len(text)
      /\ text[i] = MARKER
      /\ v.run \in Seq(Byte)
      /\ Len(v.run) >= Len(framed)
      /\ \A j \in 1 .. Len(framed) : v.run[j] = framed[j]
      /\ v.start = ByteLen(b)
      /\ v.length \in Nat
      /\ v.length >= ByteLen(Carry(framed))
      /\ a = <<>> => v.length = ByteLen(Carry(framed))

\* Whatever stands around it, what is carried is visited whole.
LEMMA CarriedRun ==
  ASSUME NEW b \in Seq(Char), NEW a \in Seq(Char), NEW framed \in Seq(Byte)
  PROVE  CarriedAt(b, framed, a)
<1> DEFINE c      == Carry(framed)
           text   == b \o c \o a
           i      == Len(b) + 1
           n      == Len(b)
           m      == Len(c)
           last   == LastOf(text, i)
           v      == VisitAt(text, i)
<1>1. /\ c \in Seq(Char) /\ m = Len(framed) + 1
      /\ c[1] = MARKER
      /\ \A j \in 1 .. Len(framed) : IsVs(c[j + 1]) /\ VsToByte(c[j + 1]) = framed[j]
  BY CarryShape
<1> HIDE DEF c, last, v
<1>2. /\ text \in Seq(Char)
      /\ Len(text) = n + m + Len(a)
      /\ \A k \in 1 .. n : text[k] = b[k]
      /\ \A k \in 1 .. m : text[n + k] = c[k]
  <2>1. c \in Seq(Char)
    BY <1>1
  <2> HIDE DEF i
  <2> QED
    BY <2>1, ThreeParts
<1>3. n \in Nat /\ m \in Nat /\ Len(a) \in Nat /\ Len(framed) \in Nat /\ i = n + 1
  BY <1>1
<1>3a. m = Len(framed) + 1 /\ m >= 1
  BY <1>1, <1>3
<1>4. (b \o c) \in Seq(Char) /\ Len(b \o c) = n + m /\ \A k \in 1 .. n + m : text[k] = (b \o c)[k]
  <2>1. b \o c \in Seq(Char) /\ Len(b \o c) = Len(b) + Len(c)
    BY <1>1, JoinProperties
  <2>2. \A k \in 1 .. Len(b \o c) : text[k] = (b \o c)[k]
    <3> DEFINE own == b \o c
    <3>1. own \in Seq(Char)
      BY <2>1
    <3> HIDE DEF own
    <3>2. \A k \in 1 .. Len(own) : (own \o a)[k] = own[k]
      BY <3>1, JoinProperties
    <3> QED
      BY <3>2 DEF own
  <2> HIDE DEF text
  <2> QED
    BY <2>1, <2>2
<1> HIDE DEF text, n, m, i
<1>5. i \in 1 .. Len(text) /\ text[i] = MARKER
  <2>1. 1 \in 1 .. m
    BY <1>3, <1>3a
  <2>2. Len(text) = n + m + Len(a)
    BY <1>2
  <2>3. i \in 1 .. Len(text)
    BY <1>3, <1>3a, <2>2
  <2> QED
    BY <1>1, <1>2, <1>3, <2>1, <2>3
<1>6. /\ last \in i .. Len(text)
      /\ v.run \in Seq(Byte)
      /\ Len(v.run) = last - i
      /\ \A j \in 1 .. last - i : v.run[j] = VsToByte(text[i + j])
      /\ v.start = Offset(text, i - 1)
      /\ v.start \in Nat /\ v.length \in Nat
      /\ v.start + v.length = Offset(text, last)
  <2>1. text \in Seq(Char) /\ i \in 1 .. Len(text) /\ text[i] = MARKER
    BY <1>2, <1>5
  <2> QED
    BY <2>1, VisitAtProperties DEF v, last
<1>7. n + m <= last
  <2>0. Len(text) = n + m + Len(a)
    BY <1>2
  <2>1. n + m \in i .. Len(text)
    BY <1>3, <1>3a, <2>0
  <2>2. ASSUME NEW j \in i + 1 .. n + m
        PROVE  IsVs(text[j])
    <3> DEFINE k == j - i
    <3>1. k \in 1 .. Len(framed) /\ k + 1 \in 1 .. m /\ n + (k + 1) = j
      BY <1>3, <1>3a
    <3> HIDE DEF k
    <3>2. text[n + (k + 1)] = c[k + 1] /\ IsVs(c[k + 1])
      BY <1>1, <1>2, <3>1
    <3> QED
      BY <3>1, <3>2
  <2>3. \A j \in i + 1 .. n + m : IsVs(text[j])
    BY <2>2
  <2> QED
    BY <1>2, <1>5, <2>1, <2>3, LastOfAtLeast DEF last
<1>8. /\ Len(v.run) >= Len(framed)
      /\ \A j \in 1 .. Len(framed) : v.run[j] = framed[j]
  <2>1. last \in i .. Len(text) /\ Len(text) \in Nat /\ Len(v.run) = last - i
    BY <1>2, <1>6
  <2>2. Len(v.run) >= Len(framed)
    BY <1>3, <1>3a, <1>7, <2>1
  <2>3. ASSUME NEW j \in 1 .. Len(framed)
        PROVE  v.run[j] = framed[j]
    <3>1. j + 1 \in 1 .. m /\ n + (j + 1) = i + j /\ j \in 1 .. last - i
      BY <1>3, <1>3a, <1>7, <2>1
    <3>2. v.run[j] = VsToByte(text[i + j])
      BY <1>6, <3>1
    <3>3. text[i + j] = c[j + 1] /\ VsToByte(c[j + 1]) = framed[j]
      BY <1>1, <1>2, <3>1
    <3> QED
      BY <3>2, <3>3
  <2> QED
    BY <2>2, <2>3
<1>11. v.start = ByteLen(b)
  <2>1. i - 1 = n /\ n \in 0 .. Len(text) /\ n \in 0 .. Len(b)
    BY <1>2, <1>3 DEF n
  <2>2. SubSeq(text, 1, n) = b
    <3>1. 1 \in 1 .. Len(text) + 1 /\ n \in 1 - 1 .. Len(text) /\ n - 1 + 1 = n
      BY <1>2, <1>3
    <3>2. /\ SubSeq(text, 1, n) \in Seq(Char) /\ Len(SubSeq(text, 1, n)) = n
          /\ \A k \in 1 .. n : SubSeq(text, 1, n)[k] = text[1 + k - 1]
      BY <1>2, <3>1, PartProperties
    <3>3. \A k \in 1 .. n : SubSeq(text, 1, n)[k] = b[k]
      <4> TAKE k \in 1 .. n
      <4>1. 1 + k - 1 = k
        OBVIOUS
      <4> QED
        BY <1>2, <3>2, <4>1
    <3> QED
      BY <3>2, <3>3, SeqEqual DEF n
  <2> QED
    BY <1>6, <2>1, <2>2 DEF Offset
<1>12. Offset(text, n + m) = ByteLen(b) + ByteLen(c)
  <2>1. SubSeq(text, 1, n + m) = b \o c
    <3>1. 1 \in 1 .. Len(text) + 1 /\ n + m \in 1 - 1 .. Len(text) /\ (n + m) - 1 + 1 = n + m
      BY <1>2, <1>3
    <3>2. /\ SubSeq(text, 1, n + m) \in Seq(Char) /\ Len(SubSeq(text, 1, n + m)) = n + m
          /\ \A k \in 1 .. n + m : SubSeq(text, 1, n + m)[k] = text[1 + k - 1]
      BY <1>2, <3>1, PartProperties
    <3>3. \A k \in 1 .. n + m : SubSeq(text, 1, n + m)[k] = (b \o c)[k]
      <4> TAKE k \in 1 .. n + m
      <4>1. 1 + k - 1 = k
        OBVIOUS
      <4> QED
        BY <1>4, <3>2, <4>1
    <3> QED
      BY <1>4, <3>2, <3>3, SeqEqual
  <2>2. ByteLen(b \o c) = ByteLen(b) + ByteLen(c)
    BY <1>1, ByteLenConcat
  <2> QED
    BY <2>1, <2>2 DEF Offset
<1>13. ByteLen(b) \in Nat /\ ByteLen(c) \in Nat
  BY <1>1, ByteLenNat
<1>14. Offset(text, n + m) <= Offset(text, last)
  <2>0. Len(text) = n + m + Len(a) /\ last \in i .. Len(text)
    BY <1>2, <1>6
  <2>1. n + m \in 0 .. Len(text) /\ last \in 0 .. Len(text)
    BY <1>3, <2>0
  <2>2. CASE n + m = last
    BY <1>12, <1>13, <2>2
  <2>3. CASE n + m < last
    <3>1. Offset(text, n + m) < Offset(text, last)
      BY <1>2, <2>1, <2>3, OffsetIncreasing
    <3>2. Offset(text, n + m) \in Int /\ Offset(text, last) \in Int
      BY <1>6, <1>12, <1>13
    <3> QED
      BY <3>1, <3>2
  <2> QED
    BY <1>7, <2>1, <2>2, <2>3
<1>15. v.length >= ByteLen(c)
  BY <1>6, <1>11, <1>12, <1>13, <1>14
<1>16. ASSUME a = <<>>
       PROVE  v.length = ByteLen(c)
  <2>1. Len(text) = n + m
    BY <1>2, <1>3, <1>16
  <2>2. last = n + m
    BY <1>3, <1>6, <1>7, <2>1
  <2> QED
    BY <1>6, <1>11, <1>12, <1>13, <2>2
<1> QED
  BY <1>2, <1>5, <1>6, <1>8, <1>11, <1>15, <1>16 DEF CarriedAt, text, c, i, n, v

\* Between b and a, the characters c decode to the payload p, from the byte b ends
\* at; the range goes past c only if something stands behind it.
Carries(b, c, a, p) ==
  LET text == b \o c \o a
      i    == Len(b) + 1
  IN  /\ text \in Seq(Char)
      /\ i \in 1 .. Len(text)
      /\ text[i] = MARKER
      /\ Decodes(VisitAt(text, i).run)
      /\ WrapperAt(text, i).payload = p
      /\ WrapperAt(text, i).start = ByteLen(b)
      /\ WrapperAt(text, i).length \in Nat
      /\ WrapperAt(text, i).length >= ByteLen(c)
      /\ a = <<>> => WrapperAt(text, i).length = ByteLen(c)

\* A carried frame decodes wherever it stands, to the payload it was made of,
\* and its range covers at least the frame.
LEMMA CarrierDecodes ==
  ASSUME NEW b \in Seq(Char), NEW a \in Seq(Char),
         NEW p \in Seq(Byte), NEW pad \in Seq(Byte),
         FitsLength(Len(p)), HEADER_LEN + Len(p) <= USIZE_MAX
  PROVE  Carries(b, Carry(Framed(p, pad)), a, p)
<1> DEFINE framed == Framed(p, pad)
           text   == b \o Carry(framed) \o a
           i      == Len(b) + 1
           v      == VisitAt(text, i)
<1>1. framed \in Seq(Byte) /\ Len(framed) = HEADER_LEN + Len(p) + Len(pad)
  BY FramedElements
<1>2. \A j \in 1 .. HEADER_LEN + Len(p) : framed[j] = Framed(p, <<>>)[j]
  <2>0. <<>> \in Seq(Byte) /\ Len(<<>>) = 0
    OBVIOUS
  <2>1. framed = Framed(p, <<>>) \o pad
    BY FramedProperties
  <2>2. Framed(p, <<>>) \in Seq(Byte) /\ Len(Framed(p, <<>>)) = HEADER_LEN + Len(p) + Len(<<>>)
    BY <2>0, FramedElements
  <2> HIDE DEF framed
  <2>3. \A j \in 1 .. Len(Framed(p, <<>>)) : framed[j] = Framed(p, <<>>)[j]
    BY <2>1, <2>2, JoinProperties
  <2>4. HEADER_LEN + Len(p) + 0 = HEADER_LEN + Len(p)
    BY WidthAssumption, MagicProperties DEF HEADER_LEN
  <2> QED
    BY <2>0, <2>2, <2>3, <2>4
<1> HIDE DEF framed
<1>3. HEADER_LEN \in Nat /\ Len(p) \in Nat /\ Len(pad) \in Nat
  BY WidthAssumption, MagicProperties DEF HEADER_LEN
<1>4. CarriedAt(b, framed, a)
  BY <1>1, CarriedRun
<1>5. /\ text \in Seq(Char) /\ i \in 1 .. Len(text) /\ text[i] = MARKER
      /\ v.run \in Seq(Byte) /\ Len(v.run) >= Len(framed)
      /\ \A j \in 1 .. Len(framed) : v.run[j] = framed[j]
      /\ v.start = ByteLen(b)
      /\ v.length \in Nat /\ v.length >= ByteLen(Carry(framed))
      /\ a = <<>> => v.length = ByteLen(Carry(framed))
  BY <1>4 DEF CarriedAt
<1> HIDE DEF v, text, i
<1>6. Decodes(v.run) /\ SubSeq(v.run, HEADER_LEN + 1, BodyEnd(v.run)) = p
  <2>1. Len(v.run) \in Nat
    BY <1>5
  <2>2. Len(v.run) >= HEADER_LEN + Len(p)
    BY <1>1, <1>3, <1>5, <2>1
  <2>3. \A j \in 1 .. HEADER_LEN + Len(p) : v.run[j] = Framed(p, <<>>)[j]
    <3> TAKE j \in 1 .. HEADER_LEN + Len(p)
    <3>1. j \in 1 .. Len(framed)
      BY <1>1, <1>3
    <3> QED
      BY <1>2, <1>5, <3>1
  <2> QED
    BY <1>5, <2>2, <2>3, FrameDecodes
<1>7. /\ WrapperAt(text, i).payload = SubSeq(v.run, HEADER_LEN + 1, BodyEnd(v.run))
      /\ WrapperAt(text, i).start = v.start
      /\ WrapperAt(text, i).length = v.length
  BY DEF WrapperAt, v
<1> QED
  BY <1>5, <1>6, <1>7 DEF Carries, framed, text, i, v

\* c is what a generator embeds for the manifest p, padded or not.
IsFrame(c, p) ==
  /\ FitsLength(Len(p))
  /\ HEADER_LEN + Len(p) <= USIZE_MAX
  /\ \E pad \in Seq(Byte) : c = Carry(Framed(p, pad))

\* It is a text that begins with the signature.
LEMMA FrameMarked ==
  ASSUME NEW p \in Seq(Byte), NEW c, IsFrame(c, p)
  PROVE  c \in Seq(Char) /\ OccursAt(Signature, c, 1)
BY CarriedSignature DEF IsFrame

\* The manifest of the only candidate in a text is read back as it was embedded,
\* from the byte its marker is stored at; the range goes past the frame only if
\* something stands behind it.
LEMMA SoleFrame ==
  ASSUME NEW b \in Seq(Char), NEW a \in Seq(Char), NEW p \in Seq(Byte),
         NEW c, IsFrame(c, p), ~Occurs(Signature, b), ~Occurs(Signature, a)
  PROVE  LET text == b \o c \o a
             w    == WrapperAt(text, Len(b) + 1)
         IN  /\ text \in Seq(Char)
             /\ Extract(text) = Ok(w)
             /\ LocateAll(text) = {w}
             /\ ~HasCorruptedCandidate(text)
             /\ w.payload = p
             /\ w.start = ByteLen(b)
             /\ w.length \in Nat
             /\ w.length >= ByteLen(c)
             /\ a = <<>> => w.length = ByteLen(c)
<1>1. PICK pad \in Seq(Byte) : c = Carry(Framed(p, pad))
  BY DEF IsFrame
<1>2. FitsLength(Len(p)) /\ HEADER_LEN + Len(p) <= USIZE_MAX
  BY DEF IsFrame
<1> DEFINE text == b \o c \o a
           i    == Len(b) + 1
<1>3. Carries(b, c, a, p)
  BY <1>1, <1>2, CarrierDecodes
<1>4. \A j \in 1 .. Len(text) : OccursAt(Signature, text, j) => j = i
  BY <1>1, <1>2, OneSignatureIn
<1> HIDE DEF text, i
<1>5. /\ text \in Seq(Char)
      /\ i \in 1 .. Len(text) /\ text[i] = MARKER
      /\ Decodes(VisitAt(text, i).run)
  BY <1>3 DEF Carries, text, i
<1>6. /\ Extract(text) = Ok(WrapperAt(text, i))
      /\ LocateAll(text) = {WrapperAt(text, i)}
      /\ ~HasCorruptedCandidate(text)
  BY <1>4, <1>5, OneCandidate
<1> QED
  BY <1>3, <1>6 DEF Carries, text, i

-----------------------------------------------------------------------------
(* A text without one of its wrappers. *)

\* Taking a marker and its run out of a text makes no run: those of what is left
\* are the runs of the other markers.
LEMMA RunsOfRest ==
  ASSUME NEW text \in Seq(Char), NEW i \in 1 .. Len(text), text[i] = MARKER,
         NEW v \in Scan(SubSeq(text, 1, i - 1)
                           \o SubSeq(text, LastOf(text, i) + 1, Len(text)))
  PROVE  \E k \in 1 .. Len(text) :
           k # i /\ text[k] = MARKER /\ VisitAt(text, k).run = v.run
<1> DEFINE n   == LastOf(text, i)
           x   == SubSeq(text, 1, i - 1)
           own == SubSeq(text, i, n)
           z   == SubSeq(text, n + 1, Len(text))
<1>1. n \in i .. Len(text) /\ (n < Len(text) => ~IsVs(text[n + 1]))
  BY VisitAtProperties
<1>2. v \in Scan(x \o z)
  OBVIOUS
<1> HIDE DEF n
<1>3. /\ x \in Seq(Char) /\ own \in Seq(Char) /\ z \in Seq(Char)
      /\ text = x \o own \o z
      /\ Len(own) = (n - i) + 1
      /\ \A k \in 1 .. Len(own) : own[k] = text[i + k - 1]
  BY <1>1, ThreeSlices
<1>4. Len(x) = i - 1
  <2>1. 1 \in 1 .. Len(text) + 1 /\ i - 1 \in 1 - 1 .. Len(text) /\ (i - 1) - 1 + 1 = i - 1
    OBVIOUS
  <2> QED
    BY <2>1, PartProperties
<1>5. /\ Len(z) = Len(text) - n
      /\ \A k \in 1 .. Len(text) - n : z[k] = text[n + k]
  <2>1. n \in 0 .. Len(text)
    BY <1>1
  <2> QED
    BY <2>1, RestProperties
<1> HIDE DEF x, own, z
<1>6. /\ n \in Nat /\ i \in Nat /\ Len(text) \in Nat /\ Len(x) \in Nat /\ Len(z) \in Nat
      /\ 1 <= i /\ i <= n /\ n <= Len(text)
  BY <1>1, <1>3
<1>7. Len(z) > 0 => ~IsVs(z[1])
  <2>1. CASE Len(z) > 0
    <3>1. n < Len(text) /\ 1 \in 1 .. Len(text) - n
      BY <1>5, <1>6, <2>1
    <3> QED
      BY <1>1, <1>5, <3>1
  <2> QED
    BY <2>1
<1>8. own[1] = MARKER /\ Len(own) > 0
  <2>1. Len(own) > 0
    <3>1. Len(own) = (n - i) + 1
      BY <1>3
    <3> QED
      BY <1>6, <3>1
  <2>2. 1 \in 1 .. Len(own) /\ i + 1 - 1 = i
    <3>1. Len(own) \in Nat
      BY <1>3
    <3> QED
      BY <1>6, <2>1, <3>1
  <2>3. own[1] = text[i + 1 - 1]
    BY <1>3, <2>2
  <2>4. own[1] = text[i]
    BY <2>2, <2>3
  <2> QED
    BY <2>1, <2>4
<1>9. /\ x \o z \in Seq(Char) /\ Len(x \o z) = Len(x) + Len(z)
      /\ \A k \in 1 .. Len(x) : (x \o z)[k] = x[k]
      /\ \A k \in 1 .. Len(z) : (x \o z)[Len(x) + k] = z[k]
  BY <1>3, JoinProperties
<1>10. PICK j \in 1 .. Len(x \o z) : (x \o z)[j] = MARKER /\ v = VisitAt(x \o z, j)
  BY <1>2 DEF Scan
<1>11. CASE j <= Len(x)
  <2> DEFINE y == own \o z
  <2>1. y \in Seq(Char) /\ y[1] = MARKER
    <3>1. y \in Seq(Char) /\ \A k \in 1 .. Len(own) : y[k] = own[k]
      BY <1>3, JoinProperties
    <3>2. 1 \in 1 .. Len(own)
      <4>1. Len(own) \in Nat
        BY <1>3
      <4> QED
        BY <1>8, <4>1
    <3> HIDE DEF y
    <3> QED
      BY <1>8, <3>1, <3>2
  <2>2. text = x \o y
    BY <1>3, JoinAssoc
  <2> HIDE DEF y
  <2>3. j \in 1 .. Len(x) /\ x[j] = MARKER
    BY <1>6, <1>9, <1>10, <1>11
  <2>4. ~IsVs(y[1])
    BY <2>1, MarkerProperties
  <2>5. /\ j \in 1 .. Len(x \o y) /\ (x \o y)[j] = MARKER
        /\ VisitAt(x \o y, j).run = VisitAt(x, j).run
    BY <1>3, <2>1, <2>3, <2>4, RunInFront
  <2>6. VisitAt(x \o z, j).run = VisitAt(x, j).run
    BY <1>3, <1>7, <2>3, RunInFront
  <2>7. j # i
    BY <1>4, <1>6, <1>11
  <2>8. /\ j \in 1 .. Len(text) /\ text[j] = MARKER
        /\ VisitAt(text, j).run = v.run
    BY <1>10, <2>2, <2>5, <2>6
  <2> QED
    BY <2>7, <2>8
<1>12. CASE j > Len(x)
  <2> DEFINE y == x \o own
             k == j - Len(x)
  <2>1. y \in Seq(Char) /\ Len(y) = Len(x) + Len(own) /\ text = y \o z
    BY <1>3, JoinProperties
  <2>2. k \in 1 .. Len(z) /\ j = Len(x) + k
    BY <1>6, <1>9, <1>10, <1>12
  <2> HIDE DEF y, k
  <2>3. z[k] = MARKER
    BY <1>9, <1>10, <2>2
  <2>4. /\ Len(y) + k \in 1 .. Len(y \o z) /\ (y \o z)[Len(y) + k] = MARKER
        /\ VisitAt(y \o z, Len(y) + k).run = VisitAt(z, k).run
    BY <1>3, <2>1, <2>2, <2>3, RunBehind
  <2>5. VisitAt(x \o z, Len(x) + k).run = VisitAt(z, k).run
    BY <1>3, <2>2, <2>3, RunBehind
  <2>6. Len(y) + k # i
    <3>1. Len(own) \in Nat /\ k \in Nat /\ k >= 1
      BY <1>3, <1>6, <2>2
    <3> QED
      BY <1>3, <1>4, <1>6, <2>1, <3>1
  <2>7. /\ Len(y) + k \in 1 .. Len(text) /\ text[Len(y) + k] = MARKER
        /\ VisitAt(text, Len(y) + k).run = v.run
    BY <1>10, <2>1, <2>2, <2>4, <2>5
  <2> QED
    BY <2>6, <2>7
<1> QED
  BY <1>6, <1>10, <1>11, <1>12

\* The text without the range of w.
Without(text, w) == Strip(text, w.start, w.start + w.length).ok

\* A located wrapper is that of one marker, and without it the text is what
\* stands in front of the marker and what stands behind the run.
LEMMA WithoutParts ==
  ASSUME NEW text \in Seq(Char), NEW w \in LocateAll(text)
  PROVE  \E i \in 1 .. Len(text), n \in 1 .. Len(text) :
           /\ i <= n
           /\ text[i] = MARKER
           /\ \A j \in i + 1 .. n : IsVs(text[j])
           /\ n < Len(text) => ~IsVs(text[n + 1])
           /\ Decodes(VisitAt(text, i).run)
           /\ w = WrapperAt(text, i)
           /\ Without(text, w) = SubSeq(text, 1, i - 1) \o SubSeq(text, n + 1, Len(text))
<1>1. PICK i \in 1 .. Len(text), n \in 1 .. Len(text) :
        /\ i <= n
        /\ text[i] = MARKER
        /\ \A j \in i + 1 .. n : IsVs(text[j])
        /\ n < Len(text) => ~IsVs(text[n + 1])
        /\ w.start = Offset(text, i - 1)
        /\ Strip(text, w.start, w.start + w.length)
             = Ok(SubSeq(text, 1, i - 1) \o SubSeq(text, n + 1, Len(text)))
  BY StripRemovesWrapper
<1>2. PICK k \in 1 .. Len(text) :
        text[k] = MARKER /\ Decodes(VisitAt(text, k).run) /\ w = WrapperAt(text, k)
  BY LocatedAt
<1>3. w.start = Offset(text, k - 1)
  BY <1>2 DEF WrapperAt, VisitAt
<1>4. k - 1 \in 0 .. Len(text) /\ i - 1 \in 0 .. Len(text)
  OBVIOUS
<1>5. k - 1 = i - 1
  BY <1>1, <1>3, <1>4, OffsetInjective
<1>6. k = i
  BY <1>5
<1>7. Without(text, w) = SubSeq(text, 1, i - 1) \o SubSeq(text, n + 1, Len(text))
  <2> DEFINE rest == SubSeq(text, 1, i - 1) \o SubSeq(text, n + 1, Len(text))
  <2>1. Strip(text, w.start, w.start + w.length) = Ok(rest)
    BY <1>1
  <2> HIDE DEF rest
  <2>2. Without(text, w) = rest
    BY <2>1 DEF Without, Ok
  <2> QED
    BY <2>2 DEF rest
<1> QED
  BY <1>1, <1>2, <1>6, <1>7

\* The text without a located wrapper is a text.
LEMMA WithoutTyped ==
  ASSUME NEW text \in Seq(Char), NEW w \in LocateAll(text)
  PROVE  /\ Strip(text, w.start, w.start + w.length) = Ok(Without(text, w))
         /\ Without(text, w) \in Seq(Char)
<1>1. \E rest : Strip(text, w.start, w.start + w.length) = Ok(rest)
  BY StripRemovesWrapper
<1>2. Strip(text, w.start, w.start + w.length) = Ok(Without(text, w))
  BY <1>1 DEF Without, Ok
<1>3. IsOk(Strip(text, w.start, w.start + w.length))
  BY <1>2 DEF Ok, IsOk
<1> QED
  BY <1>2, <1>3, StripTyped DEF Without

\* A wrapper that takes up the end of a text leaves what stood in front of it.
LEMMA WithoutLast ==
  ASSUME NEW b \in Seq(Char), NEW c \in Seq(Char), NEW w \in LocateAll(b \o c),
         w.start = ByteLen(b), w.length = ByteLen(c)
  PROVE  Without(b \o c, w) = b
<1> DEFINE text == b \o c
           n    == Len(b)
<1>1. /\ text \in Seq(Char) /\ Len(text) = Len(b) + Len(c)
      /\ \A k \in 1 .. Len(b) : text[k] = b[k]
  BY JoinProperties
<1>2. ByteLen(text) = ByteLen(b) + ByteLen(c)
  BY ByteLenConcat
<1>3. w \in LocateAll(text)
  OBVIOUS
<1> HIDE DEF text
<1>4. n \in 0 .. Len(text) /\ Len(text) \in 0 .. Len(text) /\ 0 \in 0 .. Len(text)
  BY <1>1
<1>5. SubSeq(text, 1, n) = b
  <2>1. 1 \in 1 .. Len(text) + 1 /\ n \in 1 - 1 .. Len(text) /\ n - 1 + 1 = n
    BY <1>1
  <2>2. /\ SubSeq(text, 1, n) \in Seq(Char) /\ Len(SubSeq(text, 1, n)) = n
        /\ \A k \in 1 .. n : SubSeq(text, 1, n)[k] = text[1 + k - 1]
    BY <1>1, <2>1, PartProperties
  <2>3. \A k \in 1 .. n : SubSeq(text, 1, n)[k] = b[k]
    <3> TAKE k \in 1 .. n
    <3>1. 1 + k - 1 = k
      OBVIOUS
    <3> QED
      BY <1>1, <2>2, <3>1
  <2> QED
    BY <2>2, <2>3, SeqEqual
<1>6. Offset(text, n) = ByteLen(b) /\ Offset(text, Len(text)) = ByteLen(text) /\ Offset(text, 0) = 0
  BY <1>1, <1>5, OffsetEnds DEF Offset
<1>7. Slice(text, 0, ByteLen(b)) = b
  <2>1. Slice(text, Offset(text, 0), Offset(text, n)) = SubSeq(text, 0 + 1, n)
    BY <1>1, <1>4, SliceAtOffsets
  <2> QED
    BY <1>5, <1>6, <2>1
<1>8. Slice(text, ByteLen(text), ByteLen(text)) = <<>>
  <2>1. Slice(text, Offset(text, Len(text)), Offset(text, Len(text)))
          = SubSeq(text, Len(text) + 1, Len(text))
    BY <1>1, <1>4, SliceAtOffsets
  <2>2. SubSeq(text, Len(text) + 1, Len(text)) = <<>>
    BY <1>1
  <2> QED
    BY <1>6, <2>1, <2>2
<1>9. w.start + w.length = ByteLen(text)
  BY <1>2
<1>10. Strip(text, w.start, w.start + w.length) = Ok(Without(text, w))
  BY <1>1, <1>3, WithoutTyped
<1>11. Strip(text, w.start, w.start + w.length) = Ok(b \o <<>>)
  <2>1. \/ Strip(text, w.start, w.start + w.length) = Err("MalformedExclusion")
        \/ Strip(text, w.start, w.start + w.length)
             = Ok(Slice(text, 0, ByteLen(b)) \o Slice(text, ByteLen(text), ByteLen(text)))
    BY <1>9 DEF Strip
  <2>2. Err("MalformedExclusion") # Ok(Without(text, w))
    BY OkOrErr
  <2> QED
    BY <1>7, <1>8, <1>10, <2>1, <2>2
<1>12. Without(text, w) = b \o <<>>
  BY <1>10, <1>11, OkOrErr
<1>13. b \o <<>> = b
  OBVIOUS
<1> QED
  BY <1>12, <1>13 DEF text

\* Two located wrappers of one range are the same.
LEMMA RangeDetermines ==
  ASSUME NEW text \in Seq(Char), NEW v \in LocateAll(text), NEW w \in LocateAll(text),
         v.start = w.start
  PROVE  v = w
<1>1. PICK i \in 1 .. Len(text) :
        text[i] = MARKER /\ Decodes(VisitAt(text, i).run) /\ v = WrapperAt(text, i)
  BY LocatedAt
<1>2. PICK k \in 1 .. Len(text) :
        text[k] = MARKER /\ Decodes(VisitAt(text, k).run) /\ w = WrapperAt(text, k)
  BY LocatedAt
<1>3. v.start = Offset(text, i - 1) /\ w.start = Offset(text, k - 1)
  BY <1>1, <1>2 DEF WrapperAt, VisitAt
<1>4. k - 1 \in 0 .. Len(text) /\ i - 1 \in 0 .. Len(text)
  OBVIOUS
<1>5. k - 1 = i - 1
  BY <1>3, <1>4, OffsetInjective
<1>6. k = i
  BY <1>5
<1> QED
  BY <1>1, <1>2, <1>6

\* If no signature is left once a located wrapper is taken out, it was the only
\* one: no signature crosses the place where the wrapper stood, because it would
\* have to run through the marker.
LEMMA OnlySignature ==
  ASSUME NEW text \in Seq(Char), NEW w \in LocateAll(text),
         ~Occurs(Signature, Without(text, w))
  PROVE  Extract(text) = Ok(w) /\ LocateAll(text) = {w} /\ ~HasCorruptedCandidate(text)
<1>1. PICK i \in 1 .. Len(text), n \in 1 .. Len(text) :
        /\ i <= n
        /\ text[i] = MARKER
        /\ \A j \in i + 1 .. n : IsVs(text[j])
        /\ Decodes(VisitAt(text, i).run)
        /\ w = WrapperAt(text, i)
        /\ Without(text, w) = SubSeq(text, 1, i - 1) \o SubSeq(text, n + 1, Len(text))
  BY WithoutParts
<1> DEFINE a    == SubSeq(text, 1, i - 1)
           b    == SubSeq(text, n + 1, Len(text))
           rest == a \o b
<1>2. /\ a \in Seq(Char) /\ Len(a) = i - 1
      /\ \A k \in 1 .. i - 1 : a[k] = text[k]
  <2>1. 1 \in 1 .. Len(text) + 1 /\ i - 1 \in 1 - 1 .. Len(text) /\ (i - 1) - 1 + 1 = i - 1
    OBVIOUS
  <2>2. \A k \in 1 .. i - 1 : 1 + k - 1 = k
    OBVIOUS
  <2> QED
    BY <2>1, <2>2, PartProperties
<1>3. /\ b \in Seq(Char) /\ Len(b) = Len(text) - n
      /\ \A k \in 1 .. Len(text) - n : b[k] = text[n + k]
  <2>1. n \in 0 .. Len(text)
    OBVIOUS
  <2> QED
    BY <2>1, RestProperties
<1>4. ~Occurs(Signature, rest)
  BY <1>1
<1> HIDE DEF a, b
<1>5. /\ rest \in Seq(Char)
      /\ Len(rest) = Len(a) + Len(b)
      /\ \A k \in 1 .. Len(a) : rest[k] = a[k]
      /\ \A k \in 1 .. Len(b) : rest[Len(a) + k] = b[k]
  BY <1>2, <1>3, ConcatTexts
<1> HIDE DEF rest
<1>6. i \in Nat /\ n \in Nat /\ Len(text) \in Nat /\ 1 <= i /\ n <= Len(text) /\ i <= n
  BY <1>1
<1>7. Len(rest) = (i - 1) + (Len(text) - n) /\ Len(rest) \in Nat
  BY <1>2, <1>3, <1>5
<1>8. ASSUME NEW j \in 1 .. Len(text), OccursAt(Signature, text, j)
      PROVE  j = i
  <2>1. /\ j + 8 <= Len(text)
        /\ text[j] = MARKER
        /\ \A k \in 1 .. 8 : text[j + k] = ByteToVs(MAGIC[k])
    BY <1>8, SignatureAt
  <2>2. \A k \in 1 .. 8 : IsVs(text[j + k])
    <3> TAKE k \in 1 .. 8
    <3>1. MAGIC[k] \in Byte
      BY MagicProperties, ElementOfSeq
    <3> QED
      BY <2>1, <3>1, ByteRoundTrip
  <2>nat. j \in Nat /\ 1 <= j /\ j + 8 <= Len(text)
    <3>1. j + 8 <= Len(text)
      BY <2>1
    <3> QED
      BY <1>6, <3>1
  <2>3. CASE j + 8 <= i - 1
    <3>1. j \in 1 .. Len(rest) /\ j + 8 <= Len(rest)
      BY <1>6, <1>7, <2>nat, <2>3
    <3>2. \A k \in 1 .. i - 1 : rest[k] = text[k]
      BY <1>2, <1>5
    <3>3. rest[j] = MARKER
      <4>1. j \in 1 .. i - 1
        BY <2>nat, <2>3
      <4> QED
        BY <2>1, <3>2, <4>1
    <3>4. \A k \in 1 .. 8 : rest[j + k] = ByteToVs(MAGIC[k])
      <4> TAKE k \in 1 .. 8
      <4>1. j + k \in 1 .. i - 1
        BY <2>nat, <2>3
      <4> QED
        BY <2>1, <3>2, <4>1
    <3>5. OccursAt(Signature, rest, j)
      BY <1>5, <3>1, <3>3, <3>4, SignatureAt
    <3> QED
      BY <1>4, <3>1, <3>5 DEF Occurs
  <2>4. CASE j < i /\ i - 1 < j + 8
    <3>1. i - j \in 1 .. 8 /\ j + (i - j) = i
      BY <1>6, <2>nat, <2>4
    <3>2. IsVs(text[j + (i - j)])
      BY <2>2, <3>1
    <3> QED
      BY <1>1, <3>1, <3>2, MarkerProperties
  <2>5. CASE i < j /\ j <= n
    <3>1. j \in i + 1 .. n
      BY <1>6, <2>nat, <2>5
    <3> QED
      BY <1>1, <2>1, <3>1, MarkerProperties
  <2>6. CASE n < j
    <3> DEFINE h == (i - 1) + (j - n)
    <3>1. h \in 1 .. Len(rest) /\ h + 8 <= Len(rest)
      BY <1>6, <1>7, <2>nat, <2>6
    <3>2. ASSUME NEW k \in 0 .. 8
          PROVE  rest[h + k] = text[j + k]
      <4>1. /\ (j - n) + k \in 1 .. Len(text) - n
            /\ n + ((j - n) + k) = j + k
            /\ (i - 1) + ((j - n) + k) = h + k
        BY <1>6, <2>nat, <2>6
      <4> HIDE DEF h
      <4>2. b[(j - n) + k] = text[n + ((j - n) + k)]
        BY <1>3, <4>1
      <4>3. rest[(i - 1) + ((j - n) + k)] = b[(j - n) + k]
        BY <1>2, <1>3, <1>5, <4>1
      <4> QED
        BY <4>1, <4>2, <4>3
    <3> HIDE DEF h
    <3>3. rest[h] = MARKER
      <4>1. h + 0 = h /\ j + 0 = j /\ 0 \in 0 .. 8
        BY <2>nat, <3>1
      <4> QED
        BY <2>1, <3>2, <4>1
    <3>4. \A k \in 1 .. 8 : rest[h + k] = ByteToVs(MAGIC[k])
      <4> TAKE k \in 1 .. 8
      <4>1. k \in 0 .. 8
        OBVIOUS
      <4> QED
        BY <2>1, <3>2, <4>1
    <3>5. OccursAt(Signature, rest, h)
      BY <1>5, <3>1, <3>3, <3>4, SignatureAt
    <3> QED
      BY <1>4, <3>1, <3>5 DEF Occurs
  <2> QED
    BY <1>6, <2>nat, <2>3, <2>4, <2>5, <2>6
<1> QED
  BY <1>1, <1>8, OneCandidate

-----------------------------------------------------------------------------
(* A frame at the end of a text *)

\* At the end of a text without a signature, a frame is the only wrapper; its
\* range ends with the text, and without it the text is what it was.
LEMMA TrailingFrame ==
  ASSUME NEW b \in Seq(Char), NEW p \in Seq(Byte), NEW c, IsFrame(c, p),
         ~Occurs(Signature, b)
  PROVE  \E w : /\ Extract(b \o c) = Ok(w)
                /\ LocateAll(b \o c) = {w}
                /\ ~HasCorruptedCandidate(b \o c)
                /\ w.start = ByteLen(b)
                /\ w.length = ByteLen(c)
                /\ Without(b \o c, w) = b
<1> DEFINE none == <<>>
           w    == WrapperAt(b \o c \o none, Len(b) + 1)
<1>1. c \in Seq(Char) /\ none \in Seq(Char)
  BY FrameMarked
<1>2. ~Occurs(Signature, none)
  BY DEF Occurs
<1>3. none = <<>>
  OBVIOUS
<1> HIDE DEF none, w
<1>4. /\ Extract(b \o c \o none) = Ok(w)
      /\ LocateAll(b \o c \o none) = {w}
      /\ ~HasCorruptedCandidate(b \o c \o none)
      /\ w.start = ByteLen(b)
      /\ none = <<>> => w.length = ByteLen(c)
  BY <1>1, <1>2, SoleFrame DEF w
<1>5. b \o c \o none = b \o c
  <2> DEFINE t == b \o c
  <2>1. t \in Seq(Char)
    BY <1>1
  <2> HIDE DEF t
  <2>2. t \o none = t
    BY <2>1 DEF none
  <2> QED
    BY <2>2 DEF t
<1>6. /\ Extract(b \o c) = Ok(w)
      /\ LocateAll(b \o c) = {w}
      /\ ~HasCorruptedCandidate(b \o c)
  BY <1>4, <1>5
<1>7. Without(b \o c, w) = b
  BY <1>1, <1>3, <1>4, <1>6, WithoutLast
<1> QED
  BY <1>3, <1>4, <1>6, <1>7

\* If extract reads the frame at the end of a text, no other stands before it.
LEMMA FrameAlone ==
  ASSUME NEW b \in Seq(Char), NEW p \in Seq(Byte), NEW c, IsFrame(c, p),
         IsOk(Extract(b \o c))
  PROVE  ~Occurs(Signature, b)
<1> DEFINE text == b \o c
           n    == Len(b)
<1>1. c \in Seq(Char) /\ OccursAt(Signature, c, 1)
  BY FrameMarked
<1>2. /\ text \in Seq(Char) /\ Len(text) = n + Len(c)
      /\ \A k \in 1 .. n : text[k] = b[k]
      /\ \A k \in 1 .. Len(c) : text[n + k] = c[k]
  BY <1>1, JoinProperties
<1>3. n \in Nat /\ Len(c) \in Nat /\ IsOk(Extract(text))
  BY <1>1
<1> HIDE DEF text, n
<1>4. 9 <= Len(c) /\ c[1] = MARKER /\ \A j \in 1 .. 8 : c[1 + j] = ByteToVs(MAGIC[j])
  <2>1. 1 + Len(Signature) - 1 <= Len(c)
    BY <1>1 DEF OccursAt
  <2>2. 1 \in 1 .. Len(c)
    BY <1>3, <2>1, SignatureProperties
  <2> QED
    BY <1>1, <1>3, <2>2, SignatureAt
<1>5. n + 1 \in 1 .. Len(text) /\ OccursAt(Signature, text, n + 1)
  <2>1. n + 1 \in 1 .. Len(text) /\ (n + 1) + 8 <= Len(text)
    BY <1>2, <1>3, <1>4
  <2>2. text[n + 1] = MARKER
    <3>1. 1 \in 1 .. Len(c)
      BY <1>3, <1>4
    <3> QED
      BY <1>2, <1>4, <3>1
  <2>3. \A j \in 1 .. 8 : text[(n + 1) + j] = ByteToVs(MAGIC[j])
    <3> TAKE j \in 1 .. 8
    <3>1. 1 + j \in 1 .. Len(c) /\ n + (1 + j) = (n + 1) + j
      BY <1>3, <1>4
    <3>2. text[n + (1 + j)] = c[1 + j]
      BY <1>2, <3>1
    <3> QED
      BY <1>4, <3>1, <3>2
  <2> QED
    BY <1>2, <2>1, <2>2, <2>3, SignatureAt
<1>6. PICK i \in 1 .. Len(text) : Extract(text).ok.start = Offset(text, i - 1)
  <2>1. Extract(text).ok \in LocateAll(text)
    BY <1>3, ExtractedIsLocated
  <2> QED
    BY <1>2, <2>1, LocatedProperties
<1>7. n + 1 = i
  BY <1>2, <1>3, <1>5, <1>6, OneSignature
<1>8. ASSUME NEW j \in 1 .. n, OccursAt(Signature, b, j)
      PROVE  FALSE
  <2>1. j + 8 <= n /\ b[j] = MARKER /\ \A k \in 1 .. 8 : b[j + k] = ByteToVs(MAGIC[k])
    BY <1>8, SignatureAt DEF n
  <2>2. j \in 1 .. Len(text) /\ j + 8 <= Len(text)
    BY <1>2, <1>3, <2>1
  <2>3. text[j] = MARKER
    BY <1>2, <2>1
  <2>4. \A k \in 1 .. 8 : text[j + k] = ByteToVs(MAGIC[k])
    <3> TAKE k \in 1 .. 8
    <3>1. j + k \in 1 .. n
      <4>1. n \in Nat /\ j + 8 <= n
        BY <1>3, <2>1
      <4> QED
        BY <4>1
    <3> QED
      BY <1>2, <2>1, <3>1
  <2>5. OccursAt(Signature, text, j)
    BY <1>2, <2>2, <2>3, <2>4, SignatureAt
  <2>6. j = i
    BY <1>2, <1>3, <1>6, <2>2, <2>5, OneSignature
  <2> QED
    BY <1>3, <1>7, <2>6
<1> QED
  BY <1>8 DEF Occurs, n
=============================================================================
