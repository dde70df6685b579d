---------------------------- MODULE AssetProofs ----------------------------
(***************************************************************************)
(* What holds of an asset for every host, manifest, edit, digest and       *)
(* normaliser, however long the behaviour: first while every generator     *)
(* writes version 1 frames (module Asset), then while both frames are      *)
(* written into the same text (module AssetV2).                            *)
(*                                                                         *)
(* Beside the assumptions of the modules, the theorems take a Normalizer   *)
(* to turn a text into a text, as its signature in src/hardbinding.rs says *)
(* (fn nfc(&self, text: &str) -> String).  Those about the hard binding    *)
(* also take it to do what NFC does to markers and selectors, and speak of *)
(* the behaviours in which nobody comes across two texts of one digest.    *)
(* These are hypotheses of the theorems because they range over every      *)
(* text: TLC evaluates them on the sample of module MCAsset.               *)
(*                                                                         *)
(* Of version 2 frames the theorems take a Hasher to return at least the   *)
(* four bytes the checksum is made of.  That of a build whose usize is     *)
(* wide enough says so.                                                    *)
(***************************************************************************)
EXTENDS AssetV2, HardBindingProofs

NormalizerTotal == \A s \in Seq(Char) : Nfc(s) \in Seq(Char)

-----------------------------------------------------------------------------
(* Sequences *)

\* Two sequences over a set make one.
LEMMA ConcatTyped ==
  ASSUME NEW S, NEW s \in Seq(S), NEW t \in Seq(S)
  PROVE  s \o t \in Seq(S)
OBVIOUS

\* Nothing behind a text leaves it as it is.
LEMMA AtEnd ==
  ASSUME NEW S, NEW s \in Seq(S), NEW t \in Seq(S)
  PROVE  s \o t \o <<>> = s \o t /\ s \o t \in Seq(S)
<1> DEFINE u == s \o t
<1>1. u \in Seq(S)
  OBVIOUS
<1> HIDE DEF u
<1>2. u \o <<>> = u
  BY <1>1
<1> QED
  BY <1>1, <1>2 DEF u

\* What lies behind the first part of a concatenation is the second.
LEMMA SuffixOfConcat ==
  ASSUME NEW S, NEW s \in Seq(S), NEW t \in Seq(S)
  PROVE  SubSeq(s \o t, Len(s) + 1, Len(s \o t)) = t
<1> DEFINE u == s \o t
<1>1. /\ u \in Seq(S)
      /\ Len(u) = Len(s) + Len(t)
      /\ \A i \in 1 .. Len(t) : u[Len(s) + i] = t[i]
  OBVIOUS
<1> HIDE DEF u
<1>2. Len(s) \in 0 .. Len(u)
  BY <1>1
<1>3. /\ SubSeq(u, Len(s) + 1, Len(u)) \in Seq(S)
      /\ Len(SubSeq(u, Len(s) + 1, Len(u))) = Len(u) - Len(s)
      /\ \A k \in 1 .. Len(u) - Len(s) :
           SubSeq(u, Len(s) + 1, Len(u))[k] = u[Len(s) + k]
  BY <1>1, <1>2, RestProperties
<1>4. Len(u) - Len(s) = Len(t)
  BY <1>1
<1>5. SubSeq(u, Len(s) + 1, Len(u)) = t
  BY <1>1, <1>3, <1>4, SeqEqual
<1> QED
  BY <1>5 DEF u

\* What lies in front of the second part is the first.
LEMMA FrontOfConcat ==
  ASSUME NEW S, NEW s \in Seq(S), NEW t \in Seq(S)
  PROVE  SubSeq(s \o t, 1, Len(s)) = s
<1> DEFINE u == s \o t
<1>1. /\ u \in Seq(S)
      /\ Len(u) = Len(s) + Len(t)
      /\ \A k \in 1 .. Len(s) : u[k] = s[k]
  BY JoinProperties
<1> HIDE DEF u
<1>2. /\ 1 \in 1 .. Len(u) + 1 /\ Len(s) \in 1 - 1 .. Len(u) /\ Len(s) - 1 + 1 = Len(s)
      /\ Len(s) \in Nat
  BY <1>1
<1>3. /\ SubSeq(u, 1, Len(s)) \in Seq(S)
      /\ Len(SubSeq(u, 1, Len(s))) = Len(s)
      /\ \A k \in 1 .. Len(s) : SubSeq(u, 1, Len(s))[k] = u[1 + k - 1]
  BY <1>1, <1>2, PartProperties
<1>4. \A k \in 1 .. Len(s) : SubSeq(u, 1, Len(s))[k] = s[k]
  <2> TAKE k \in 1 .. Len(s)
  <2>1. 1 + k - 1 = k
    BY <1>2
  <2> QED
    BY <1>1, <1>3, <2>1
<1>5. SubSeq(u, 1, Len(s)) = s
  BY <1>3, <1>4, SeqEqual
<1> QED
  BY <1>5 DEF u

\* An edit of a text leaves a text.
LEMMA SpliceTyped ==
  ASSUME NEW s \in Seq(Char), NEW i \in 1 .. Len(s) + 1, NEW n \in 0 .. 1,
         i + n <= Len(s) + 1, NEW new \in Seq(Char)
  PROVE  Splice(s, i, n, new) \in Seq(Char)
<1>1. SubSeq(s, 1, i - 1) \in Seq(Char)
  <2>1. 1 \in 1 .. Len(s) + 1 /\ i - 1 \in 1 - 1 .. Len(s)
    OBVIOUS
  <2> QED
    BY <2>1, PartProperties
<1>2. SubSeq(s, i + n, Len(s)) \in Seq(Char)
  <2>1. i + n \in 1 .. Len(s) + 1 /\ Len(s) \in (i + n) - 1 .. Len(s)
    OBVIOUS
  <2> QED
    BY <2>1, PartProperties
<1> QED
  BY <1>1, <1>2 DEF Splice

-----------------------------------------------------------------------------
(* Operations *)

\* embed appends one carried frame and changes nothing else of the text.
LEMMA EmbedAppends ==
  ASSUME NEW text \in Seq(Char), NEW p \in Seq(Byte), IsOk(Embed(text, p))
  PROVE  /\ Embed(text, p).ok = text \o Carry(Framed(p, <<>>))
         /\ SubSeq(Embed(text, p).ok, Len(text) + 1, Len(Embed(text, p).ok))
              = Carry(Framed(p, <<>>))
<1>1. IsOk(Encode(p))
  BY DEF Embed
<1>2. Embed(text, p).ok = text \o Carry(Framed(p, <<>>))
  BY <1>1, EncodeOk DEF Embed, Ok
<1>3. <<>> \in Seq(Byte)
  OBVIOUS
<1>4. Carry(Framed(p, <<>>)) \in Seq(Char)
  BY <1>3, CarriedSignature
<1> QED
  BY <1>2, <1>4, SuffixOfConcat

\* What embed and encode_padded produce for a manifest that fits in memory.
LEMMA EmbeddedFrame ==
  ASSUME NEW p \in Payloads
  PROVE  /\ IsOk(Encode(p)) => IsFrame(Carry(Framed(p, <<>>)), p)
         /\ IsOk(EncodePadded(p)) => /\ IsFrame(EncodePadded(p).ok, p)
                                     /\ FitsLength(Len(p))
                                     /\ TargetLength(Len(p)) <= USIZE_MAX
<1>1. p \in Seq(Byte) /\ HEADER_LEN + Len(p) <= USIZE_MAX /\ <<>> \in Seq(Byte)
  BY AssetAssumption
<1>2. IsOk(Encode(p)) => FitsLength(Len(p))
  BY OkOrErr DEF Encode, EncodeWithPadding
<1>3. IsOk(EncodePadded(p)) => IsOk(Encode(p))
  BY PanicIsNoResult DEF EncodePadded
<1>4. IsOk(EncodePadded(p)) =>
        /\ \E pad \in Seq(Byte) : EncodePadded(p).ok = Carry(Framed(p, pad))
        /\ TargetLength(Len(p)) <= USIZE_MAX
  BY <1>1, EncodePaddedOk
<1> QED
  BY <1>1, <1>2, <1>3, <1>4 DEF IsFrame

\* A located wrapper ends in the text.
LEMMA WrapperInText ==
  ASSUME NEW text \in Seq(Char), NEW w \in LocateAll(text)
  PROVE  w.start + w.length \in Nat /\ w.start + w.length <= ByteLen(text)
<1>1. PICK n \in 0 .. Len(text) : w.start + w.length = Offset(text, n)
  BY LocatedProperties
<1>2. n = Len(text) \/ Offset(text, n) < Offset(text, Len(text))
  BY OffsetIncreasing
<1>3. w.start + w.length \in Nat /\ ByteLen(text) \in Nat
  BY LocatedProperties, ByteLenNat
<1>4. Offset(text, Len(text)) = ByteLen(text)
  BY OffsetEnds
<1> QED
  BY <1>1, <1>2, <1>3, <1>4

\* The range of a located wrapper consists of byte offsets.
LEMMA RangeTyped ==
  ASSUME NEW text \in Seq(Char), NEW w \in LocateAll(text)
  PROVE  RangeOf(w) \in [start : Nat, length : Nat]
BY LocatedProperties DEF RangeOf

-----------------------------------------------------------------------------
(* What a reader sees *)

\* One character more is seen or not.
LEMMA SeenDef ==
  ASSUME NEW s \in Seq(Char)
  PROVE  /\ Seen(s)[0] = <<>>
         /\ \A i \in 1 .. Len(s) :
              Seen(s)[i] = IF Visible(s[i]) THEN Append(Seen(s)[i - 1], s[i])
                                            ELSE Seen(s)[i - 1]
         /\ \A i \in 0 .. Len(s) : Seen(s)[i] \in Seq(Char)
<1> DEFINE Is(f) == f = [i \in 0 .. Len(s) |->
                           IF i = 0 THEN <<>>
                           ELSE IF Visible(s[i]) THEN Append(f[i - 1], s[i]) ELSE f[i - 1]]
           g == [i \in 1 .. Len(s) |-> [x \in Seq(Char) |->
                   IF Visible(s[i]) THEN Append(x, s[i]) ELSE x]]
<1>1. Len(s) \in Nat /\ \A i \in 1 .. Len(s) : s[i] \in Char
  BY ElementOfSeq
<1>2. g \in [1 .. Len(s) -> [Seq(Char) -> Seq(Char)]]
  <2>1. \A x \in Seq(Char), c \in Char : Append(x, c) \in Seq(Char)
    OBVIOUS
  <2> QED
    BY <1>1, <2>1
<1>3. PICK f \in [0 .. Len(s) -> Seq(Char)] : Stepwise(f, Len(s), <<>>, g)
  <2>1. <<>> \in Seq(Char) /\ Len(s) \in Nat
    BY <1>1
  <2> HIDE DEF g, Is
  <2> QED
    BY <1>2, <2>1, StepwiseFunction
<1>4. \A i \in 1 .. Len(s) :
        f[i] = IF Visible(s[i]) THEN Append(f[i - 1], s[i]) ELSE f[i - 1]
  <2> TAKE i \in 1 .. Len(s)
  <2>1. f[i - 1] \in Seq(Char)
    BY <1>1
  <2> QED
    BY <1>3, <2>1 DEF Stepwise
<1>5. Is(f)
  <2>1. f[0] = <<>> /\ f \in [0 .. Len(s) -> Seq(Char)]
    BY <1>3 DEF Stepwise
  <2>2. ASSUME NEW i \in 0 .. Len(s)
        PROVE  f[i] = IF i = 0 THEN <<>>
                      ELSE IF Visible(s[i]) THEN Append(f[i - 1], s[i]) ELSE f[i - 1]
    <3>1. CASE i = 0
      BY <2>1, <3>1
    <3>2. CASE i # 0
      <4>1. i \in 1 .. Len(s)
        BY <1>1, <3>2
      <4> QED
        BY <1>4, <3>2, <4>1
    <3> QED
      BY <3>1, <3>2
  <2> QED
    BY <2>1, <2>2
<1>6. Is(Seen(s))
  <2>1. \E h : Is(h)
    BY <1>5
  <2> QED
    BY <2>1 DEF Seen
<1>7. \A i \in 0 .. Len(s) :
        Seen(s)[i] = IF i = 0 THEN <<>>
                     ELSE IF Visible(s[i]) THEN Append(Seen(s)[i - 1], s[i])
                     ELSE Seen(s)[i - 1]
  BY <1>6
<1> DEFINE D == {n \in Nat : n <= Len(s) => Seen(s)[n] \in Seq(Char)}
<1>8. 0 \in D
  <2>1. 0 \in 0 .. Len(s)
    BY <1>1
  <2>2. Seen(s)[0] = <<>>
    BY <1>7, <2>1
  <2>3. <<>> \in Seq(Char) /\ 0 \in Nat
    OBVIOUS
  <2>4. Seen(s)[0] \in Seq(Char)
    BY <2>2, <2>3
  <2> QED
    BY <2>3, <2>4
<1>9. ASSUME NEW n \in D
      PROVE  n + 1 \in D
  <2>1. CASE n + 1 <= Len(s)
    <3>1. n + 1 \in 0 .. Len(s) /\ n + 1 # 0 /\ (n + 1) - 1 = n
      BY <1>1, <2>1
    <3>2. Seen(s)[n] \in Seq(Char) /\ s[n + 1] \in Char
      BY <1>1, <2>1
    <3> DEFINE longer == Append(Seen(s)[n], s[n + 1])
    <3>3. Seen(s)[n + 1] = longer \/ Seen(s)[n + 1] = Seen(s)[n]
      BY <1>7, <3>1
    <3>4. longer \in Seq(Char)
      BY <3>2
    <3> HIDE DEF longer
    <3> QED
      BY <3>2, <3>3, <3>4
  <2> QED
    BY <2>1
<1>10. D = Nat
  <2> HIDE DEF D
  <2> QED
    BY <1>8, <1>9, NatSetInduction DEF D
<1>11. \A i \in 0 .. Len(s) : Seen(s)[i] \in Seq(Char)
  <2> TAKE i \in 0 .. Len(s)
  <2>1. i \in D /\ i <= Len(s)
    BY <1>1, <1>10
  <2> QED
    BY <2>1
<1>12. Seen(s)[0] = <<>>
  <2>1. 0 \in 0 .. Len(s)
    BY <1>1
  <2> QED
    BY <1>7, <2>1
<1>13. \A i \in 1 .. Len(s) :
         Seen(s)[i] = IF Visible(s[i]) THEN Append(Seen(s)[i - 1], s[i])
                                       ELSE Seen(s)[i - 1]
  <2> TAKE i \in 1 .. Len(s)
  <2>1. i \in 0 .. Len(s) /\ i # 0
    BY <1>1
  <2> QED
    BY <1>7, <2>1
<1> QED
  BY <1>11, <1>12, <1>13

\* What is seen of a text is what is seen of its parts.
LEMMA SeenConcat ==
  ASSUME NEW s \in Seq(Char), NEW t \in Seq(Char)
  PROVE  Seen(s \o t)[Len(s \o t)] = Seen(s)[Len(s)] \o Seen(t)[Len(t)]
<1> DEFINE u == s \o t
           C == {n \in Nat : n <= Len(s) => Seen(u)[n] = Seen(s)[n]}
           Splits(n) == Seen(u)[Len(s) + n] = Seen(s)[Len(s)] \o Seen(t)[n]
           D == {n \in Nat : n <= Len(t) => Splits(n)}
<1>1. /\ u \in Seq(Char)
      /\ Len(u) = Len(s) + Len(t)
      /\ \A i \in 1 .. Len(s) : u[i] = s[i]
      /\ \A i \in 1 .. Len(t) : u[Len(s) + i] = t[i]
  BY JoinProperties
<1> HIDE DEF u, Splits
<1>2. Len(s) \in Nat /\ Len(t) \in Nat
  OBVIOUS
<1>3. 0 \in C
  BY <1>1, SeenDef
<1>4. ASSUME NEW n \in C
      PROVE  n + 1 \in C
  <2>1. CASE n + 1 <= Len(s)
    <3>1. /\ n + 1 \in 1 .. Len(s) /\ n + 1 \in 1 .. Len(u) /\ (n + 1) - 1 = n
          /\ Seen(u)[n] = Seen(s)[n]
      BY <1>1, <1>2, <2>1
    <3>2. Seen(u)[n + 1] = IF Visible(u[n + 1]) THEN Append(Seen(u)[n], u[n + 1])
                                                ELSE Seen(u)[n]
      BY <1>1, <3>1, SeenDef
    <3>3. Seen(s)[n + 1] = IF Visible(s[n + 1]) THEN Append(Seen(s)[n], s[n + 1])
                                                ELSE Seen(s)[n]
      BY <3>1, SeenDef
    <3> QED
      BY <1>1, <3>1, <3>2, <3>3
  <2> QED
    BY <2>1
<1>5. C = Nat
  <2> HIDE DEF C
  <2> QED
    BY <1>3, <1>4, NatSetInduction DEF C
<1>6. Seen(u)[Len(s)] = Seen(s)[Len(s)]
  BY <1>2, <1>5
<1>7. 0 \in D
  <2>1. Seen(s)[Len(s)] \in Seq(Char)
    BY <1>2, SeenDef
  <2>2. Seen(s)[Len(s)] \o <<>> = Seen(s)[Len(s)]
    BY <2>1
  <2>3. Seen(t)[0] = <<>> /\ Len(s) + 0 = Len(s)
    BY <1>2, SeenDef
  <2>4. Splits(0)
    BY <1>6, <2>2, <2>3 DEF Splits
  <2> QED
    BY <2>4
<1>8. ASSUME NEW n \in D
      PROVE  n + 1 \in D
  <2>1. CASE n + 1 <= Len(t)
    <3> DEFINE k == Len(s) + n
    <3>1. /\ n + 1 \in 1 .. Len(t) /\ (n + 1) - 1 = n /\ n \in 0 .. Len(t)
          /\ k + 1 \in 1 .. Len(u) /\ (k + 1) - 1 = k
          /\ Len(s) + (n + 1) = k + 1
      BY <1>1, <1>2, <2>1
    <3>2. Seen(u)[k] = Seen(s)[Len(s)] \o Seen(t)[n]
      <4>1. n \in Nat /\ n <= Len(t)
        BY <1>2, <2>1
      <4>2. Splits(n)
        BY <4>1
      <4> QED
        BY <4>2 DEF Splits
    <3>3. u[k + 1] = t[n + 1] /\ t[n + 1] \in Char
      BY <1>1, <3>1, ElementOfSeq
    <3> HIDE DEF k
    <3>4. Seen(u)[k + 1] = IF Visible(u[k + 1]) THEN Append(Seen(u)[k], u[k + 1])
                                                ELSE Seen(u)[k]
      BY <1>1, <3>1, SeenDef
    <3>5. Seen(t)[n + 1] = IF Visible(t[n + 1]) THEN Append(Seen(t)[n], t[n + 1])
                                                ELSE Seen(t)[n]
      BY <3>1, SeenDef
    <3>6. \A x, y \in Seq(Char), c \in Char : Append(x \o y, c) = x \o Append(y, c)
      BY AppendBehind
    <3>7. Seen(s)[Len(s)] \in Seq(Char) /\ Seen(t)[n] \in Seq(Char)
      BY <1>2, <3>1, SeenDef
    <3>8. Append(Seen(s)[Len(s)] \o Seen(t)[n], t[n + 1])
            = Seen(s)[Len(s)] \o Append(Seen(t)[n], t[n + 1])
      BY <3>3, <3>6, <3>7
    <3>9. Seen(u)[k + 1] = Seen(s)[Len(s)] \o Seen(t)[n + 1]
      BY <3>2, <3>3, <3>4, <3>5, <3>8
    <3>10. Splits(n + 1)
      BY <3>1, <3>9 DEF Splits
    <3> QED
      BY <3>10
  <2> QED
    BY <2>1
<1>9. D = Nat
  <2> HIDE DEF D
  <2> QED
    BY <1>7, <1>8, NatSetInduction DEF D
<1>10. Seen(u)[Len(s) + Len(t)] = Seen(s)[Len(s)] \o Seen(t)[Len(t)]
  <2>1. Splits(Len(t))
    BY <1>2, <1>9
  <2> QED
    BY <2>1 DEF Splits
<1> QED
  BY <1>1, <1>10 DEF u

\* Markers and selectors are not seen.
LEMMA SeenNothing ==
  ASSUME NEW s \in Seq(Char), \A i \in 1 .. Len(s) : ~Visible(s[i])
  PROVE  Seen(s)[Len(s)] = <<>>
<1> DEFINE D == {n \in Nat : n <= Len(s) => Seen(s)[n] = <<>>}
<1>1. 0 \in D
  BY SeenDef
<1>2. ASSUME NEW n \in D
      PROVE  n + 1 \in D
  <2>1. CASE n + 1 <= Len(s)
    <3>1. n + 1 \in 1 .. Len(s) /\ (n + 1) - 1 = n /\ Seen(s)[n] = <<>>
      BY <2>1
    <3> QED
      BY <3>1, SeenDef
  <2> QED
    BY <2>1
<1>3. D = Nat
  <2> HIDE DEF D
  <2> QED
    BY <1>1, <1>2, NatSetInduction DEF D
<1> QED
  BY <1>3

\* Taking a marker and selectors behind it out of a text takes nothing that is
\* seen.
LEMMA RangeUnseen ==
  ASSUME NEW text \in Seq(Char), NEW i \in 1 .. Len(text), NEW n \in 1 .. Len(text),
         i <= n, text[i] = MARKER, \A j \in i + 1 .. n : IsVs(text[j])
  PROVE  Shown(SubSeq(text, 1, i - 1) \o SubSeq(text, n + 1, Len(text))) = Shown(text)
<1> DEFINE a   == SubSeq(text, 1, i - 1)
           own == SubSeq(text, i, n)
           b   == SubSeq(text, n + 1, Len(text))
<1>2. /\ a \in Seq(Char) /\ own \in Seq(Char) /\ b \in Seq(Char)
      /\ text = a \o own \o b
      /\ Len(own) = (n - i) + 1
      /\ \A k \in 1 .. Len(own) : own[k] = text[i + k - 1]
  <2>1. n \in i .. Len(text)
    OBVIOUS
  <2> QED
    BY <2>1, ThreeSlices
<1>3. \A k \in 1 .. Len(own) : ~Visible(own[k])
  <2> TAKE k \in 1 .. Len(own)
  <2>1. own[k] = text[i + k - 1]
    BY <1>2
  <2>2. CASE k = 1
    <3>1. i + k - 1 = i
      BY <2>2
    <3> QED
      BY <2>1, <3>1 DEF Visible
  <2>3. CASE k # 1
    <3>0. k \in 1 .. (n - i) + 1 /\ i \in Int /\ n \in Int
      BY <1>2
    <3>1. i + k - 1 \in i + 1 .. n
      BY <2>3, <3>0
    <3> QED
      BY <2>1, <3>1 DEF Visible
  <2> QED
    BY <2>2, <2>3
<1> HIDE DEF a, own, b
<1>4. Seen(own)[Len(own)] = <<>>
  BY <1>2, <1>3, SeenNothing
<1>5. a \o own \in Seq(Char)
  BY <1>2, JoinProperties
<1>6. Seen(a \o own)[Len(a \o own)] = Seen(a)[Len(a)] \o <<>>
  BY <1>2, <1>4, SeenConcat
<1>7. Seen(a)[Len(a)] \in Seq(Char)
  <2>1. Len(a) \in 0 .. Len(a)
    BY <1>2
  <2> QED
    BY <1>2, <2>1, SeenDef
<1>8. Seen(a)[Len(a)] \o <<>> = Seen(a)[Len(a)]
  BY <1>7
<1>9. Seen(text)[Len(text)] = Seen(a \o own)[Len(a \o own)] \o Seen(b)[Len(b)]
  <2>1. Seen((a \o own) \o b)[Len((a \o own) \o b)]
          = Seen(a \o own)[Len(a \o own)] \o Seen(b)[Len(b)]
    BY <1>2, <1>5, SeenConcat
  <2>2. text = (a \o own) \o b
    BY <1>2
  <2> QED
    BY <2>1, <2>2
<1>11. Seen(a \o b)[Len(a \o b)] = Seen(a)[Len(a)] \o Seen(b)[Len(b)]
  BY <1>2, SeenConcat
<1>12. Seen(text)[Len(text)] = Seen(a \o b)[Len(a \o b)]
  BY <1>6, <1>8, <1>9, <1>11
<1> QED
  BY <1>12 DEF Shown, a, b

\* A located wrapper is a marker and selectors.
LEMMA WithoutShown ==
  ASSUME NEW text \in Seq(Char), NEW w \in LocateAll(text)
  PROVE  Shown(Without(text, w)) = Shown(text)
<1>1. PICK i \in 1 .. Len(text), n \in 1 .. Len(text) :
        /\ i <= n
        /\ text[i] = MARKER
        /\ \A j \in i + 1 .. n : IsVs(text[j])
        /\ Without(text, w) = SubSeq(text, 1, i - 1) \o SubSeq(text, n + 1, Len(text))
  BY WithoutParts
<1>2. Shown(SubSeq(text, 1, i - 1) \o SubSeq(text, n + 1, Len(text))) = Shown(text)
  BY <1>1, RangeUnseen
<1> QED
  BY <1>1, <1>2

-----------------------------------------------------------------------------
(* The inductive invariant *)

PartsOK ==
  /\ before \in Seq(Char)
  /\ carrier \in Seq(Char)
  /\ after \in Seq(Char)
  /\ payload \in Seq(Byte)
  /\ mangled \in BOOLEAN
  /\ steps \in 0 .. MaxSteps

ClaimOK(c) ==
  /\ c.binding.alg \in AlgorithmIds
  /\ c.binding.exclusions \in Seq([start : Nat, length : Nat])
  /\ Len(c.binding.exclusions) = 1

\* The claim c was made for an asset that is rest without one of its wrappers.
Describes(c, rest) ==
  /\ c.binding.hash = Digest(c.binding.alg, c.hashed)
  /\ c.hashed = Nfc(rest)
  /\ c.shown = Shown(rest)
  /\ c.computed => ~Occurs(Signature, rest)

ClaimsOK == \A c \in claims : ClaimOK(c)

ClaimsHonest == \A c \in claims : \E rest \in Seq(Char) : Describes(c, rest)

\* While the channel has not touched the carrier, it is the frame of the payload.
CarrierFramed == carrier # <<>> /\ ~mangled => IsFrame(carrier, payload)

AcceptedNow == accepted = Verifying(Text, claims)

IInv == PartsOK /\ ClaimsOK /\ ClaimsHonest /\ CarrierFramed /\ AcceptedNow

\* The asset as stored is a text.
LEMMA TextTyped ==
  ASSUME PartsOK
  PROVE  Text \in Seq(Char)
BY ConcatTyped DEF PartsOK, Text

\* The bound on a behaviour is kept.
LEMMA StepTyped ==
  ASSUME PartsOK, Step
  PROVE  steps' \in 0 .. MaxSteps
BY AssetAssumption DEF PartsOK, Step

\* The claims that verify are looked up after every step.
LEMMA ValidateStep ==
  ASSUME Validate
  PROVE  AcceptedNow'
BY DEF Validate, AcceptedNow

\* The invariant holds of every host text.
LEMMA InitInv ==
  ASSUME Init
  PROVE  IInv
<1>1. <<>> \in Seq(Char) /\ <<>> \in Seq(Byte)
  OBVIOUS
<1>2. PartsOK
  <2>1. before \in Seq(Char)
    BY AssetAssumption DEF Init
  <2>2. steps \in 0 .. MaxSteps
    BY AssetAssumption DEF Init
  <2> QED
    BY <1>1, <2>1, <2>2 DEF Init, PartsOK
<1>3. AcceptedNow
  BY DEF Init, AcceptedNow, Verifying
<1> QED
  BY <1>2, <1>3 DEF Init, IInv, ClaimsOK, ClaimsHonest, CarrierFramed

\* embed on an unsigned text leaves the frame of the manifest as carrier.
LEMMA EmbedManifestStep ==
  ASSUME PartsOK, NEW p \in Payloads, EmbedManifest(p)
  PROVE  PartsOK' /\ CarrierFramed'
<1>1. p \in Seq(Byte) /\ <<>> \in Seq(Byte)
  BY AssetAssumption
<1>2. carrier' = Carry(Framed(p, <<>>)) /\ IsOk(Encode(p))
  BY <1>1, TextTyped, EmbedAppends DEF EmbedManifest, Embed
<1>3. IsFrame(carrier', p) /\ carrier' \in Seq(Char)
  BY <1>1, <1>2, EmbeddedFrame, FrameMarked
<1>4. PartsOK'
  <2>1. before' \in Seq(Char) /\ after' \in Seq(Char)
    <3>1. <<>> \in Seq(Char)
      OBVIOUS
    <3> QED
      BY <3>1, TextTyped DEF EmbedManifest
  <2> QED
    BY <1>1, <1>3, <2>1, StepTyped DEF EmbedManifest, PartsOK
<1>5. CarrierFramed'
  BY <1>3 DEF EmbedManifest, CarrierFramed
<1> QED
  BY <1>4, <1>5

\* So does appending what encode_padded returns.
LEMMA EmbedPlaceholderStep ==
  ASSUME PartsOK, NEW p \in Payloads, EmbedPlaceholder(p)
  PROVE  PartsOK' /\ CarrierFramed'
<1>1. p \in Seq(Byte)
  BY AssetAssumption
<1>2. carrier' = EncodePadded(p).ok /\ IsOk(EncodePadded(p))
  BY DEF EmbedPlaceholder
<1>3. IsFrame(carrier', p) /\ carrier' \in Seq(Char)
  BY <1>1, <1>2, EmbeddedFrame, FrameMarked
<1>4. PartsOK'
  <2>1. before' \in Seq(Char) /\ after' \in Seq(Char)
    <3>1. <<>> \in Seq(Char)
      OBVIOUS
    <3> QED
      BY <3>1, TextTyped DEF EmbedPlaceholder
  <2> QED
    BY <1>1, <1>3, <2>1, StepTyped DEF EmbedPlaceholder, PartsOK
<1>5. CarrierFramed'
  BY <1>3 DEF EmbedPlaceholder, CarrierFramed
<1> QED
  BY <1>4, <1>5

\* So does replacing the placeholder by a manifest of its size.
LEMMA FinaliseManifestStep ==
  ASSUME PartsOK, NEW p \in Payloads, FinaliseManifest(p)
  PROVE  PartsOK' /\ CarrierFramed'
<1>1. p \in Seq(Byte)
  BY AssetAssumption
<1>2. carrier' = EncodePadded(p).ok /\ IsOk(EncodePadded(p))
  BY DEF FinaliseManifest
<1>3. IsFrame(carrier', p) /\ carrier' \in Seq(Char)
  BY <1>1, <1>2, EmbeddedFrame, FrameMarked
<1>4. before' \in Seq(Char)
  BY TextTyped, StripTyped DEF FinaliseManifest
<1>5. PartsOK'
  BY <1>1, <1>3, <1>4, StepTyped DEF FinaliseManifest, PartsOK
<1>6. CarrierFramed'
  BY <1>3 DEF FinaliseManifest, CarrierFramed
<1> QED
  BY <1>5, <1>6

\* Stripping leaves a text, and no carrier to speak of.
LEMMA StripManifestStep ==
  ASSUME PartsOK, StripManifest
  PROVE  PartsOK' /\ CarrierFramed'
<1>1. <<>> \in Seq(Char)
  OBVIOUS
<1>2. before' \in Seq(Char)
  BY TextTyped, StripTyped DEF StripManifest
<1>3. PartsOK'
  BY <1>1, <1>2, StepTyped DEF StripManifest, PartsOK
<1>4. CarrierFramed'
  BY DEF StripManifest, CarrierFramed
<1> QED
  BY <1>3, <1>4

\* A second embed touches only what lies behind the carrier.
LEMMA AccreteManifestStep ==
  ASSUME PartsOK, NEW p \in Payloads, AccreteManifest(p)
  PROVE  PartsOK' /\ (CarrierFramed => CarrierFramed')
<1> DEFINE own     == before \o carrier
           encoded == Carry(Framed(p, <<>>))
<1>1. p \in Seq(Byte) /\ <<>> \in Seq(Byte)
  BY AssetAssumption
<1>2. /\ own \in Seq(Char) /\ after \in Seq(Char)
      /\ Text = own \o after
  BY ConcatTyped DEF PartsOK, Text
<1>3. encoded \in Seq(Char)
  BY <1>1, CarriedSignature
<1>4. Embed(Text, p).ok = Text \o encoded
  BY <1>1, TextTyped, EmbedAppends DEF AccreteManifest
<1> HIDE DEF encoded
<1>5. after' = SubSeq(Text \o encoded, Len(own) + 1, Len(Text \o encoded))
  BY <1>4 DEF AccreteManifest
<1> HIDE DEF own
<1>6. after' \in Seq(Char)
  <2>1. Text \o encoded \in Seq(Char) /\ Len(own) \in 0 .. Len(Text \o encoded)
    BY <1>2, <1>3
  <2> QED
    BY <1>5, <2>1, RestProperties
<1>7. PartsOK'
  BY <1>6, StepTyped DEF AccreteManifest, PartsOK
<1>8. CarrierFramed => CarrierFramed'
  BY DEF AccreteManifest, CarrierFramed
<1> QED
  BY <1>7, <1>8

\* The channel leaves texts, and a carrier either unchanged or marked as mangled.
LEMMA ChannelStep ==
  ASSUME NormalizerTotal, PartsOK,
         EditBefore \/ EditAfter \/ Normalise \/ Mangle
  PROVE  PartsOK' /\ (CarrierFramed => CarrierFramed')
<1>1. CASE EditBefore
  <2>1. before' \in Seq(Char)
    BY <1>1, AssetAssumption, SpliceTyped DEF EditBefore, PartsOK
  <2> QED
    BY <1>1, <2>1, StepTyped DEF EditBefore, PartsOK, CarrierFramed
<1>2. CASE EditAfter
  <2>1. after' \in Seq(Char)
    BY <1>2, AssetAssumption, SpliceTyped DEF EditAfter, PartsOK
  <2> QED
    BY <1>2, <2>1, StepTyped DEF EditAfter, PartsOK, CarrierFramed
<1>3. CASE Normalise
  <2>1. before' \in Seq(Char) /\ after' \in Seq(Char)
    BY <1>3 DEF Normalise, PartsOK, NormalizerTotal
  <2> QED
    BY <1>3, <2>1, StepTyped DEF Normalise, PartsOK, CarrierFramed
<1>4. CASE Mangle
  <2>1. PICK i \in 1 .. Len(carrier), n \in 0 .. 1, new \in Mangling :
          carrier' = Splice(carrier, i, n, new)
    BY <1>4 DEF Mangle
  <2>2. /\ carrier \in Seq(Char) /\ new \in Seq(Char)
        /\ i \in 1 .. Len(carrier) + 1 /\ i + n <= Len(carrier) + 1
    BY AssetAssumption DEF PartsOK
  <2>3. carrier' \in Seq(Char)
    BY <2>1, <2>2, SpliceTyped
  <2> QED
    BY <1>4, <2>3, StepTyped DEF Mangle, PartsOK, CarrierFramed
<1> QED
  BY <1>1, <1>2, <1>3, <1>4

\* The claim that a generator makes for an asset by excluding the wrapper w.
ClaimFor(text, w, alg, computed) ==
  [binding  |-> [exclusions |-> <<RangeOf(w)>>,
                 alg        |-> alg,
                 hash       |-> Digest(alg, Nfc(Without(text, w)))],
   hashed   |-> Nfc(Without(text, w)),
   shown    |-> Shown(text),
   computed |-> computed]

\* It describes the text without the wrapper, and verifies at once.
LEMMA ClaimForProperties ==
  ASSUME NEW text \in Seq(Char), NEW w \in LocateAll(text), NEW alg \in AlgorithmIds,
         ~HasCorruptedCandidate(text), WrapperEnd(w) <= USIZE_MAX,
         NEW computed, computed => ~Occurs(Signature, Without(text, w))
  PROVE  LET c == ClaimFor(text, w, alg, computed)
         IN  /\ ClaimOK(c)
             /\ \E rest \in Seq(Char) : Describes(c, rest)
             /\ c.shown = Shown(text)
             /\ IsOk(VerifyDataHash(text, c.binding))
<1> DEFINE c == ClaimFor(text, w, alg, computed)
<1>1. /\ c.binding.exclusions = <<RangeOf(w)>>
      /\ c.binding.alg = alg
      /\ c.binding.hash = Digest(alg, Nfc(Without(text, w)))
      /\ c.hashed = Nfc(Without(text, w))
      /\ c.shown = Shown(text)
      /\ c.computed = computed
  BY DEF ClaimFor
<1> HIDE DEF c
<1>2. RangeOf(w) \in [start : Nat, length : Nat]
  BY RangeTyped
<1>3. /\ c.binding.exclusions \in Seq([start : Nat, length : Nat])
      /\ Len(c.binding.exclusions) = 1
  BY <1>1, <1>2
<1>4. ClaimOK(c)
  BY <1>1, <1>3 DEF ClaimOK
<1>5. Without(text, w) \in Seq(Char) /\ Shown(Without(text, w)) = Shown(text)
  BY WithoutTyped, WithoutShown
<1>6. Describes(c, Without(text, w))
  BY <1>1, <1>5 DEF Describes
<1>7. IsOk(VerifyDataHash(text, c.binding))
  <2> DEFINE d == c.binding
  <2>1. d.exclusions \in Seq([start : Nat, length : Nat])
    BY <1>3
  <2>2. /\ d.alg \in AlgorithmIds
        /\ ~HasCorruptedCandidate(text)
        /\ \E v \in LocateAll(text) :
             /\ WrapperEnd(v) <= USIZE_MAX
             /\ d.exclusions = <<RangeOf(v)>>
             /\ Digest(d.alg, Nfc(Without(text, v))) = d.hash
    BY <1>1
  <2> HIDE DEF d
  <2>3. IsOk(VerifyDataHash(text, d))
    BY <2>1, <2>2, VerifiesExactly
  <2> QED
    BY <2>3 DEF d
<1> QED
  BY <1>1, <1>4, <1>5, <1>6, <1>7 DEF c

\* A generator adds one claim, of the asset as it is, and it verifies.
LEMMA ClaimMade ==
  ASSUME PartsOK, NEW alg \in Algorithms, ComputeClaim(alg) \/ SelectWrapper(alg)
  PROVE  \E c : /\ claims' = claims \cup {c}
               /\ ClaimOK(c)
               /\ \E rest \in Seq(Char) : Describes(c, rest)
               /\ c.shown = Shown(Text)
               /\ IsOk(VerifyDataHash(Text, c.binding))
<1>1. alg \in AlgorithmIds /\ Text \in Seq(Char)
  BY AssetAssumption, TextTyped
<1>2. CASE ComputeClaim(alg)
  <2> DEFINE w == Extract(Text).ok
             c == ClaimFor(Text, w, alg, TRUE)
  <2>1. IsOk(ComputeDataHash(Text, alg))
    BY <1>2 DEF ComputeClaim
  <2>2. /\ IsOk(Extract(Text))
        /\ WrapperEnd(w) <= USIZE_MAX
        /\ ComputeDataHash(Text, alg).ok
             = [exclusions |-> <<RangeOf(w)>>,
                alg        |-> alg,
                hash       |-> Digest(alg, Nfc(Without(Text, w)))]
    BY <1>1, <2>1, ComputedClaim
  <2>3. w \in LocateAll(Text) /\ ~HasCorruptedCandidate(Text)
    BY <2>2, ExtractedIsLocated
  <2>4. ~Occurs(Signature, Without(Text, w))
    <3>1. Extract(Without(Text, w)) = Err("NotFound")
      BY <1>1, <2>2, StripUnsigns DEF Without
    <3>2. Without(Text, w) \in Seq(Char)
      BY <1>1, <2>3, WithoutTyped
    <3> QED
      BY <3>1, <3>2, NotFoundIffNoSignature
  <2>5. HashedBytes(Text, <<RangeOf(w)>>).ok = Nfc(Without(Text, w))
    BY <1>1, <2>2, <2>3, HashedWithout, OkOrErr
  <2>6. claims' = claims \cup {c}
    <3>1. ComputeDataHash(Text, alg).ok.exclusions = <<RangeOf(w)>>
      BY <2>2
    <3> QED
      BY <1>2, <2>2, <2>5, <3>1 DEF ComputeClaim, ClaimFor
  <2> HIDE DEF w
  <2>7. /\ ClaimOK(c)
        /\ \E rest \in Seq(Char) : Describes(c, rest)
        /\ c.shown = Shown(Text)
        /\ IsOk(VerifyDataHash(Text, c.binding))
    BY <1>1, <2>2, <2>3, <2>4, ClaimForProperties
  <2> HIDE DEF c
  <2> QED
    BY <2>6, <2>7
<1>3. CASE SelectWrapper(alg)
  <2>1. PICK w \in LocateAll(Text) :
          /\ IsOk(HashedBytes(Text, <<RangeOf(w)>>))
          /\ claims' = claims \cup
               {[binding  |-> [exclusions |-> <<RangeOf(w)>>,
                               alg        |-> alg,
                               hash       |-> Digest(alg, HashedBytes(Text, <<RangeOf(w)>>).ok)],
                 hashed   |-> HashedBytes(Text, <<RangeOf(w)>>).ok,
                 shown    |-> Shown(Text),
                 computed |-> FALSE]}
    BY <1>3 DEF SelectWrapper
  <2> DEFINE c == ClaimFor(Text, w, alg, FALSE)
  <2>2. ~HasCorruptedCandidate(Text)
    BY <1>3 DEF SelectWrapper
  <2>3. WrapperEnd(w) <= USIZE_MAX
    BY <1>1, <2>1, HashedWithout, OkOrErr
  <2>4. HashedBytes(Text, <<RangeOf(w)>>).ok = Nfc(Without(Text, w))
    BY <1>1, <2>3, HashedWithout, OkOrErr
  <2>5. claims' = claims \cup {c}
    BY <2>1, <2>4 DEF ClaimFor
  <2>6. /\ ClaimOK(c)
        /\ \E rest \in Seq(Char) : Describes(c, rest)
        /\ c.shown = Shown(Text)
        /\ IsOk(VerifyDataHash(Text, c.binding))
    BY <1>1, <2>2, <2>3, ClaimForProperties
  <2> HIDE DEF c
  <2> QED
    BY <2>5, <2>6
<1> QED
  BY <1>2, <1>3

\* The claims stay well formed and honest.
LEMMA ClaimStep ==
  ASSUME PartsOK, ClaimsOK, ClaimsHonest, CarrierFramed, NEW alg \in Algorithms,
         ComputeClaim(alg) \/ SelectWrapper(alg)
  PROVE  PartsOK' /\ ClaimsOK' /\ ClaimsHonest' /\ CarrierFramed'
<1>1. PartsOK' /\ CarrierFramed'
  BY StepTyped DEF ComputeClaim, SelectWrapper, PartsOK, CarrierFramed
<1>2. PICK c : /\ claims' = claims \cup {c}
               /\ ClaimOK(c)
               /\ \E rest \in Seq(Char) : Describes(c, rest)
  BY ClaimMade
<1>3. ClaimsOK' /\ ClaimsHonest'
  BY <1>2 DEF ClaimsOK, ClaimsHonest
<1> QED
  BY <1>1, <1>3

\* Every step keeps the invariant.
LEMMA NextInv ==
  ASSUME NormalizerTotal, IInv, [Next]_vars
  PROVE  IInv'
<1> USE DEF IInv
<1>1. ASSUME NEW p \in Payloads, EmbedManifest(p)
      PROVE  IInv'
  BY <1>1, EmbedManifestStep, ValidateStep DEF EmbedManifest, ClaimsOK, ClaimsHonest
<1>2. ASSUME NEW p \in Payloads, EmbedPlaceholder(p)
      PROVE  IInv'
  BY <1>2, EmbedPlaceholderStep, ValidateStep DEF EmbedPlaceholder, ClaimsOK, ClaimsHonest
<1>3. ASSUME NEW p \in Payloads, FinaliseManifest(p)
      PROVE  IInv'
  BY <1>3, FinaliseManifestStep, ValidateStep DEF FinaliseManifest, ClaimsOK, ClaimsHonest
<1>4. ASSUME NEW p \in Payloads, AccreteManifest(p)
      PROVE  IInv'
  BY <1>4, AccreteManifestStep, ValidateStep DEF AccreteManifest, ClaimsOK, ClaimsHonest
<1>5. ASSUME NEW alg \in Algorithms, ComputeClaim(alg) \/ SelectWrapper(alg)
      PROVE  IInv'
  BY <1>5, ClaimStep, ValidateStep DEF ComputeClaim, SelectWrapper
<1>6. CASE StripManifest
  BY <1>6, StripManifestStep, ValidateStep DEF StripManifest, ClaimsOK, ClaimsHonest
<1>7. CASE EditBefore \/ EditAfter \/ Normalise \/ Mangle
  BY <1>7, ChannelStep, ValidateStep
     DEF EditBefore, EditAfter, Normalise, Mangle, ClaimsOK, ClaimsHonest
<1>8. CASE UNCHANGED vars
  BY <1>8 DEF vars, PartsOK, ClaimsOK, ClaimsHonest, CarrierFramed, AcceptedNow, Text
<1> QED
  BY <1>1, <1>2, <1>3, <1>4, <1>5, <1>6, <1>7, <1>8 DEF Next

-----------------------------------------------------------------------------
(* Theorems *)

\* The signature of an untouched carrier is found in the whole text, whatever
\* stands in front of it and behind it.
LEMMA MarkedText ==
  ASSUME PartsOK, OccursAt(Signature, carrier, 1), carrier # <<>>
  PROVE  Occurs(Signature, Text)
<1> DEFINE n == Len(before)
<1>1. /\ carrier[1] = MARKER /\ 9 <= Len(carrier)
      /\ \A j \in 1 .. 8 : carrier[1 + j] = ByteToVs(MAGIC[j])
  <2>1. 1 \in 1 .. Len(carrier) /\ 1 + 8 = 9
    BY DEF PartsOK
  <2> QED
    BY <2>1, SignatureAt DEF PartsOK
<1>2. /\ Text \in Seq(Char)
      /\ Len(Text) >= n + Len(carrier)
      /\ \A k \in 1 .. Len(carrier) : Text[n + k] = carrier[k]
  <2> DEFINE own == before \o carrier
  <2>1. /\ own \in Seq(Char)
        /\ Len(own) = n + Len(carrier)
        /\ \A k \in 1 .. Len(carrier) : own[n + k] = carrier[k]
    BY DEF PartsOK
  <2> HIDE DEF own
  <2>2. /\ own \o after \in Seq(Char)
        /\ Len(own \o after) >= Len(own)
        /\ \A k \in 1 .. Len(own) : (own \o after)[k] = own[k]
    BY <2>1 DEF PartsOK
  <2>3. \A k \in 1 .. Len(carrier) : n + k \in 1 .. Len(own)
    BY <2>1 DEF PartsOK
  <2>4. Text = own \o after
    BY DEF Text, own
  <2> QED
    BY <2>1, <2>2, <2>3, <2>4
<1>3. n \in Nat /\ Len(carrier) \in Nat /\ Len(Text) \in Nat
  BY <1>2 DEF PartsOK
<1> HIDE DEF n
<1>4. n + 1 \in 1 .. Len(Text) /\ (n + 1) + 8 <= Len(Text)
  BY <1>1, <1>2, <1>3
<1>5. Text[n + 1] = MARKER
  <2>1. 1 \in 1 .. Len(carrier)
    BY <1>1, <1>3
  <2> QED
    BY <1>1, <1>2, <2>1
<1>6. \A j \in 1 .. 8 : Text[(n + 1) + j] = ByteToVs(MAGIC[j])
  <2> TAKE j \in 1 .. 8
  <2>1. 1 + j \in 1 .. Len(carrier) /\ (n + 1) + j = n + (1 + j)
    BY <1>1, <1>3
  <2> QED
    BY <1>1, <1>2, <2>1
<1>7. OccursAt(Signature, Text, n + 1)
  BY <1>2, <1>4, <1>5, <1>6, SignatureAt
<1> QED
  BY <1>4, <1>7 DEF Occurs

\* IInv is an invariant of Spec.
LEMMA Invariance ==
  ASSUME NormalizerTotal
  PROVE  Spec => []IInv
<1>1. Init => IInv
  BY InitInv
<1>2. IInv /\ [Next]_vars => IInv'
  BY NextInv
<1> QED
  BY <1>1, <1>2, PTL DEF Spec

\* A well formed claim excludes one range of byte offsets.
LEMMA ClaimTyped ==
  ASSUME NEW c, ClaimOK(c)
  PROVE  /\ c.binding.alg \in AlgorithmIds
         /\ Len(c.binding.exclusions) = 1
         /\ c.binding.exclusions[1] \in [start : Nat, length : Nat]
<1> DEFINE l == c.binding.exclusions
           S == [start : Nat, length : Nat]
<1>1. l \in Seq(S) /\ Len(l) = 1
  BY DEF ClaimOK
<1> HIDE DEF l, S
<1>2. l[1] \in S
  BY <1>1
<1> QED
  BY <1>2 DEF ClaimOK, l, S

\* Every text the asset goes through is a text, every claim made about it
\* excludes one range of byte offsets, and only claims that were made verify.
THEOREM TypeCorrect ==
  ASSUME NormalizerTotal
  PROVE  Spec => []TypeOK
<1>1. IInv => TypeOK
  <2>1. AcceptedNow => accepted \subseteq claims
    BY DEF AcceptedNow, Verifying
  <2> QED
    BY <2>1, ClaimTyped DEF IInv, PartsOK, ClaimsOK, TypeOK
<1> QED
  BY <1>1, Invariance, PTL

\* extract says NotFound exactly while no signature is stored in the text.
THEOREM UnsignedExactly ==
  ASSUME NormalizerTotal
  PROVE  Spec => []UnsignedIffNoSignature
<1>1. IInv => UnsignedIffNoSignature
  BY TextTyped, NotFoundIffNoSignature DEF IInv, UnsignedIffNoSignature
<1> QED
  BY <1>1, Invariance, PTL

\* An untouched carrier is never reported as absent.
THEOREM NeverSilent ==
  ASSUME NormalizerTotal
  PROVE  Spec => []CarrierNeverSilent
<1>1. IInv => CarrierNeverSilent
  <2>1. ASSUME PartsOK, CarrierFramed, carrier # <<>>, ~mangled
        PROVE  OccursAt(Signature, carrier, 1)
    BY <2>1, FrameMarked DEF PartsOK, CarrierFramed
  <2> QED
    BY <2>1, TextTyped, MarkedText, NotFoundIffNoSignature
       DEF IInv, CarrierNeverSilent
<1> QED
  BY <1>1, Invariance, PTL

\* Whatever stands around the one wrapper of a text, stripping it succeeds and
\* leaves a text that extract calls unsigned.
THEOREM StrippedIsUnsigned ==
  ASSUME NormalizerTotal
  PROVE  Spec => []StripLeavesUnsigned
<1>1. IInv => StripLeavesUnsigned
  BY TextTyped, StripUnsigns DEF IInv, StripLeavesUnsigned
<1> QED
  BY <1>1, Invariance, PTL

\* Stripping takes nothing a reader sees: a located wrapper is a marker and
\* selectors.
THEOREM StrippedIsSeenTheSame ==
  ASSUME NormalizerTotal
  PROVE  Spec => []StripKeepsShown
<1>1. ASSUME PartsOK, IsOk(Extract(Text))
      PROVE  LET w    == Extract(Text)
                 rest == Strip(Text, w.ok.start, w.ok.start + w.ok.length)
             IN  IsOk(rest) /\ Shown(rest.ok) = Shown(Text)
  <2> DEFINE w == Extract(Text).ok
  <2>1. w \in LocateAll(Text) /\ Text \in Seq(Char)
    BY <1>1, TextTyped, ExtractedIsLocated
  <2> HIDE DEF w
  <2>2. /\ Strip(Text, w.start, w.start + w.length) = Ok(Without(Text, w))
        /\ Shown(Without(Text, w)) = Shown(Text)
    BY <2>1, WithoutTyped, WithoutShown
  <2>3. /\ IsOk(Strip(Text, w.start, w.start + w.length))
        /\ Strip(Text, w.start, w.start + w.length).ok = Without(Text, w)
    BY <2>2, OkOrErr
  <2> QED
    BY <2>2, <2>3 DEF w
<1>2. IInv => StripKeepsShown
  BY <1>1 DEF IInv, StripKeepsShown
<1> QED
  BY <1>2, Invariance, PTL

\* The offsets of a binding are those of the text as stored: in every reachable
\* text with one wrapper a binding is computed for every algorithm, its hash is
\* that of the composed text strip leaves, and it verifies.
THEOREM BoundIsStripped ==
  ASSUME NormalizerTotal
  PROVE  Spec => []BindsWhatStripLeaves
<1>1. ASSUME PartsOK, IsOk(Extract(Text)), ByteLen(Text) <= USIZE_MAX, NEW alg \in Algorithms
      PROVE  LET w     == Extract(Text)
                 rest  == Strip(Text, w.ok.start, w.ok.start + w.ok.length)
                 bound == ComputeDataHash(Text, alg)
             IN  /\ IsOk(bound)
                 /\ bound.ok.hash = Digest(alg, Nfc(rest.ok))
                 /\ IsOk(VerifyDataHash(Text, bound.ok))
  <2> DEFINE w     == Extract(Text).ok
             bound == ComputeDataHash(Text, alg)
  <2>1. /\ w \in LocateAll(Text) /\ ~HasCorruptedCandidate(Text)
        /\ Text \in Seq(Char) /\ alg \in AlgorithmIds
    BY <1>1, AssetAssumption, TextTyped, ExtractedIsLocated
  <2>2. ManifestExclusion(Text) = Ok(RangeOf(w))
    BY <1>1 DEF ManifestExclusion
  <2> HIDE DEF w
  <2>3. WrapperEnd(w) <= USIZE_MAX
    <3>1. /\ w.start + w.length \in Nat /\ w.start + w.length <= ByteLen(Text)
          /\ ByteLen(Text) \in Nat
      BY <2>1, WrapperInText, ByteLenNat
    <3>2. USIZE_MAX \in Nat
      BY WidthAssumption
    <3> QED
      BY <1>1, <3>1, <3>2 DEF WrapperEnd
  <2>4. Strip(Text, w.start, w.start + w.length).ok = Without(Text, w)
    BY <2>1, WithoutTyped, OkOrErr
  <2>5. /\ IsOk(HashedBytes(Text, <<RangeOf(w)>>))
        /\ HashedBytes(Text, <<RangeOf(w)>>).ok = Nfc(Without(Text, w))
    BY <2>1, <2>3, HashedWithout, OkOrErr
  <2>6. bound = Ok([exclusions |-> <<RangeOf(w)>>,
                    alg        |-> alg,
                    hash       |-> Digest(alg, Nfc(Without(Text, w)))])
    <3>1. /\ IsOk(ManifestExclusion(Text)) /\ ManifestExclusion(Text).ok = RangeOf(w)
      BY <2>2, OkOrErr
    <3> QED
      BY <2>5, <3>1 DEF ComputeDataHash
  <2> HIDE DEF bound
  <2>7. /\ IsOk(bound)
        /\ bound.ok.exclusions = <<RangeOf(w)>>
        /\ bound.ok.alg = alg
        /\ bound.ok.hash = Digest(alg, Nfc(Without(Text, w)))
    BY <2>6, OkOrErr
  <2>8. IsOk(VerifyDataHash(Text, bound.ok))
    <3> DEFINE d == bound.ok
    <3>1. d.exclusions \in Seq([start : Nat, length : Nat])
      BY <2>1, <2>7, RangeTyped
    <3>2. /\ d.alg \in AlgorithmIds
          /\ \E v \in LocateAll(Text) :
               /\ WrapperEnd(v) <= USIZE_MAX
               /\ d.exclusions = <<RangeOf(v)>>
               /\ Digest(d.alg, Nfc(Without(Text, v))) = d.hash
      BY <2>1, <2>3, <2>7
    <3> HIDE DEF d
    <3>3. IsOk(VerifyDataHash(Text, d))
      BY <2>1, <3>1, <3>2, VerifiesExactly
    <3> QED
      BY <3>3 DEF d
  <2> QED
    BY <2>4, <2>7, <2>8 DEF w, bound
<1>2. IInv => BindsWhatStripLeaves
  BY <1>1 DEF IInv, BindsWhatStripLeaves
<1> QED
  BY <1>2, Invariance, PTL

\* Whatever the channel makes of a header, a wrapper that is located holds what
\* encoding its payload gives.
THEOREM LocatedIsEncoded ==
  ASSUME NormalizerTotal
  PROVE  Spec => []LocatedReencodes
<1>1. IInv => LocatedReencodes
  BY TextTyped, StoredReencodes DEF IInv, LocatedReencodes
<1> QED
  BY <1>1, Invariance, PTL

\* An untouched carrier that is alone in its text yields the manifest embedded.
THEOREM PayloadReadBack ==
  ASSUME NormalizerTotal
  PROVE  Spec => []PayloadSurvives
<1>1. ASSUME IInv, carrier # <<>>, ~mangled,
             ~Occurs(Signature, before), ~Occurs(Signature, after)
      PROVE  LET w == Extract(Text)
             IN  /\ IsOk(w)
                 /\ w.ok.payload = payload
                 /\ w.ok.start = ByteLen(before)
                 /\ w.ok.length >= ByteLen(carrier)
  <2> DEFINE w == WrapperAt(before \o carrier \o after, Len(before) + 1)
  <2>1. /\ before \in Seq(Char) /\ after \in Seq(Char) /\ payload \in Seq(Byte)
        /\ IsFrame(carrier, payload)
    BY <1>1 DEF IInv, PartsOK, CarrierFramed
  <2>2. /\ Extract(before \o carrier \o after) = Ok(w)
        /\ w.payload = payload
        /\ w.start = ByteLen(before)
        /\ w.length >= ByteLen(carrier)
    BY <1>1, <2>1, SoleFrame
  <2> HIDE DEF w
  <2>3. IsOk(Extract(Text)) /\ Extract(Text).ok = w
    BY <2>2, OkOrErr DEF Text
  <2> QED
    BY <2>2, <2>3
<1>2. IInv => PayloadSurvives
  BY <1>1 DEF PayloadSurvives
<1> QED
  BY <1>2, Invariance, PTL

-----------------------------------------------------------------------------
(* The hard binding *)

\* A claim that verifies was computed of the text without one of its wrappers,
\* as far as nobody has come across two texts of one digest.
LEMMA AcceptedCovers ==
  ASSUME IInv, NoCollision, NEW c \in accepted
  PROVE  /\ c \in claims
         /\ \E w \in LocateAll(Text), rest \in Seq(Char) :
              /\ Describes(c, rest)
              /\ Nfc(Without(Text, w)) = Nfc(rest)
<1> DEFINE d == c.binding
<1>1. c \in claims /\ IsOk(VerifyDataHash(Text, d)) /\ Text \in Seq(Char)
  BY TextTyped DEF IInv, AcceptedNow, Verifying
<1>2. d.exclusions \in Seq([start : Nat, length : Nat])
  BY <1>1 DEF IInv, ClaimsOK, ClaimOK
<1> HIDE DEF d
<1>3. PICK w \in LocateAll(Text) :
        /\ WrapperEnd(w) <= USIZE_MAX
        /\ Digest(d.alg, Nfc(Without(Text, w))) = d.hash
  BY <1>1, <1>2, VerifiesExactly
<1>4. /\ IsOk(HashedBytes(Text, <<RangeOf(w)>>))
      /\ HashedBytes(Text, <<RangeOf(w)>>).ok = Nfc(Without(Text, w))
  BY <1>1, <1>3, HashedWithout, OkOrErr
<1>5. Nfc(Without(Text, w)) = c.hashed
  BY <1>1, <1>3, <1>4 DEF NoCollision, d
<1>6. PICK rest \in Seq(Char) : Describes(c, rest)
  BY <1>1 DEF IInv, ClaimsHonest
<1>7. Nfc(Without(Text, w)) = Nfc(rest)
  BY <1>5, <1>6 DEF Describes
<1> QED
  BY <1>1, <1>6, <1>7

\* Without collisions of the digest, nobody comes across one.
LEMMA CollisionsUnseen ==
  ASSUME NormalizerTotal, CollisionFree(Seq(Char))
  PROVE  Spec => []NoCollision
<1>1. ASSUME IInv, NEW c \in claims, NEW w \in LocateAll(Text),
             IsOk(HashedBytes(Text, <<RangeOf(w)>>)),
             Digest(c.binding.alg, HashedBytes(Text, <<RangeOf(w)>>).ok) = c.binding.hash
      PROVE  HashedBytes(Text, <<RangeOf(w)>>).ok = c.hashed
  <2> DEFINE covered == HashedBytes(Text, <<RangeOf(w)>>)
  <2>1. Text \in Seq(Char)
    BY <1>1, TextTyped DEF IInv
  <2>2. covered = Ok(Nfc(Without(Text, w)))
    BY <1>1, <2>1, HashedWithout, OkOrErr
  <2>3. covered.ok = Nfc(Without(Text, w)) /\ Without(Text, w) \in Seq(Char)
    BY <2>1, <2>2, OkOrErr, WithoutTyped
  <2>4. covered.ok \in Seq(Char)
    BY <2>3 DEF NormalizerTotal
  <2>5. c.binding.hash = Digest(c.binding.alg, c.hashed) /\ c.hashed \in Seq(Char)
    BY <1>1 DEF IInv, ClaimsHonest, Describes, NormalizerTotal
  <2>6. c.binding.alg \in AlgorithmIds
    BY <1>1 DEF IInv, ClaimsOK, ClaimOK
  <2>7. Digest(c.binding.alg, covered.ok) = c.binding.hash
    BY <1>1
  <2> HIDE DEF covered
  <2>8. covered.ok = c.hashed
    BY <2>4, <2>5, <2>6, <2>7 DEF CollisionFree
  <2> QED
    BY <2>8 DEF covered
<1>2. IInv => NoCollision
  BY <1>1 DEF NoCollision
<1> QED
  BY <1>2, Invariance, PTL

\* Text that accreted a second wrapper has changed what the claim covers: a claim
\* compute_data_hash made verifies only where extract finds a single wrapper.
THEOREM AcceptedIsAlone ==
  ASSUME NormalizerTotal, NormalizerKeepsSignatures(Seq(Char))
  PROVE  Spec /\ []NoCollision => []ClaimNeedsSingleWrapper
<1>1. ASSUME IInv, NoCollision, NEW c \in accepted, c.computed
      PROVE  IsOk(Extract(Text))
  <2>1. Text \in Seq(Char)
    BY <1>1, TextTyped DEF IInv
  <2>2. PICK w \in LocateAll(Text), rest \in Seq(Char) :
          Describes(c, rest) /\ Nfc(Without(Text, w)) = Nfc(rest)
    BY <1>1, AcceptedCovers
  <2>3. ~Occurs(Signature, rest)
    BY <1>1, <2>2 DEF Describes
  <2>4. Without(Text, w) \in Seq(Char)
    BY <2>1, WithoutTyped
  <2>5. ~Occurs(Signature, Without(Text, w))
    BY <2>2, <2>3, <2>4 DEF NormalizerKeepsSignatures
  <2>6. Extract(Text) = Ok(w)
    BY <2>1, <2>5, OnlySignature
  <2> QED
    BY <2>6, OkOrErr
<1>2. IInv /\ NoCollision => ClaimNeedsSingleWrapper
  BY <1>1 DEF ClaimNeedsSingleWrapper
<1> QED
  BY <1>2, Invariance, PTL

\* Claims that verify were made for what the reader sees.
AcceptedShown == \A c \in accepted : c \in claims /\ c.shown = Shown(Text)

\* They do while nobody has come across two texts of one digest.
LEMMA AcceptedAreShown ==
  ASSUME NormalizerKeepsShown(Seq(Char)), IInv, NoCollision
  PROVE  AcceptedShown
<1> SUFFICES ASSUME NEW c \in accepted
             PROVE  c \in claims /\ c.shown = Shown(Text)
  BY DEF AcceptedShown
<1>1. Text \in Seq(Char)
  BY TextTyped DEF IInv
<1>2. c \in claims
  BY AcceptedCovers
<1>3. PICK w \in LocateAll(Text), rest \in Seq(Char) :
        Describes(c, rest) /\ Nfc(Without(Text, w)) = Nfc(rest)
  BY AcceptedCovers
<1>4. Without(Text, w) \in Seq(Char) /\ Shown(Without(Text, w)) = Shown(Text)
  BY <1>1, WithoutTyped, WithoutShown
<1>5. Shown(Without(Text, w)) = Shown(rest)
  BY <1>3, <1>4 DEF NormalizerKeepsShown
<1> QED
  BY <1>2, <1>3, <1>4, <1>5 DEF Describes

\* What a reader sees is a text.
LEMMA ShownTyped ==
  ASSUME NormalizerTotal, NEW s \in Seq(Char)
  PROVE  Shown(s) \in Seq(Char)
<1>1. Len(s) \in 0 .. Len(s)
  OBVIOUS
<1> QED
  BY <1>1, SeenDef DEF Shown, NormalizerTotal

\* Making a claim signs the content as it is; the content and the other claims
\* stay, and every claim that verifies then is for that content.
LEMMA ClaimSigns ==
  ASSUME IInv, IInv', AcceptedShown', NEW alg \in Algorithms,
         ComputeClaim(alg) \/ SelectWrapper(alg)
  PROVE  Promise!Sign
<1>1. Text' = Text
  BY DEF ComputeClaim, SelectWrapper, Text
<1>2. PICK c : /\ claims' = claims \cup {c}
               /\ c.shown = Shown(Text)
               /\ IsOk(VerifyDataHash(Text, c.binding))
  BY ClaimMade DEF IInv
<1>3. c \in accepted'
  BY <1>1, <1>2 DEF IInv, AcceptedNow, Verifying
<1>4. \A a \in accepted' : a.shown = Shown(Text)'
  BY DEF AcceptedShown
<1>5. {a.shown : a \in accepted'} = {Shown(Text)}
  BY <1>1, <1>2, <1>3, <1>4
<1>6. {a.shown : a \in claims'} = {a.shown : a \in claims} \cup {Shown(Text)}
  BY <1>2
<1> QED
  BY <1>1, <1>5, <1>6 DEF Promise!Sign

\* Whatever else happens leaves the claims, and of those only the ones made for
\* what is then seen verify.
LEMMA OtherChanges ==
  ASSUME NormalizerTotal, IInv', AcceptedShown', UNCHANGED claims
  PROVE  Promise!Change
<1>1. Text' \in Seq(Char)
  <2>1. PartsOK'
    BY DEF IInv
  <2> QED
    BY <2>1, ConcatTyped DEF PartsOK, Text
<1>2. Shown(Text)' \in Seq(Char)
  BY <1>1, ShownTyped
<1>3. {c.shown : c \in claims'} = {c.shown : c \in claims}
  OBVIOUS
<1>4. {c.shown : c \in accepted'} \subseteq {c.shown : c \in claims} \cap {Shown(Text)'}
  BY DEF AcceptedShown
<1> QED
  BY <1>2, <1>3, <1>4 DEF Promise!Change

\* The hard binding does what it promises: an asset implements ContentBinding.
THEOREM BindingHolds ==
  ASSUME NormalizerTotal, NormalizerKeepsShown(Seq(Char))
  PROVE  Spec /\ []NoCollision => BindsContent
<1>1. Init => Promise!Init
  <2> SUFFICES ASSUME Init
               PROVE  Promise!Init
    OBVIOUS
  <2>1. Text \in Seq(Char)
    BY InitInv, TextTyped DEF IInv
  <2> QED
    BY <2>1, ShownTyped DEF Init, Promise!Init
<1>2. IInv /\ NoCollision => AcceptedShown
  BY AcceptedAreShown
<1>3. IInv /\ IInv' /\ AcceptedShown' /\ [Next]_vars => [Promise!Next]_(Promise!cvars)
  <2> SUFFICES ASSUME IInv, IInv', AcceptedShown', [Next]_vars
               PROVE  [Promise!Next]_(Promise!cvars)
    OBVIOUS
  <2>1. ASSUME NEW alg \in Algorithms, ComputeClaim(alg) \/ SelectWrapper(alg)
        PROVE  Promise!Next
    BY <2>1, ClaimSigns DEF Promise!Next
  <2>2. CASE UNCHANGED claims
    BY <2>2, OtherChanges DEF Promise!Next
  <2>3. CASE UNCHANGED vars
    BY <2>2, <2>3 DEF vars
  <2>4. ASSUME NEW p \in Payloads, \/ EmbedManifest(p) \/ EmbedPlaceholder(p)
                                   \/ FinaliseManifest(p) \/ AccreteManifest(p)
        PROVE  UNCHANGED claims
    BY <2>4 DEF EmbedManifest, EmbedPlaceholder, FinaliseManifest, AccreteManifest
  <2>5. CASE StripManifest \/ EditBefore \/ EditAfter \/ Normalise \/ Mangle
    BY <2>2, <2>5 DEF StripManifest, EditBefore, EditAfter, Normalise, Mangle
  <2> QED
    BY <2>1, <2>2, <2>3, <2>4, <2>5 DEF Next
<1> QED
  BY <1>1, <1>2, <1>3, Invariance, PTL DEF Spec, BindsContent, Promise!Spec

\* A manifest of the size of the placeholder takes its place byte for byte: the
\* claims that verified still do.
LEMMA FinaliseKeeps ==
  ASSUME IInv, NEW p \in Payloads, FinaliseManifest(p),
         ~mangled, Ok(carrier) = EncodePadded(payload)
  PROVE  accepted \subseteq accepted'
<1>1. /\ before \in Seq(Char) /\ carrier \in Seq(Char) /\ payload \in Seq(Byte)
      /\ IsFrame(carrier, payload) /\ IsOk(Extract(Text))
  BY DEF IInv, PartsOK, CarrierFramed, FinaliseManifest
<1>2. /\ p \in Seq(Byte) /\ IsFrame(carrier', p) /\ carrier' \in Seq(Char)
      /\ FitsLength(Len(p)) /\ TargetLength(Len(p)) <= USIZE_MAX
      /\ carrier' = EncodePadded(p).ok
  <2>1. IsOk(EncodePadded(p)) /\ carrier' = EncodePadded(p).ok
    BY DEF FinaliseManifest
  <2>2. p \in Seq(Byte)
    BY AssetAssumption
  <2> QED
    BY <2>1, <2>2, EmbeddedFrame, FrameMarked
<1>3. ByteLen(carrier') = ByteLen(carrier)
  <2>1. FitsLength(Len(payload)) /\ Len(p) = Len(payload)
    BY <1>1 DEF IsFrame, FinaliseManifest
  <2>2. EncodePadded(payload).ok = carrier
    BY OkOrErr
  <2>3. TargetLength(Len(payload)) <= USIZE_MAX
    BY <1>2, <2>1
  <2> QED
    BY <1>1, <1>2, <2>1, <2>2, <2>3, PaddedLength
<1>4. Text = before \o carrier /\ Text \in Seq(Char)
  BY <1>1, AtEnd DEF Text, FinaliseManifest
<1>5. ~Occurs(Signature, before)
  BY <1>1, <1>4, FrameAlone
<1>6. PICK w : /\ Extract(Text) = Ok(w)
               /\ LocateAll(Text) = {w}
               /\ w.start = ByteLen(before)
               /\ w.length = ByteLen(carrier)
               /\ Without(Text, w) = before
  BY <1>1, <1>4, <1>5, TrailingFrame
<1>7. before' = before /\ after' = <<>> /\ claims' = claims
  <2>1. Extract(Text).ok = w
    BY <1>6, OkOrErr
  <2> QED
    BY <1>6, <2>1 DEF FinaliseManifest, Without
<1>8. Text' = before \o carrier' /\ Text' \in Seq(Char)
  BY <1>1, <1>2, <1>7, AtEnd DEF Text
<1>9. PICK x : /\ LocateAll(Text') = {x}
               /\ ~HasCorruptedCandidate(Text')
               /\ x.start = ByteLen(before)
               /\ x.length = ByteLen(carrier')
               /\ Without(Text', x) = before
  <2>1. PICK c : c = carrier'
    OBVIOUS
  <2>2. IsFrame(c, p) /\ Text' = before \o c
    BY <1>2, <1>8, <2>1
  <2>3. \E x : /\ LocateAll(before \o c) = {x}
               /\ ~HasCorruptedCandidate(before \o c)
               /\ x.start = ByteLen(before)
               /\ x.length = ByteLen(c)
               /\ Without(before \o c, x) = before
    BY <1>1, <1>2, <1>5, <2>2, TrailingFrame
  <2> QED
    BY <2>1, <2>2, <2>3
<1>10. RangeOf(x) = RangeOf(w) /\ WrapperEnd(x) = WrapperEnd(w)
  BY <1>3, <1>6, <1>9 DEF RangeOf, WrapperEnd
<1>11. ASSUME NEW c \in accepted
       PROVE  c \in accepted'
  <2> DEFINE d == c.binding
  <2>1. c \in claims /\ IsOk(VerifyDataHash(Text, d))
    BY DEF IInv, AcceptedNow, Verifying
  <2>2. d.exclusions \in Seq([start : Nat, length : Nat])
    BY <2>1 DEF IInv, ClaimsOK, ClaimOK
  <2> HIDE DEF d
  <2>3. /\ d.alg \in AlgorithmIds
        /\ WrapperEnd(w) <= USIZE_MAX
        /\ d.exclusions = <<RangeOf(w)>>
        /\ Digest(d.alg, Nfc(before)) = d.hash
    BY <1>4, <1>6, <2>1, <2>2, VerifiesExactly
  <2>4. IsOk(VerifyDataHash(Text', d))
    <3>1. \E v \in LocateAll(Text') :
            /\ WrapperEnd(v) <= USIZE_MAX
            /\ d.exclusions = <<RangeOf(v)>>
            /\ Digest(d.alg, Nfc(Without(Text', v))) = d.hash
      BY <1>9, <1>10, <2>3
    <3> QED
      BY <1>8, <1>9, <2>2, <2>3, <3>1, VerifiesExactly
  <2>5. accepted' = Verifying(Text', claims')
    BY DEF FinaliseManifest, Validate
  <2> QED
    BY <1>7, <2>1, <2>4, <2>5 DEF Verifying, d
<1> QED
  BY <1>11

\* The placeholder breaks the cycle of a manifest that contains its own exclusion
\* length.
THEOREM FinaliseIsSafe ==
  ASSUME NormalizerTotal
  PROVE  Spec => FinaliseKeepsClaims
<1>1. IInv /\ [Next]_vars =>
        (~mangled /\ Ok(carrier) = EncodePadded(payload)
           /\ (\E p \in Payloads : FinaliseManifest(p)) => accepted \subseteq accepted')
  BY FinaliseKeeps
<1> QED
  BY <1>1, Invariance, PTL DEF Spec, FinaliseKeepsClaims

-----------------------------------------------------------------------------
(* What the version 2 search answers *)

\* Errors are told apart by their codes.
LEMMA ErrInjective ==
  ASSUME NEW d, NEW e, Err(d) = Err(e)
  PROVE  d = e
<1>1. Err(d).err = d /\ Err(e).err = e
  BY DEF Err
<1> QED
  BY <1>1

\* The wrapper of the marker at index i, if a version 2 frame decodes there.
WrapperV2At(text, i) ==
  LET v == VisitAt(text, i)
  IN  [payload |-> SubSeq(v.run, HEADER_LEN + 1, BodyEnd(v.run)),
       version |-> VERSION_V2,
       start   |-> v.start,
       length  |-> v.length]

\* The wrappers the version 2 search locates are those of the markers behind
\* which a frame of that version decodes.
LEMMA LocatedV2At ==
  ASSUME NEW text \in Seq(Char), NEW w
  PROVE  w \in ValidV2(text) <=>
           \E i \in 1 .. Len(text) :
             text[i] = MARKER /\ DecodesV2(VisitAt(text, i).run) /\ w = WrapperV2At(text, i)
<1>1. ASSUME NEW i \in 1 .. Len(text)
      PROVE  LET v == VisitAt(text, i)
             IN  w \in DecodeV2(v.run, v.start, v.length) <=>
                   DecodesV2(v.run) /\ w = WrapperV2At(text, i)
  BY DEF DecodeV2, WrapperV2At
<1>2. w \in ValidV2(text) <=>
        \E i \in 1 .. Len(text) :
          /\ text[i] = MARKER
          /\ LET v == VisitAt(text, i) IN w \in DecodeV2(v.run, v.start, v.length)
  BY DEF ValidV2, Scan
<1> QED
  BY <1>1, <1>2

\* A run that decodes as version 2, or panics, has the magic, and no frame of
\* version 1 decodes from it.
LEMMA V2Runs ==
  ASSUME NEW v, IsV2(v.run)
  PROVE  HasMagic(v.run) /\ DecodeFrame(v.run, v.start, v.length) = {}
<1>1. VERSION # VERSION_V2
  BY DEF VERSION, VERSION_V2
<1> QED
  BY <1>1 DEF IsV2, HasBounds, DecodeFrame, Decodes

\* So a text with a version 2 wrapper has a candidate that version 1 rejects.
LEMMA V2IsCorrupted ==
  ASSUME NEW text, ValidV2(text) # {}
  PROVE  HasCorruptedCandidate(text)
<1>1. PICK v \in Scan(text) : DecodesV2(v.run)
  BY DEF ValidV2, DecodeV2
<1>2. HasMagic(v.run) /\ DecodeFrame(v.run, v.start, v.length) = {}
  BY <1>1, V2Runs DEF DecodesV2
<1> QED
  BY <1>2 DEF HasCorruptedCandidate

\* The cases of v2::extract, in their order.
LEMMA V2Cases ==
  ASSUME NEW text
  PROVE  LET found  == ValidV2(text)
             panics == \E v \in Scan(text) : Overflows(v.run)
         IN  /\ panics => ExtractV2(text) = Panic
             /\ ~panics =>
                  /\ \A w : found = {w} => ExtractV2(text) = Ok(w)
                  /\ (found # {} /\ ~(\E w \in found : found = {w})) =>
                       ExtractV2(text) = Err("MultipleWrappers")
                  /\ found = {} =>
                       ExtractV2(text) = IF HasCandidate(text) THEN Err("CorruptedWrapper")
                                                               ELSE Err("NotFound")
<1> DEFINE found  == ValidV2(text)
           panics == \E v \in Scan(text) : Overflows(v.run)
<1>1. ASSUME NEW w, found = {w}
      PROVE  (CHOOSE u \in found : TRUE) = w /\ \E u \in found : found = {u}
  BY <1>1
<1>2. panics => LocateAllV2(text) = Panic
  BY DEF LocateAllV2
<1>3. ~panics => LocateAllV2(text) # Panic /\ LocateAllV2(text).ok = found
  BY OkOrErr, PanicIsNoResult DEF LocateAllV2
<1> HIDE DEF found, panics
<1>4. panics => ExtractV2(text) = Panic
  BY <1>2 DEF ExtractV2
<1>5. ~panics =>
        ExtractV2(text) =
          IF \E w \in found : found = {w} THEN Ok(CHOOSE w \in found : TRUE)
          ELSE IF found # {} THEN Err("MultipleWrappers")
          ELSE IF HasCandidate(text) THEN Err("CorruptedWrapper")
          ELSE Err("NotFound")
  BY <1>3 DEF ExtractV2
<1>6. ~panics =>
        /\ \A w : found = {w} => ExtractV2(text) = Ok(w)
        /\ (found # {} /\ ~(\E w \in found : found = {w})) =>
             ExtractV2(text) = Err("MultipleWrappers")
        /\ found = {} =>
             ExtractV2(text) = IF HasCandidate(text) THEN Err("CorruptedWrapper")
                                                     ELSE Err("NotFound")
  BY <1>1, <1>5
<1> QED
  BY <1>4, <1>6 DEF found, panics

\* A candidate is a stored signature.
LEMMA CandidateIffSignature ==
  ASSUME NEW text \in Seq(Char)
  PROVE  HasCandidate(text) <=> Occurs(Signature, text)
<1>1. Extract(text) = Err("NotFound") <=> ~HasCandidate(text)
  BY NotFoundIffNoMagic DEF HasCandidate
<1> QED
  BY <1>1, NotFoundIffNoSignature

\* v2::extract says NotFound exactly for a text without a signature.
LEMMA V2NotFoundIffNoSignature ==
  ASSUME NEW text \in Seq(Char)
  PROVE  ExtractV2(text) = Err("NotFound") <=> ~Occurs(Signature, text)
<1>1. HasCandidate(text) <=> Occurs(Signature, text)
  BY CandidateIffSignature
<1>2. (\E v \in Scan(text) : Overflows(v.run)) => HasCandidate(text)
  BY V2Runs DEF HasCandidate, Overflows
<1>3. ValidV2(text) # {} => HasCandidate(text)
  <2>1. HasCorruptedCandidate(text) => HasCandidate(text)
    BY DEF HasCorruptedCandidate, HasCandidate
  <2> QED
    BY <2>1, V2IsCorrupted
<1>4. CASE HasCandidate(text)
  <2>1. Panic # Err("NotFound")
    BY PanicIsNoResult
  <2>2. \A w : Ok(w) # Err("NotFound")
    BY OkOrErr
  <2>3. Err("MultipleWrappers") # Err("NotFound") /\ Err("CorruptedWrapper") # Err("NotFound")
    BY ErrInjective
  <2>4. ExtractV2(text) # Err("NotFound")
    BY <1>4, <2>1, <2>2, <2>3, V2Cases
  <2> QED
    BY <1>1, <1>4, <2>4
<1>5. CASE ~HasCandidate(text)
  <2>1. ExtractV2(text) = Err("NotFound")
    BY <1>2, <1>3, <1>5, V2Cases
  <2> QED
    BY <1>1, <1>5, <2>1
<1> QED
  BY <1>4, <1>5

\* So does extract_any.
LEMMA AnyNotFoundIffNoSignature ==
  ASSUME NEW text \in Seq(Char)
  PROVE  ExtractAny(text) = Err("NotFound") <=> ~Occurs(Signature, text)
<1>1. ExtractAny(text) = Extract(text) \/ ExtractAny(text) = ExtractV2(text)
  BY DEF ExtractAny
<1>2. ExtractV2(text) = Err("NotFound") => ExtractAny(text) = Extract(text)
  BY DEF ExtractAny
<1>3. Extract(text) = Err("NotFound") <=> ~Occurs(Signature, text)
  BY NotFoundIffNoSignature
<1>4. ExtractV2(text) = Err("NotFound") <=> ~Occurs(Signature, text)
  BY V2NotFoundIffNoSignature
<1> QED
  BY <1>1, <1>2, <1>3, <1>4

\* What extract_any returns is the one wrapper of the version it is of.
LEMMA AnyReturns ==
  ASSUME NEW text \in Seq(Char), IsOk(ExtractAny(text))
  PROVE  LET w == ExtractAny(text).ok
         IN  \/ /\ IsOk(Extract(text)) /\ w = Extract(text).ok
                /\ w.version = VERSION
             \/ /\ ValidV2(text) = {w}
                /\ w.version = VERSION_V2
<1>1. CASE IsOk(Extract(text))
  <2>1. ExtractAny(text) = Extract(text)
    BY <1>1 DEF ExtractAny
  <2>2. Extract(text).ok \in LocateAll(text)
    BY <1>1, ExtractedIsLocated
  <2>3. Extract(text).ok.version = VERSION
    BY <2>2, LocatedAt DEF WrapperAt
  <2> QED
    BY <1>1, <2>1, <2>3
<1>2. CASE ~IsOk(Extract(text))
  <2> DEFINE found == ValidV2(text)
  <2>1. ExtractAny(text) = ExtractV2(text) /\ IsOk(ExtractV2(text))
    BY <1>2 DEF ExtractAny
  <2>2. \E w \in found : found = {w}
    <3>1. \A e : ~IsOk(Err(e))
      BY OkOrErr
    <3>2. ~IsOk(Panic)
      BY PanicIsNoResult
    <3> QED
      BY <2>1, <3>1, <3>2, V2Cases
  <2>3. PICK w \in found : found = {w}
    BY <2>2
  <2>4. ExtractV2(text) = Ok(w)
    <3>1. ~(\E v \in Scan(text) : Overflows(v.run))
      BY <2>1, PanicIsNoResult, V2Cases
    <3> QED
      BY <2>3, <3>1, V2Cases
  <2>5. ExtractAny(text).ok = w
    BY <2>1, <2>4, OkOrErr
  <2>6. w.version = VERSION_V2
    BY <2>3, LocatedV2At DEF WrapperV2At
  <2> QED
    BY <2>3, <2>5, <2>6
<1> QED
  BY <1>1, <1>2

-----------------------------------------------------------------------------
(* A text without a version 2 wrapper *)

\* A located version 2 wrapper is a marker and selectors; without it the text is
\* what stands in front of the marker and what stands behind the run, in which
\* no other wrapper of that version has appeared.
LEMMA StripV2 ==
  ASSUME NEW text \in Seq(Char), NEW w, ValidV2(text) = {w}
  PROVE  LET rest == Strip(text, w.start, WrapperEnd(w))
         IN  /\ IsOk(rest)
             /\ Shown(rest.ok) = Shown(text)
             /\ ValidV2(rest.ok) = {}
<1>1. PICK i \in 1 .. Len(text) :
        text[i] = MARKER /\ DecodesV2(VisitAt(text, i).run) /\ w = WrapperV2At(text, i)
  BY LocatedV2At
<1> DEFINE n     == LastOf(text, i)
           front == SubSeq(text, 1, i - 1)
           back  == SubSeq(text, n + 1, Len(text))
<1>2. /\ n \in i .. Len(text)
      /\ \A j \in i + 1 .. n : IsVs(text[j])
      /\ w.start = Offset(text, i - 1)
      /\ w.start + w.length = Offset(text, n)
  <2>1. w.start = VisitAt(text, i).start /\ w.length = VisitAt(text, i).length
    BY <1>1 DEF WrapperV2At
  <2> QED
    BY <1>1, <2>1, VisitAtProperties
<1> HIDE DEF n
<1>3. n \in 1 .. Len(text) /\ i <= n
  BY <1>2
<1>4. Strip(text, w.start, WrapperEnd(w)) = Ok(front \o back)
  BY <1>2, <1>3, StripCharacters DEF WrapperEnd
<1>5. ValidV2(front \o back) = {}
  <2>1. ASSUME NEW v \in Scan(front \o back), DecodesV2(v.run)
        PROVE  FALSE
    <3>1. PICK k \in 1 .. Len(text) :
            k # i /\ text[k] = MARKER /\ VisitAt(text, k).run = v.run
      BY <1>1, <2>1, RunsOfRest DEF n
    <3>2. WrapperV2At(text, k) \in ValidV2(text)
      BY <2>1, <3>1, LocatedV2At
    <3>3. WrapperV2At(text, k).start = w.start
      BY <3>2
    <3>4. Offset(text, k - 1) = Offset(text, i - 1)
      BY <1>2, <3>1, <3>3, VisitAtProperties DEF WrapperV2At
    <3>5. k - 1 \in 0 .. Len(text) /\ i - 1 \in 0 .. Len(text)
      OBVIOUS
    <3>6. k - 1 = i - 1
      BY <3>4, <3>5, OffsetInjective
    <3> QED
      BY <3>1, <3>6
  <2>2. \A v \in Scan(front \o back) : DecodeV2(v.run, v.start, v.length) = {}
    BY <2>1 DEF DecodeV2
  <2> QED
    BY <2>2 DEF ValidV2
<1>6. Shown(front \o back) = Shown(text)
  BY <1>1, <1>2, <1>3, RangeUnseen
<1> QED
  BY <1>4, <1>5, <1>6, OkOrErr

-----------------------------------------------------------------------------
(* A version 2 frame *)

\* c is what a generator that opted in embeds for the manifest p.
IsFrameV2(c, p) ==
  /\ FitsLength(Len(p))
  /\ HEADER_LEN + Len(p) + CHECKSUM_LEN <= USIZE_MAX
  /\ c = Carry(FramedV2(p))

\* The addition that ends the body of such a frame does not overflow either.
LEMMA FrameV2Fits ==
  ASSUME NEW p \in Seq(Byte), HEADER_LEN + Len(p) + CHECKSUM_LEN <= USIZE_MAX
  PROVE  HEADER_LEN + Len(p) <= USIZE_MAX
<1>1. HEADER_LEN \in Nat /\ Len(p) \in Nat /\ CHECKSUM_LEN = 4 /\ USIZE_MAX \in Nat
  BY WidthAssumption, MagicProperties DEF HEADER_LEN, CHECKSUM_LEN
<1> QED
  BY <1>1

\* The header and the body are laid out as in version 1, and four bytes follow.
LEMMA FramedV2Elements ==
  ASSUME ChecksumsWhole(Seq(Byte)), NEW p \in Seq(Byte)
  PROVE  LET head == HeaderAndBody(p)
             sum  == Checksum(head)
         IN  /\ head \in Seq(Byte)
             /\ Len(head) = HEADER_LEN + Len(p)
             /\ \A j \in 1 .. Len(head) : head[j] = LaidOut(VERSION_V2, p, <<>>)[j]
             /\ sum \in Seq(Byte)
             /\ Len(sum) = CHECKSUM_LEN
             /\ FramedV2(p) \in Seq(Byte)
             /\ Len(FramedV2(p)) = Len(head) + Len(sum)
             /\ \A j \in 1 .. Len(head) : FramedV2(p)[j] = head[j]
             /\ \A j \in 1 .. Len(sum) : FramedV2(p)[Len(head) + j] = sum[j]
<1> DEFINE head == HeaderAndBody(p)
           sum  == Checksum(head)
           none == <<>>
<1>1. VERSION_V2 \in Byte /\ none \in Seq(Byte) /\ Len(none) = 0
  BY DEF VERSION_V2, Byte
<1>2. IsLaidOut(LaidOut(VERSION_V2, p, none), VERSION_V2, p, none)
  <2> HIDE DEF none
  <2> QED
    BY <1>1, LaidOutElements
<1>3. LaidOut(VERSION_V2, p, none) = head \o none
  BY DEF LaidOut, HeaderAndBody
<1>4. head \in Seq(Byte)
  <2>1. LENGTH_BYTES \in Nat /\ Len(p) \in Nat
    BY WidthAssumption
  <2>2. MAGIC \in Seq(Byte) /\ <<VERSION_V2>> \in Seq(Byte) /\ ToBeBytes(Len(p)) \in Seq(Byte)
    BY <1>1, <2>1, MagicProperties, ToBeBytesTyped
  <2> QED
    BY <2>2, ConcatBytes DEF HeaderAndBody
<1> HIDE DEF head
<1>5. head \o none = head
  BY <1>4
<1>6. head = LaidOut(VERSION_V2, p, none) /\ Len(head) = HEADER_LEN + Len(p)
  <2>1. Len(head) = HEADER_LEN + Len(p) + Len(none)
    BY <1>2, <1>3, <1>5 DEF IsLaidOut
  <2>2. HEADER_LEN + Len(p) \in Nat
    BY WidthAssumption, MagicProperties DEF HEADER_LEN
  <2> QED
    BY <1>1, <1>3, <1>5, <2>1, <2>2
<1>7. sum \in Seq(Byte) /\ Len(sum) = CHECKSUM_LEN
  <2> DEFINE d == Digest("sha256", head)
  <2>1. d \in Seq(Byte) /\ Len(d) >= CHECKSUM_LEN
    BY <1>4 DEF ChecksumsWhole
  <2> HIDE DEF d
  <2>2. 1 \in 1 .. Len(d) + 1 /\ CHECKSUM_LEN \in 1 - 1 .. Len(d) /\ CHECKSUM_LEN - 1 + 1 = CHECKSUM_LEN
    BY <2>1 DEF CHECKSUM_LEN
  <2>3. SubSeq(d, 1, CHECKSUM_LEN) \in Seq(Byte) /\ Len(SubSeq(d, 1, CHECKSUM_LEN)) = CHECKSUM_LEN
    BY <2>1, <2>2, PartProperties
  <2> QED
    BY <2>3 DEF Checksum, d
<1> HIDE DEF sum
<1>8. /\ head \o sum \in Seq(Byte)
      /\ Len(head \o sum) = Len(head) + Len(sum)
      /\ \A j \in 1 .. Len(head) : (head \o sum)[j] = head[j]
      /\ \A j \in 1 .. Len(sum) : (head \o sum)[Len(head) + j] = sum[j]
  BY <1>4, <1>7, JoinProperties
<1>9. FramedV2(p) = head \o sum
  BY DEF FramedV2, head, sum
<1> QED
  BY <1>4, <1>6, <1>7, <1>8, <1>9 DEF head, sum, none

\* A run that begins with a version 2 frame decodes to what was framed.
LEMMA FrameV2Decodes ==
  ASSUME ChecksumsWhole(Seq(Byte)), NEW p \in Seq(Byte),
         FitsLength(Len(p)), HEADER_LEN + Len(p) <= USIZE_MAX,
         NEW run \in Seq(Byte), Len(run) >= Len(FramedV2(p)),
         \A j \in 1 .. Len(FramedV2(p)) : run[j] = FramedV2(p)[j]
  PROVE  /\ DecodesV2(run)
         /\ SubSeq(run, HEADER_LEN + 1, BodyEnd(run)) = p
         /\ BodyEnd(run) = HEADER_LEN + Len(p)
<1> DEFINE head   == HeaderAndBody(p)
           sum    == Checksum(head)
           framed == FramedV2(p)
           m      == HEADER_LEN + Len(p)
<1>1. /\ head \in Seq(Byte)
      /\ Len(head) = m
      /\ \A j \in 1 .. Len(head) : head[j] = LaidOut(VERSION_V2, p, <<>>)[j]
      /\ sum \in Seq(Byte)
      /\ Len(sum) = CHECKSUM_LEN
      /\ Len(framed) = Len(head) + Len(sum)
      /\ \A j \in 1 .. Len(head) : framed[j] = head[j]
      /\ \A j \in 1 .. Len(sum) : framed[Len(head) + j] = sum[j]
  BY FramedV2Elements
<1>2. m \in Nat /\ CHECKSUM_LEN \in Nat /\ Len(run) \in Nat
  BY WidthAssumption, MagicProperties DEF HEADER_LEN, CHECKSUM_LEN
<1>3. Len(run) >= Len(framed) /\ \A j \in 1 .. Len(framed) : run[j] = framed[j]
  OBVIOUS
<1> HIDE DEF head, sum, framed
<1>4. /\ Len(run) >= m + CHECKSUM_LEN
      /\ \A j \in 1 .. m : run[j] = head[j]
      /\ \A j \in 1 .. CHECKSUM_LEN : run[m + j] = sum[j]
  <2> HIDE DEF m
  <2>1. Len(framed) = m + CHECKSUM_LEN /\ Len(run) >= m + CHECKSUM_LEN
    BY <1>1, <1>3
  <2>2. \A j \in 1 .. m : run[j] = head[j]
    <3> TAKE j \in 1 .. m
    <3>1. j \in 1 .. Len(framed)
      BY <1>2, <2>1
    <3> QED
      BY <1>1, <1>3, <3>1
  <2>3. \A j \in 1 .. CHECKSUM_LEN : run[m + j] = sum[j]
    <3> TAKE j \in 1 .. CHECKSUM_LEN
    <3>1. m + j \in 1 .. Len(framed)
      BY <1>2, <2>1
    <3> QED
      BY <1>1, <1>3, <3>1
  <2> QED
    BY <2>1, <2>2, <2>3
<1>5. /\ HasBounds(run)
      /\ run[Len(MAGIC) + 1] = VERSION_V2
      /\ BodyEnd(run) = m
      /\ SubSeq(run, HEADER_LEN + 1, BodyEnd(run)) = p
  <2>1. VERSION_V2 \in Byte
    BY DEF VERSION_V2, Byte
  <2>2. Len(run) >= HEADER_LEN + Len(p)
    BY <1>2, <1>4
  <2>3. \A j \in 1 .. HEADER_LEN + Len(p) : run[j] = LaidOut(VERSION_V2, p, <<>>)[j]
    BY <1>1, <1>4
  <2> QED
    BY <2>1, <2>2, <2>3, LaidOutReads
<1>5a. BodyEnd(run) = HEADER_LEN + Len(p)
  BY <1>5
<1> HIDE DEF m
<1>6. SubSeq(run, 1, m) = head
  <2>1. 1 \in 1 .. Len(run) + 1 /\ m \in 1 - 1 .. Len(run) /\ m - 1 + 1 = m
    BY <1>2, <1>4
  <2>2. /\ SubSeq(run, 1, m) \in Seq(Byte) /\ Len(SubSeq(run, 1, m)) = m
        /\ \A k \in 1 .. m : SubSeq(run, 1, m)[k] = run[1 + k - 1]
    BY <2>1, PartProperties
  <2>3. \A k \in 1 .. m : SubSeq(run, 1, m)[k] = head[k]
    <3> TAKE k \in 1 .. m
    <3>1. 1 + k - 1 = k
      BY <1>2
    <3> QED
      BY <1>4, <2>2, <3>1
  <2> QED
    BY <1>1, <2>2, <2>3, SeqEqual
<1>7. SubSeq(run, m + 1, m + CHECKSUM_LEN) = sum
  <2>1. /\ m + 1 \in 1 .. Len(run) + 1 /\ m + CHECKSUM_LEN \in (m + 1) - 1 .. Len(run)
        /\ (m + CHECKSUM_LEN) - (m + 1) + 1 = CHECKSUM_LEN
    BY <1>2, <1>4
  <2> DEFINE t == SubSeq(run, m + 1, m + CHECKSUM_LEN)
  <2>2. /\ t \in Seq(Byte) /\ Len(t) = CHECKSUM_LEN
        /\ \A k \in 1 .. CHECKSUM_LEN : t[k] = run[(m + 1) + k - 1]
    BY <2>1, PartProperties
  <2> HIDE DEF t
  <2>3. \A k \in 1 .. CHECKSUM_LEN : t[k] = sum[k]
    <3> TAKE k \in 1 .. CHECKSUM_LEN
    <3>1. (m + 1) + k - 1 = m + k
      BY <1>2
    <3> QED
      BY <1>4, <2>2, <3>1
  <2>4. t = sum
    BY <1>1, <2>2, <2>3, SeqEqual
  <2> QED
    BY <2>4 DEF t
<1>8. DecodesV2(run)
  <2>1. Checksum(SubSeq(run, 1, BodyEnd(run))) = sum
    BY <1>5, <1>6 DEF sum
  <2> QED
    BY <1>4, <1>5, <1>7, <2>1 DEF DecodesV2, IsV2
<1> QED
  BY <1>5, <1>5a, <1>8

\* A carrier of version 2 is a text.
LEMMA FrameV2Typed ==
  ASSUME ChecksumsWhole(Seq(Byte)), NEW p \in Seq(Byte)
  PROVE  Carry(FramedV2(p)) \in Seq(Char)
<1>1. FramedV2(p) \in Seq(Byte)
  BY FramedV2Elements
<1> QED
  BY <1>1, CarryShape

\* Between texts without a signature, a carrier of version 2 is the only
\* candidate, and the search answers.
LEMMA SoleFrameV2 ==
  ASSUME ChecksumsWhole(Seq(Byte)),
         NEW b \in Seq(Char), NEW a \in Seq(Char), NEW p \in Seq(Byte),
         NEW c, IsFrameV2(c, p),
         ~Occurs(Signature, b), ~Occurs(Signature, a)
  PROVE  LET w == WrapperV2At(b \o c \o a, Len(b) + 1)
         IN  /\ ExtractV2(b \o c \o a) = Ok(w)
             /\ ExtractAny(b \o c \o a) = Ok(w)
             /\ w.payload = p
             /\ w.start = ByteLen(b)
             /\ w.length >= ByteLen(c)
<1> DEFINE framed == FramedV2(p)
           text   == b \o Carry(framed) \o a
           i      == Len(b) + 1
           v      == VisitAt(text, i)
           w      == WrapperV2At(text, i)
<1>1. /\ FitsLength(Len(p)) /\ HEADER_LEN + Len(p) <= USIZE_MAX /\ c = Carry(framed)
      /\ HEADER_LEN + Len(p) + CHECKSUM_LEN <= USIZE_MAX
  BY FrameV2Fits DEF IsFrameV2
<1>2. framed \in Seq(Byte)
  BY FramedV2Elements
<1>3. CarriedAt(b, framed, a)
  <2> HIDE DEF framed
  <2> QED
    BY <1>2, CarriedRun
<1>4. /\ text \in Seq(Char) /\ i \in 1 .. Len(text) /\ text[i] = MARKER
      /\ v.run \in Seq(Byte) /\ Len(v.run) >= Len(framed)
      /\ \A j \in 1 .. Len(framed) : v.run[j] = framed[j]
      /\ v.start = ByteLen(b) /\ v.length >= ByteLen(Carry(framed))
  BY <1>3 DEF CarriedAt
<1>5. ASSUME NEW u \in Scan(text), HasMagic(u.run)
      PROVE  u = v
  <2>1. u \in Scan(b \o Carry(framed) \o a)
    BY <1>5
  <2>2. \/ u = VisitAt(b \o Carry(framed) \o a, Len(b) + 1)
        \/ \E x \in Scan(b) \cup Scan(a) : x.run = u.run
    <3> HIDE DEF framed
    <3> QED
      BY <1>2, <2>1, RunsAround
  <2>3. ASSUME NEW x \in Scan(b) \cup Scan(a), x.run = u.run
        PROVE  FALSE
    <3>1. HasCandidate(b) \/ HasCandidate(a)
      BY <1>5, <2>3 DEF HasCandidate
    <3> QED
      BY <3>1, CandidateIffSignature
  <2> QED
    BY <2>2, <2>3
<1> HIDE DEF v
<1>6. /\ DecodesV2(v.run) /\ SubSeq(v.run, HEADER_LEN + 1, BodyEnd(v.run)) = p
      /\ BodyEnd(v.run) = HEADER_LEN + Len(p)
  BY <1>1, <1>4, FrameV2Decodes
<1> HIDE DEF framed, text, i
<1>7. ValidV2(text) = {w}
  <2>1. w \in ValidV2(text)
    BY <1>4, <1>6, LocatedV2At DEF v
  <2>2. ASSUME NEW x \in ValidV2(text)
        PROVE  x = w
    <3>1. PICK j \in 1 .. Len(text) :
            text[j] = MARKER /\ DecodesV2(VisitAt(text, j).run) /\ x = WrapperV2At(text, j)
      BY <1>4, LocatedV2At
    <3>2. VisitAt(text, j) \in Scan(text)
      BY <3>1 DEF Scan
    <3>3. VisitAt(text, j) = VisitAt(text, i)
      BY <1>5, <3>1, <3>2, V2Runs DEF v, DecodesV2
    <3> QED
      BY <3>1, <3>3 DEF WrapperV2At
  <2> QED
    BY <2>1, <2>2
<1>8. ExtractV2(text) = Ok(w)
  <2>1. ASSUME NEW u \in Scan(text), Overflows(u.run)
        PROVE  FALSE
    <3>1. u = v
      BY <1>5, <2>1, V2Runs DEF Overflows
    <3>2. BodyEnd(v.run) + CHECKSUM_LEN <= USIZE_MAX
      BY <1>1, <1>6
    <3>3. BodyEnd(v.run) \in Nat /\ CHECKSUM_LEN \in Nat /\ USIZE_MAX \in Nat
      BY <1>6, WidthAssumption, MagicProperties DEF HEADER_LEN, CHECKSUM_LEN
    <3> QED
      BY <2>1, <3>1, <3>2, <3>3 DEF Overflows
  <2> HIDE DEF w
  <2> QED
    BY <1>7, <2>1, V2Cases
<1>9. ExtractAny(text) = Ok(w)
  <2>1. HasCorruptedCandidate(text)
    BY <1>7, V2IsCorrupted
  <2>2. ~IsOk(Extract(text))
    BY <2>1, ExtractedIsLocated
  <2>3. Ok(w) # Err("NotFound")
    BY OkOrErr
  <2> QED
    BY <1>8, <2>2, <2>3 DEF ExtractAny
<1>10. w.payload = p /\ w.start = v.start /\ w.length = v.length
  BY <1>6 DEF WrapperV2At, v
<1> QED
  BY <1>1, <1>4, <1>8, <1>9, <1>10 DEF text, i

\* Among the bytes of a carrier, the only marker is its first character: what
\* stands around it cannot make a candidate start inside.
LEMMA OneMarkerInside ==
  ASSUME NEW b \in Seq(Char), NEW a \in Seq(Char), NEW framed \in Seq(Byte),
         NEW i \in 1 .. Len(b \o Carry(framed) \o a),
         (b \o Carry(framed) \o a)[i] = MARKER,
         Offset(b \o Carry(framed) \o a, i - 1)
           \in ByteLen(b) .. ByteLen(b \o Carry(framed)) - 1
  PROVE  i = Len(b) + 1
<1> DEFINE c    == Carry(framed)
           text == b \o c \o a
           n    == Len(b)
           m    == Len(b) + Len(c)
<1>1. /\ c \in Seq(Char)
      /\ Len(c) = Len(framed) + 1
      /\ \A j \in 1 .. Len(framed) : IsVs(c[j + 1])
  BY CarryShape
<1> HIDE DEF c
<1>2. /\ text \in Seq(Char)
      /\ Len(text) = Len(b) + Len(c) + Len(a)
      /\ \A k \in 1 .. Len(c) : text[Len(b) + k] = c[k]
  BY <1>1, ThreeParts
<1>3. /\ b \o c \in Seq(Char) /\ Len(b \o c) = m
      /\ n \in 0 .. Len(text) /\ m \in 0 .. Len(text) /\ i - 1 \in 0 .. Len(text)
      /\ i \in 1 .. Len(text) /\ Len(framed) \in Nat /\ n \in Nat /\ m \in Nat
  <2>1. b \o c \in Seq(Char) /\ Len(b \o c) = m
    BY <1>1, ConcatTexts
  <2>2. i \in 1 .. Len(text)
    BY DEF c
  <2>3. Len(b) \in Nat /\ Len(c) \in Nat /\ Len(a) \in Nat /\ Len(framed) \in Nat
    BY <1>1
  <2> QED
    BY <1>2, <2>1, <2>2, <2>3
<1>4. Offset(text, n) = ByteLen(b) /\ Offset(text, m) = ByteLen(b \o c)
  <2>1. SubSeq(b \o (c \o a), 1, Len(b)) = b
    BY <1>1, FrontOfConcat, ConcatTexts
  <2>2. SubSeq((b \o c) \o a, 1, Len(b \o c)) = b \o c
    BY <1>3, FrontOfConcat
  <2>3. text = b \o (c \o a)
    BY <1>1, JoinAssoc
  <2> QED
    BY <1>3, <2>1, <2>2, <2>3 DEF Offset
<1>5. Offset(text, n) <= Offset(text, i - 1) /\ Offset(text, i - 1) < Offset(text, m)
  <2>1. Offset(text, n) \in Nat /\ Offset(text, m) \in Nat /\ Offset(text, i - 1) \in Nat
    BY <1>2, <1>3, PositionsInOrder
  <2>2. Offset(text, i - 1) \in ByteLen(b) .. ByteLen(b \o c) - 1
    BY DEF c
  <2> QED
    BY <1>4, <2>1, <2>2
<1>6. n <= i - 1 /\ ~(m <= i - 1)
  <2>1. /\ Offset(text, n) <= Offset(text, i - 1) <=> n <= i - 1
        /\ Offset(text, m) <= Offset(text, i - 1) <=> m <= i - 1
    BY <1>2, <1>3, PositionsInOrder
  <2>2. Offset(text, m) \in Nat /\ Offset(text, i - 1) \in Nat
    BY <1>2, <1>3, PositionsInOrder
  <2> QED
    BY <1>5, <2>1, <2>2
<1> SUFFICES ASSUME i # n + 1
             PROVE  FALSE
  OBVIOUS
<1>7. PICK j \in 1 .. Len(framed) : i = n + (j + 1)
  <2>1. i - n - 1 \in 1 .. Len(framed) /\ i = n + ((i - n - 1) + 1)
    BY <1>1, <1>3, <1>6
  <2> QED
    BY <2>1
<1>8. text[i] = c[j + 1]
  <2>1. j + 1 \in 1 .. Len(c)
    BY <1>1, <1>3
  <2> QED
    BY <1>2, <1>7, <2>1
<1>9. text[i] = MARKER
  BY DEF c
<1> QED
  BY <1>1, <1>8, <1>9, MarkerProperties

\* A wrapper of version 2 that starts inside the frame of a payload is a frame of
\* that version and holds that payload, whatever stands around it.
LEMMA InsideFrame ==
  ASSUME ChecksumsWhole(Seq(Byte)),
         NEW b \in Seq(Char), NEW a \in Seq(Char), NEW p \in Seq(Byte), NEW c,
         NEW w \in ValidV2(b \o c \o a),
         w.start \in ByteLen(b) .. ByteLen(b \o c) - 1
  PROVE  /\ ~IsFrame(c, p)
         /\ IsFrameV2(c, p) => w.payload = p
<1>1. ASSUME NEW framed \in Seq(Byte), c = Carry(framed)
      PROVE  \E run \in Seq(Byte) :
               /\ DecodesV2(run)
               /\ w.payload = SubSeq(run, HEADER_LEN + 1, BodyEnd(run))
               /\ Len(run) >= Len(framed)
               /\ \A j \in 1 .. Len(framed) : run[j] = framed[j]
  <2> DEFINE text == b \o Carry(framed) \o a
  <2>1. CarriedAt(b, framed, a)
    BY CarriedRun
  <2>2. text \in Seq(Char)
    BY <2>1 DEF CarriedAt
  <2>3. w \in ValidV2(text) /\ w.start \in ByteLen(b) .. ByteLen(b \o Carry(framed)) - 1
    BY <1>1
  <2>4. PICK i \in 1 .. Len(text) :
          text[i] = MARKER /\ DecodesV2(VisitAt(text, i).run) /\ w = WrapperV2At(text, i)
    <3> HIDE DEF text
    <3> QED
      BY <2>2, <2>3, LocatedV2At
  <2>5. /\ w.start = Offset(text, i - 1)
        /\ w.payload = SubSeq(VisitAt(text, i).run, HEADER_LEN + 1, BodyEnd(VisitAt(text, i).run))
    <3> HIDE DEF text
    <3> QED
      BY <2>4 DEF WrapperV2At, VisitAt
  <2>6. i = Len(b) + 1
    BY <2>3, <2>4, <2>5, OneMarkerInside
  <2>7. /\ VisitAt(text, Len(b) + 1).run \in Seq(Byte)
        /\ Len(VisitAt(text, Len(b) + 1).run) >= Len(framed)
        /\ \A j \in 1 .. Len(framed) : VisitAt(text, Len(b) + 1).run[j] = framed[j]
    BY <2>1 DEF CarriedAt
  <2> HIDE DEF text
  <2> QED
    BY <2>4, <2>5, <2>6, <2>7
<1>2. ~IsFrame(c, p)
  <2> SUFFICES ASSUME IsFrame(c, p)
               PROVE  FALSE
    OBVIOUS
  <2>1. PICK pad \in Seq(Byte) : c = Carry(Framed(p, pad))
    BY DEF IsFrame
  <2> DEFINE framed == Framed(p, pad)
  <2>2. framed \in Seq(Byte) /\ Len(framed) >= 9 /\ framed[9] = VERSION
    BY CarrierShape, FramedElements
  <2>3. c = Carry(framed)
    BY <2>1
  <2> HIDE DEF framed
  <2>4. PICK run \in Seq(Byte) :
          DecodesV2(run) /\ \A j \in 1 .. Len(framed) : run[j] = framed[j]
    BY <1>1, <2>2, <2>3
  <2>5. 9 \in 1 .. Len(framed) /\ Len(MAGIC) + 1 = 9
    BY <2>2, MagicProperties
  <2>6. run[9] = VERSION /\ run[9] = VERSION_V2
    BY <2>2, <2>4, <2>5 DEF DecodesV2, IsV2
  <2> QED
    BY <2>6 DEF VERSION, VERSION_V2
<1>3. ASSUME IsFrameV2(c, p)
      PROVE  w.payload = p
  <2> DEFINE framed == FramedV2(p)
  <2>1. /\ FitsLength(Len(p)) /\ HEADER_LEN + Len(p) <= USIZE_MAX
        /\ c = Carry(framed) /\ framed \in Seq(Byte)
    BY <1>3, FramedV2Elements, FrameV2Fits DEF IsFrameV2
  <2>2. PICK run \in Seq(Byte) :
          /\ w.payload = SubSeq(run, HEADER_LEN + 1, BodyEnd(run))
          /\ Len(run) >= Len(framed)
          /\ \A j \in 1 .. Len(framed) : run[j] = framed[j]
    <3> HIDE DEF framed
    <3> QED
      BY <1>1, <2>1
  <2> QED
    BY <2>1, <2>2, FrameV2Decodes
<1> QED
  BY <1>2, <1>3

\* In a wide build nothing overflows.
LEMMA WideNeverOverflows ==
  ASSUME WideBuild, NEW run \in Seq(Byte)
  PROVE  ~Overflows(run)
<1> SUFFICES ASSUME Overflows(run)
             PROVE  FALSE
  OBVIOUS
<1> DEFINE field == SubSeq(run, 10, 9 + LENGTH_BYTES)
           n     == FromBeBytes(field)
<1>1. LENGTH_BYTES \in Nat /\ HEADER_LEN = 9 + LENGTH_BYTES /\ Len(MAGIC) = 8
  BY WidthAssumption, MagicProperties DEF HEADER_LEN
<1>2. Len(run) >= HEADER_LEN /\ BodyEnd(run) + CHECKSUM_LEN > USIZE_MAX
  BY DEF Overflows, IsV2, HasBounds
<1>3. field \in Seq(Byte) /\ Len(field) = LENGTH_BYTES
  <2>1. /\ 10 \in 1 .. Len(run) + 1 /\ 9 + LENGTH_BYTES \in 10 - 1 .. Len(run)
        /\ (9 + LENGTH_BYTES) - 10 + 1 = LENGTH_BYTES
    BY <1>1, <1>2
  <2> QED
    BY <2>1, PartProperties
<1> HIDE DEF field
<1>4. n \in Nat /\ FitsLength(n)
  BY <1>3, FieldWritesBack
<1>5. BodyEnd(run) = HEADER_LEN + n
  <2>1. Len(MAGIC) + 2 = 10
    BY <1>1
  <2> QED
    BY <1>1, <2>1 DEF BodyEnd, Declared, field
<1> HIDE DEF n
<1>6. HEADER_LEN + n + CHECKSUM_LEN <= USIZE_MAX
  BY <1>4 DEF WideBuild
<1>7. HEADER_LEN \in Nat /\ CHECKSUM_LEN \in Nat /\ USIZE_MAX \in Nat
  BY <1>1, WidthAssumption DEF CHECKSUM_LEN
<1> QED
  BY <1>2, <1>4, <1>5, <1>6, <1>7

\* So the search answers.
LEMMA WideAnswers ==
  ASSUME WideBuild, NEW text \in Seq(Char)
  PROVE  ExtractV2(text) # Panic
<1>1. ~(\E v \in Scan(text) : Overflows(v.run))
  BY VisitProperties, WideNeverOverflows
<1>2. \A w : Ok(w) # Panic
  BY OkOrErr, PanicIsNoResult
<1>3. \A e : Err(e) # Panic
  BY PanicIsNoResult
<1> QED
  BY <1>1, <1>2, <1>3, V2Cases

-----------------------------------------------------------------------------
(* The inductive invariant *)

VersionOK ==
  /\ version \in {0, VERSION, VERSION_V2}
  /\ carrier # <<>> => version # 0

\* While the channel has not touched a carrier, it is the frame of the payload,
\* in the version it was embedded in.
CarrierFramedV2 ==
  carrier # <<>> /\ ~mangled =>
    /\ version = VERSION_V2 => IsFrameV2(carrier, payload)
    /\ version = VERSION => IsFrame(carrier, payload)

IInvV2 == PartsOK /\ ClaimsOK /\ AcceptedNow /\ VersionOK /\ CarrierFramedV2

\* What a version 2 embed appends.
LEMMA EmbedV2Appends ==
  ASSUME ChecksumsWhole(Seq(Byte)),
         NEW text \in Seq(Char), NEW p \in Payloads, IsOk(EmbedV2(text, p))
  PROVE  LET asset == EmbedV2(text, p)
         IN  /\ asset.ok = text \o Carry(FramedV2(p))
             /\ SubSeq(asset.ok, Len(text) + 1, Len(asset.ok)) = Carry(FramedV2(p))
             /\ IsFrameV2(Carry(FramedV2(p)), p)
             /\ Carry(FramedV2(p)) \in Seq(Char)
<1> DEFINE c == Carry(FramedV2(p))
<1>1. p \in Seq(Byte) /\ HEADER_LEN + Len(p) + CHECKSUM_LEN <= USIZE_MAX
  BY AssetAssumption, AssetV2Assumption
<1>2. c \in Seq(Char)
  BY <1>1, FrameV2Typed
<1>3. IsOk(EncodeV2(p))
  BY DEF EmbedV2
<1>4. FitsLength(Len(p)) /\ EncodeV2(p) = Ok(c)
  BY <1>3, OkOrErr DEF EncodeV2
<1> HIDE DEF c
<1>5. EmbedV2(text, p).ok = text \o c
  BY <1>4, OkOrErr DEF EmbedV2
<1>6. SubSeq(text \o c, Len(text) + 1, Len(text \o c)) = c
  BY <1>2, SuffixOfConcat
<1>7. IsFrameV2(c, p)
  BY <1>1, <1>4 DEF IsFrameV2, c
<1> QED
  BY <1>2, <1>5, <1>6, <1>7 DEF c

\* v2::embed on an unsigned text leaves the frame of the manifest as carrier.
LEMMA EmbedManifestV2Step ==
  ASSUME ChecksumsWhole(Seq(Byte)), PartsOK, NEW p \in Payloads, EmbedManifestV2(p)
  PROVE  PartsOK' /\ VersionOK' /\ CarrierFramedV2'
<1>1. p \in Seq(Byte) /\ Text \in Seq(Char)
  BY AssetAssumption, TextTyped
<1>2. IsOk(EmbedV2(Text, p))
  BY DEF EmbedManifestV2
<1>3. /\ carrier' = Carry(FramedV2(p))
      /\ IsFrameV2(carrier', p) /\ carrier' \in Seq(Char)
  BY <1>1, <1>2, EmbedV2Appends DEF EmbedManifestV2
<1>4. PartsOK'
  <2>1. before' \in Seq(Char) /\ after' \in Seq(Char)
    <3>1. <<>> \in Seq(Char)
      OBVIOUS
    <3> QED
      BY <1>1, <3>1 DEF EmbedManifestV2
  <2> QED
    BY <1>1, <1>3, <2>1, StepTyped DEF EmbedManifestV2, PartsOK
<1>5. VersionOK' /\ CarrierFramedV2'
  <2>1. /\ version' = VERSION_V2 /\ payload' = p
        /\ VERSION_V2 # 0 /\ VERSION_V2 # VERSION
    BY DEF EmbedManifestV2, VERSION, VERSION_V2
  <2> QED
    BY <1>3, <2>1 DEF VersionOK, CarrierFramedV2
<1> QED
  BY <1>4, <1>5

\* A second embed touches only what lies behind the carrier.
LEMMA AccreteManifestV2Step ==
  ASSUME ChecksumsWhole(Seq(Byte)), PartsOK, VersionOK, CarrierFramedV2,
         NEW p \in Payloads, AccreteManifestV2(p)
  PROVE  PartsOK' /\ VersionOK' /\ CarrierFramedV2'
<1> DEFINE own     == before \o carrier
           encoded == Carry(FramedV2(p))
<1>1. /\ own \in Seq(Char) /\ after \in Seq(Char) /\ Text \in Seq(Char)
      /\ Text = own \o after
  BY ConcatTyped, TextTyped DEF PartsOK, Text
<1>2. IsOk(EmbedV2(Text, p))
  BY DEF AccreteManifestV2
<1>3. EmbedV2(Text, p).ok = Text \o encoded /\ encoded \in Seq(Char)
  BY <1>1, <1>2, EmbedV2Appends
<1> HIDE DEF encoded
<1>4. after' = SubSeq(Text \o encoded, Len(own) + 1, Len(Text \o encoded))
  BY <1>3 DEF AccreteManifestV2
<1> HIDE DEF own
<1>5. after' \in Seq(Char)
  <2>1. Text \o encoded \in Seq(Char) /\ Len(own) \in 0 .. Len(Text \o encoded)
    BY <1>1, <1>3
  <2> QED
    BY <1>4, <2>1, RestProperties
<1>6. PartsOK'
  BY <1>5, StepTyped DEF AccreteManifestV2, PartsOK
<1>7. VersionOK' /\ CarrierFramedV2'
  BY DEF AccreteManifestV2, VersionOK, CarrierFramedV2
<1> QED
  BY <1>6, <1>7

\* Stripping leaves a text, and no carrier to speak of.
LEMMA StripAnyStep ==
  ASSUME PartsOK, VersionOK, StripAny
  PROVE  PartsOK' /\ VersionOK' /\ CarrierFramedV2'
<1>1. <<>> \in Seq(Char)
  OBVIOUS
<1>2. before' \in Seq(Char)
  BY TextTyped, StripTyped DEF StripAny
<1>3. PartsOK'
  BY <1>1, <1>2, StepTyped DEF StripAny, PartsOK
<1>4. VersionOK' /\ CarrierFramedV2'
  BY DEF StripAny, VersionOK, CarrierFramedV2
<1> QED
  BY <1>3, <1>4

\* The invariant holds of every host text.
LEMMA InitInvV2 ==
  ASSUME InitV2
  PROVE  IInvV2
<1>1. IInv
  BY InitInv DEF InitV2
<1>2. carrier = <<>> /\ version = 0
  BY DEF InitV2, Init
<1> QED
  BY <1>1, <1>2 DEF IInvV2, IInv, VersionOK, CarrierFramedV2

\* A step of a version 1 generator makes the carrier one of version 1.
LEMMA FirstVersionStep ==
  ASSUME PartsOK, NEW p \in Payloads, version' = VERSION,
         EmbedManifest(p) \/ EmbedPlaceholder(p) \/ FinaliseManifest(p)
  PROVE  PartsOK' /\ VersionOK' /\ CarrierFramedV2'
<1>1. PartsOK' /\ CarrierFramed'
  BY EmbedManifestStep, EmbedPlaceholderStep, FinaliseManifestStep
<1>2. VERSION # 0 /\ VERSION # VERSION_V2
  BY DEF VERSION, VERSION_V2
<1> QED
  BY <1>1, <1>2 DEF VersionOK, CarrierFramed, CarrierFramedV2

\* Every step keeps the invariant.
LEMMA NextInvV2 ==
  ASSUME NormalizerTotal, ChecksumsWhole(Seq(Byte)), IInvV2, [NextV2]_varsV2
  PROVE  IInvV2'
<1> USE DEF IInvV2
<1>1. ASSUME NEW p \in Payloads, EmbedManifestV2(p)
      PROVE  IInvV2'
  BY <1>1, EmbedManifestV2Step, ValidateStep DEF EmbedManifestV2, ClaimsOK
<1>2. ASSUME NEW p \in Payloads, AccreteManifestV2(p)
      PROVE  IInvV2'
  BY <1>2, AccreteManifestV2Step, ValidateStep DEF AccreteManifestV2, ClaimsOK
<1>3. CASE StripAny
  BY <1>3, StripAnyStep, ValidateStep DEF StripAny, ClaimsOK
<1>4. ASSUME NEW p \in Payloads, version' = VERSION,
             EmbedManifest(p) \/ EmbedPlaceholder(p) \/ FinaliseManifest(p)
      PROVE  IInvV2'
  <2>1. PartsOK' /\ VersionOK' /\ CarrierFramedV2'
    BY <1>4, FirstVersionStep
  <2>2. ClaimsOK' /\ AcceptedNow'
    BY <1>4, ValidateStep
       DEF EmbedManifest, EmbedPlaceholder, FinaliseManifest, ClaimsOK
  <2> QED
    BY <2>1, <2>2
<1>5. ASSUME NEW p \in Payloads, AccreteManifest(p), UNCHANGED version
      PROVE  IInvV2'
  <2>1. PartsOK'
    BY <1>5, AccreteManifestStep
  <2>2. UNCHANGED <<carrier, payload, mangled, claims>> /\ Validate
    BY <1>5 DEF AccreteManifest
  <2> QED
    BY <1>5, <2>1, <2>2, ValidateStep DEF VersionOK, CarrierFramedV2, ClaimsOK
<1>6. ASSUME NEW alg \in Algorithms, ComputeClaim(alg) \/ SelectWrapper(alg),
             UNCHANGED version
      PROVE  IInvV2'
  <2>1. UNCHANGED <<before, carrier, after, payload, mangled>> /\ Step /\ Validate
    BY <1>6 DEF ComputeClaim, SelectWrapper
  <2>2. PartsOK'
    BY <2>1, StepTyped DEF PartsOK
  <2>3. ClaimsOK'
    <3>1. PICK c : claims' = claims \cup {c} /\ ClaimOK(c)
      BY <1>6, ClaimMade
    <3> QED
      BY <3>1 DEF ClaimsOK
  <2> QED
    BY <1>6, <2>1, <2>2, <2>3, ValidateStep DEF VersionOK, CarrierFramedV2
<1>7. CASE (EditBefore \/ EditAfter \/ Normalise) /\ UNCHANGED version
  <2>1. PartsOK'
    BY <1>7, ChannelStep
  <2>2. UNCHANGED <<carrier, payload, mangled, claims>> /\ Validate
    BY <1>7 DEF EditBefore, EditAfter, Normalise
  <2> QED
    BY <1>7, <2>1, <2>2, ValidateStep DEF VersionOK, CarrierFramedV2, ClaimsOK
<1>8. CASE Mangle /\ UNCHANGED version
  <2>1. PartsOK'
    BY <1>8, ChannelStep
  <2>2. carrier # <<>>
    BY <1>8 DEF Mangle
  <2>3. mangled' = TRUE /\ UNCHANGED claims /\ Validate
    BY <1>8 DEF Mangle
  <2> QED
    BY <1>8, <2>1, <2>2, <2>3, ValidateStep DEF VersionOK, CarrierFramedV2, ClaimsOK
<1>9. CASE UNCHANGED varsV2
  BY <1>9 DEF varsV2, vars, PartsOK, ClaimsOK, AcceptedNow, VersionOK, CarrierFramedV2, Text
<1> QED
  BY <1>1, <1>2, <1>3, <1>4, <1>5, <1>6, <1>7, <1>8, <1>9 DEF NextV2

\* IInvV2 is an invariant of SpecV2.
LEMMA InvarianceV2 ==
  ASSUME NormalizerTotal, ChecksumsWhole(Seq(Byte))
  PROVE  SpecV2 => []IInvV2
<1>1. InitV2 => IInvV2
  BY InitInvV2
<1>2. IInvV2 /\ [NextV2]_varsV2 => IInvV2'
  BY NextInvV2
<1> QED
  BY <1>1, <1>2, PTL DEF SpecV2

-----------------------------------------------------------------------------
(* Theorems *)

\* Every text is a text and every carrier is of a version, whichever generators
\* have been at work.
THEOREM TypeCorrectV2 ==
  ASSUME NormalizerTotal, ChecksumsWhole(Seq(Byte))
  PROVE  SpecV2 => []TypeOKV2
<1>1. IInvV2 => TypeOKV2
  <2>1. AcceptedNow => accepted \subseteq claims
    BY DEF AcceptedNow, Verifying
  <2> QED
    BY <2>1, ClaimTyped DEF IInvV2, PartsOK, ClaimsOK, VersionOK, TypeOK, TypeOKV2
<1> QED
  BY <1>1, InvarianceV2, PTL

\* None of the three extractions calls a text unsigned while a signature is
\* stored in it, or signed while none is.
THEOREM UnsignedExactlyV2 ==
  ASSUME NormalizerTotal, ChecksumsWhole(Seq(Byte))
  PROVE  SpecV2 => []UnsignedIffNoSignature /\ []AnyUnsignedExactly
<1>1. IInvV2 => UnsignedIffNoSignature /\ AnyUnsignedExactly
  BY TextTyped, NotFoundIffNoSignature, V2NotFoundIffNoSignature, AnyNotFoundIffNoSignature
     DEF IInvV2, UnsignedIffNoSignature, AnyUnsignedExactly
<1> QED
  BY <1>1, InvarianceV2, PTL

\* Beside version 2 frames, too, a version 1 wrapper that is located holds what
\* encoding its payload gives.
THEOREM LocatedIsEncodedV2 ==
  ASSUME NormalizerTotal, ChecksumsWhole(Seq(Byte))
  PROVE  SpecV2 => []LocatedReencodes
<1>1. IInvV2 => LocatedReencodes
  BY TextTyped, StoredReencodes DEF IInvV2, LocatedReencodes
<1> QED
  BY <1>1, InvarianceV2, PTL

\* While a text holds a version 2 wrapper, no claim about it is computed and none
\* verifies.
THEOREM V2IsNoBinding ==
  ASSUME NormalizerTotal, ChecksumsWhole(Seq(Byte))
  PROVE  SpecV2 => []V2NeverBinds
<1>1. ASSUME IInvV2, ValidV2(Text) # {}
      PROVE  /\ accepted = {}
             /\ \A alg \in Algorithms : ~IsOk(ComputeDataHash(Text, alg))
  <2>1. HasCorruptedCandidate(Text) /\ Text \in Seq(Char)
    BY <1>1, V2IsCorrupted, TextTyped DEF IInvV2
  <2>2. ASSUME NEW c \in accepted
        PROVE  FALSE
    <3> DEFINE d == c.binding
    <3>1. c \in claims /\ IsOk(VerifyDataHash(Text, d))
      BY <1>1 DEF IInvV2, AcceptedNow, Verifying
    <3>2. d.exclusions \in Seq([start : Nat, length : Nat])
      BY <1>1, <3>1 DEF IInvV2, ClaimsOK, ClaimOK
    <3> HIDE DEF d
    <3> QED
      BY <2>1, <3>1, <3>2, VerifiesExactly
  <2>3. ASSUME NEW alg \in Algorithms
        PROVE  ~IsOk(ComputeDataHash(Text, alg))
    BY <2>1, ComputedClaim, ExtractedIsLocated
  <2> QED
    BY <2>2, <2>3
<1>2. IInvV2 => V2NeverBinds
  BY <1>1 DEF V2NeverBinds
<1> QED
  BY <1>2, InvarianceV2, PTL

\* Stripping what extract_any returned takes nothing that is seen and leaves no
\* wrapper of the version it returned.
THEOREM StrippedAny ==
  ASSUME NormalizerTotal, ChecksumsWhole(Seq(Byte))
  PROVE  SpecV2 => []StripAnyClears
<1>1. ASSUME IInvV2, IsOk(ExtractAny(Text))
      PROVE  LET w    == ExtractAny(Text).ok
                 rest == Strip(Text, w.start, WrapperEnd(w))
             IN  /\ IsOk(rest) /\ Shown(rest.ok) = Shown(Text)
                 /\ IF w.version = VERSION THEN ExtractAny(rest.ok) = Err("NotFound")
                                           ELSE ValidV2(rest.ok) = {}
  <2> DEFINE w    == ExtractAny(Text).ok
             rest == Strip(Text, w.start, WrapperEnd(w))
  <2>1. Text \in Seq(Char)
    BY <1>1, TextTyped DEF IInvV2
  <2>2. CASE IsOk(Extract(Text)) /\ w = Extract(Text).ok /\ w.version = VERSION
    <3>1. w \in LocateAll(Text)
      BY <2>2, ExtractedIsLocated
    <3>2. Extract(rest.ok) = Err("NotFound")
      BY <2>1, <2>2, StripUnsigns DEF WrapperEnd
    <3> HIDE DEF w
    <3>3. rest = Ok(Without(Text, w)) /\ Without(Text, w) \in Seq(Char)
      BY <2>1, <3>1, WithoutTyped DEF WrapperEnd
    <3>4. IsOk(rest) /\ rest.ok = Without(Text, w)
      BY <3>3, OkOrErr
    <3> HIDE DEF rest
    <3>5. Shown(rest.ok) = Shown(Text)
      BY <2>1, <3>1, <3>4, WithoutShown
    <3>6. ExtractAny(rest.ok) = Err("NotFound")
      BY <3>2, <3>3, <3>4, NotFoundIffNoSignature, AnyNotFoundIffNoSignature
    <3> QED
      BY <2>2, <3>4, <3>5, <3>6 DEF rest, w
  <2>3. CASE ValidV2(Text) = {w} /\ w.version = VERSION_V2
    <3> HIDE DEF w
    <3>1. IsOk(rest) /\ Shown(rest.ok) = Shown(Text) /\ ValidV2(rest.ok) = {}
      BY <2>1, <2>3, StripV2
    <3>2. w.version # VERSION
      BY <2>3 DEF VERSION, VERSION_V2
    <3> QED
      BY <3>1, <3>2 DEF w
  <2> QED
    BY <1>1, <2>1, <2>2, <2>3, AnyReturns
<1>2. IInvV2 => StripAnyClears
  BY <1>1 DEF StripAnyClears
<1> QED
  BY <1>2, InvarianceV2, PTL

\* An untouched version 2 carrier that is alone in its text yields its manifest, to
\* either extraction, in a build of any width.
THEOREM PayloadReadBackV2 ==
  ASSUME NormalizerTotal, ChecksumsWhole(Seq(Byte))
  PROVE  SpecV2 => []V2PayloadSurvives
<1>1. ASSUME IInvV2, carrier # <<>>, version = VERSION_V2, ~mangled,
             ~Occurs(Signature, before), ~Occurs(Signature, after)
      PROVE  LET w == ExtractV2(Text)
             IN  /\ IsOk(w)
                 /\ w.ok.payload = payload
                 /\ w.ok.start = ByteLen(before)
                 /\ w.ok.length >= ByteLen(carrier)
                 /\ ExtractAny(Text) = w
  <2> DEFINE w == WrapperV2At(before \o carrier \o after, Len(before) + 1)
  <2>1. /\ before \in Seq(Char) /\ after \in Seq(Char) /\ payload \in Seq(Byte)
        /\ IsFrameV2(carrier, payload)
    BY <1>1 DEF IInvV2, PartsOK, CarrierFramedV2
  <2>2. /\ ExtractV2(before \o carrier \o after) = Ok(w)
        /\ ExtractAny(before \o carrier \o after) = Ok(w)
        /\ w.payload = payload
        /\ w.start = ByteLen(before)
        /\ w.length >= ByteLen(carrier)
    BY <1>1, <2>1, SoleFrameV2
  <2> HIDE DEF w
  <2>3. IsOk(ExtractV2(Text)) /\ ExtractV2(Text).ok = w
    BY <2>2, OkOrErr DEF Text
  <2> QED
    BY <2>2, <2>3 DEF Text
<1>2. IInvV2 => V2PayloadSurvives
  BY <1>1 DEF V2PayloadSurvives
<1> QED
  BY <1>2, InvarianceV2, PTL

\* Nothing typed, stored or embedded around an untouched carrier gets a version 2
\* wrapper read out of it that was not embedded: inside a carrier of version 1
\* there is none, inside one of version 2 only that of its payload.  (Whether that
\* holds of a mangled carrier is up to the checksum.)
THEOREM UntouchedFailsClosed ==
  ASSUME NormalizerTotal, ChecksumsWhole(Seq(Byte))
  PROVE  SpecV2 => [](~mangled => V2FailsClosed)
<1>1. ASSUME IInvV2, ~mangled,
             NEW w \in ValidV2(Text),
             w.start \in ByteLen(before) .. ByteLen(before \o carrier) - 1
      PROVE  version = VERSION_V2 /\ w.payload = payload
  <2>1. before \in Seq(Char) /\ after \in Seq(Char) /\ payload \in Seq(Byte)
    BY <1>1 DEF IInvV2, PartsOK
  <2>2. carrier # <<>>
    <3> SUFFICES ASSUME carrier = <<>>
                 PROVE  FALSE
      OBVIOUS
    <3>1. before \o carrier = before
      BY <2>1
    <3>2. ByteLen(before) \in Nat
      BY <2>1, ByteLenNat
    <3> QED
      BY <1>1, <3>1, <3>2
  <2>3. /\ ~IsFrame(carrier, payload)
        /\ IsFrameV2(carrier, payload) => w.payload = payload
    BY <1>1, <2>1, InsideFrame DEF Text
  <2> QED
    BY <1>1, <2>2, <2>3 DEF IInvV2, VersionOK, CarrierFramedV2
<1>2. IInvV2 => (~mangled => V2FailsClosed)
  BY <1>1 DEF V2FailsClosed
<1> QED
  BY <1>2, InvarianceV2, PTL

\* In a wide build the search always answers: what overflows in a narrow one fits.
THEOREM WideBuildAnswers ==
  ASSUME NormalizerTotal, ChecksumsWhole(Seq(Byte)), WideBuild
  PROVE  SpecV2 => []V2Answers
<1>1. IInvV2 => V2Answers
  BY TextTyped, WideAnswers DEF IInvV2, V2Answers
<1> QED
  BY <1>1, InvarianceV2, PTL
=============================================================================
