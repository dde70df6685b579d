------------------------------ MODULE MCAsset ------------------------------
(***************************************************************************)
(* Asset on small host texts.  The alphabet has one character of each kind *)
(* the code treats differently: a one-byte letter that composes (e), the   *)
(* combining acute it composes with, a marker on its own (a byte-order     *)
(* mark), and a selector on its own (the emoji selector U+FE0F).           *)
(***************************************************************************)
EXTENDS Asset

e      == 101
acute  == \h301
eAcute == 233
bom    == MARKER
emoji  == VS_END

\* Composition of the one pair the alphabet holds.
Pair(s, i) == i \in 1 .. Len(s) - 1 /\ s[i] = e /\ s[i + 1] = acute
Kept(c)    == c # NoByte

ComposePair(s) ==
  SelectSeq([i \in 1 .. Len(s) |-> IF Pair(s, i) THEN eAcute
                                   ELSE IF Pair(s, i - 1) THEN NoByte
                                   ELSE s[i]], Kept)

\* A collision-free digest.
IdealDigest(alg, data) == <<alg, data>>

\* What the theorems assume of a Normalizer and a Hasher holds of these two, on
\* every text of up to three characters and around a candidate.
Alphabet == {e, acute, eAcute, bom, emoji}
Sample   == UNION {[1 .. n -> Alphabet] : n \in 0 .. 3}
            \cup {<<a>> \o Signature \o <<b>> : a, b \in Alphabet}

ASSUME SampleAssumption ==
  /\ NormalizerKeepsSignatures(Sample)
  /\ NormalizerKeepsShown(Sample)
  /\ CollisionFree(Sample)

\* Two manifests of one size whose encodings differ in length, and one that is
\* empty.
SmallPayloads == {<<1>>, <<200>>}
AllPayloads   == SmallPayloads \cup {<<>>}

\* Every kind of character, in every place: the channel run.
ChannelHosts    == {<<e, acute>>, <<bom>>}
ChannelTyped    == {<<>>, <<e>>, <<bom>>, <<emoji>>}
ChannelMangling == {<<>>, <<ByteToVs(0)>>, <<ByteToVs(16)>>, <<e>>}

\* Letters only, no mangling, and one more manifest: longer behaviours.
LifeHosts    == {<<e, acute>>}
LifeTyped    == {<<>>, <<acute>>}
LifeMangling == {}
=============================================================================
