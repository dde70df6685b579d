-------------------------- MODULE PublishedVectors --------------------------
(***************************************************************************)
(* The figures of the public test corpus (src/tests/vectors.rs) hold of    *)
(* the model: the sizes of a wrapper for a given manifest, the range it is *)
(* stored at, and the status code of every negative case.  The corpus has  *)
(* the four-byte length field of the specification.                        *)
(***************************************************************************)
EXTENDS HardBinding, StatusCodes

\* "c2pa-manifest-01", and a host text of 73 letters.
Manifest16 == <<99, 50, 112, 97, 45, 109, 97, 110, 105, 102, 101, 115, 116, 45, 48, 49>>
Host73     == [i \in 1 .. 73 |-> 101]
Published  == Embed(Host73, Manifest16).ok

\* The fixtures that the encoder refuses to produce.
BadMagic   == Carry(<<67, 50, 80, 65, 84, 88, 84, 1, 1, 0, 0, 0, 16>> \o Manifest16)
BadVersion == Carry(MAGIC \o <<2, 0, 0, 0, 16>> \o Manifest16)
BadLength  == Carry(MAGIC \o <<1, 0, 0, 0, 24>> \o Manifest16)
Good       == Encode(Manifest16).ok

CodeOf(s) == LET answer == Extract(Host73 \o s)
             IN  IF IsOk(answer) THEN "valid" ELSE Code(answer.err)

ASSUME SizesOfTheCorpus == LENGTH_BYTES = 4 /\ TargetLength(16) <= USIZE_MAX =>
  /\ ByteLen(Encode(Manifest16).ok) = 114
  /\ ByteLen(EncodePadded(Manifest16).ok) = 125
  /\ TargetLength(16) = 125
  /\ Padding(11) = Ok(<<0, 16, 16>>)
  /\ {gap \in 0 .. 40 : ~IsOk(Padding(gap))} = {1, 2, 5}
  /\ ByteLen(Published) = 187
  /\ ManifestExclusion(Published) = Ok([start |-> 73, length |-> 114])

ASSUME CodesOfTheCorpus == LENGTH_BYTES = 4 =>
  /\ CodeOf(Good) = "valid"
  /\ CodeOf(BadMagic) = NoCode /\ CodeOf(<<>>) = NoCode
  /\ CodeOf(BadVersion) = "manifest.text.corruptedWrapper"
  /\ CodeOf(BadLength) = "manifest.text.corruptedWrapper"
  /\ CodeOf(Good \o Good) = "manifest.text.multipleWrappers"
=============================================================================
