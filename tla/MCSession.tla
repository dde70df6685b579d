----------------------------- MODULE MCSession -----------------------------
(***************************************************************************)
(* A session on a build whose usize is one byte, so that start + length    *)
(* overflows; the texts stay shorter than 255 bytes.                       *)
(***************************************************************************)
EXTENDS Session

e     == 101
acute == \h301

\* The host composes nothing, and hashes without collisions.
IdealDigest(alg, data) == <<alg, data>>
AsStored(s) == s

\* An unsigned text, and one that arrived with half a wrapper.
SessionTexts == {<<acute>>, <<e>> \o Carry(SubSeq(Framed(<<1>>, <<>>), 1, HEADER_LEN))}
SessionManifests == {<<1>>, <<200>>}

\* Theorem PlansTheRoom is about manifests whose padded wrapper fits.
ASSUME RoomAssumption == Fit(SessionManifests)

SessionKeys  == {e, MARKER, VS_END}

\* Ranges that are whole, that cut a character, that end behind the text, and
\* whose end overflows: 8 + 250 wraps to 2, 255 + 1 to 0.
SessionRanges ==
  [start : {0, 8}, length : {2, 250}] \cup {[start |-> 255, length |-> 1]}
=============================================================================
