---------------------------- MODULE HardBinding ----------------------------
(***************************************************************************)
(* The c2pa.hash.data hard binding (src/hardbinding.rs): remove the        *)
(* excluded byte ranges from the text as stored, normalise what is left to *)
(* NFC, and hash that.                                                     *)
(*                                                                         *)
(* Hashing and normalisation are injected by the host through two traits,  *)
(* so they are parameters here.  The UTF-8 encoding of the normalised text *)
(* is injective and is not spelled out: the digest is taken of the text.   *)
(* The pad and name fields of a DataHash take no part in verification.     *)
(***************************************************************************)
EXTENDS Wrapper

CONSTANTS
  Digest(_, _),   \* Hasher::digest: algorithm, data
  Nfc(_)          \* Normalizer::nfc

AlgorithmIds == {"sha256", "sha384", "sha512"}

FromId(id) ==
  IF id \in AlgorithmIds THEN Ok(id) ELSE Err("UnsupportedAlgorithm")

\* EXCLUSION_RANGE-map
Exclusions == [start : 0 .. USIZE_MAX, length : 0 .. USIZE_MAX]

\* The one exclusion that covers the located wrapper, marker included.
RangeOf(w) == [start |-> w.start, length |-> w.length]

ManifestExclusion(text) ==
  LET w == Extract(text)
  IN  IF IsOk(w) THEN Ok(RangeOf(w.ok)) ELSE w

-----------------------------------------------------------------------------
(* Exclusions *)

EndOf(ex) == ex.start + ex.length

\* The cursor of apply_exclusions before the k-th exclusion.
Cursor(exclusions, k) == IF k = 1 THEN 0 ELSE EndOf(exclusions[k - 1])

\* What the loop checks before it uses the k-th exclusion.
GoodExclusion(text, exclusions, k) ==
  LET ex == exclusions[k]
  IN  /\ EndOf(ex) <= USIZE_MAX
      /\ ex.start >= Cursor(exclusions, k)
      /\ EndOf(ex) <= ByteLen(text)
      /\ IsCharBoundary(text, ex.start)
      /\ IsCharBoundary(text, EndOf(ex))

\* What the loop has kept after the k-th exclusion.
KeptBefore(text, exclusions) ==
  LET out[k \in 0 .. Len(exclusions)] ==
        IF k = 0 THEN <<>>
        ELSE out[k - 1] \o Slice(text, Cursor(exclusions, k), exclusions[k].start)
  IN  out

\* What follows the last exclusion is not hashed.
ApplyExclusions_DropTail(text, exclusions) ==
  LET n == Len(exclusions)
  IN  IF \A k \in 1 .. n : GoodExclusion(text, exclusions, k)
      THEN Ok(KeptBefore(text, exclusions)[n])
      ELSE Err("MalformedExclusion")

\* Only what follows the last exclusion is hashed.
ApplyExclusions_DropHead(text, exclusions) ==
  LET n == Len(exclusions)
  IN  IF \A k \in 1 .. n : GoodExclusion(text, exclusions, k)
      THEN Ok(Slice(text, Cursor(exclusions, n + 1), ByteLen(text)))
      ELSE Err("MalformedExclusion")

ApplyExclusions(text, exclusions) ==
  LET n == Len(exclusions)
  IN  IF \A k \in 1 .. n : GoodExclusion(text, exclusions, k)
      THEN Ok(KeptBefore(text, exclusions)[n] \o Slice(text, Cursor(exclusions, n + 1), ByteLen(text)))
      ELSE Err("MalformedExclusion")

\* The text is composed before the offsets of its stored bytes are used.
HashedBytes_ComposeFirst(text, exclusions) == ApplyExclusions(Nfc(text), exclusions)

HashedBytes(text, exclusions) ==
  LET stripped == ApplyExclusions(text, exclusions)
  IN  IF IsOk(stripped) THEN Ok(Nfc(stripped.ok)) ELSE stripped

-----------------------------------------------------------------------------
(* Computing and verifying *)

\* The exclusion is applied and then not recorded.
ComputeDataHash_Unrecorded(text, alg) ==
  LET exclusion == ManifestExclusion(text)
      covered   == HashedBytes(text, <<exclusion.ok>>)
  IN  IF ~IsOk(exclusion) THEN exclusion
      ELSE IF ~IsOk(covered) THEN covered
      ELSE Ok([exclusions |-> <<>>,
               alg        |-> alg,
               hash       |-> Digest(alg, covered.ok)])

ComputeDataHash(text, alg) ==
  LET exclusion == ManifestExclusion(text)
      covered   == HashedBytes(text, <<exclusion.ok>>)
  IN  IF ~IsOk(exclusion) THEN exclusion
      ELSE IF ~IsOk(covered) THEN covered
      ELSE Ok([exclusions |-> <<exclusion.ok>>,
               alg        |-> alg,
               hash       |-> Digest(alg, covered.ok)])

\* The wrappers of text whose range the assertion excludes.
Selected(text, exclusions) ==
  {w \in LocateAll(text) :
     \E k \in 1 .. Len(exclusions) : exclusions[k] = RangeOf(w)}

\* The asserted ranges are trusted without being matched to a wrapper.
VerifyDataHash_TrustRanges(text, dataHash) ==
  LET covered == HashedBytes(text, dataHash.exclusions)
  IN  IF ~IsOk(covered) THEN covered
      ELSE IF Digest(dataHash.alg, covered.ok) = dataHash.hash THEN Ok(TRUE)
      ELSE Err("HashMismatch")

VerifyDataHash(text, dataHash) ==
  LET alg      == FromId(dataHash.alg)
      selected == Selected(text, dataHash.exclusions)
      covered  == HashedBytes(text, dataHash.exclusions)
  IN  IF ~IsOk(alg) THEN alg
      ELSE IF HasCorruptedCandidate(text) THEN Err("CorruptedWrapper")
      ELSE IF \E v, w \in selected : v # w THEN Err("MultipleWrappers")
      ELSE IF selected = {} \/ Len(dataHash.exclusions) # 1
           THEN Err("MalformedExclusion")
      ELSE IF ~IsOk(covered) THEN covered
      ELSE IF Digest(alg.ok, covered.ok) = dataHash.hash THEN Ok(TRUE)
      ELSE Err("HashMismatch")
=============================================================================
