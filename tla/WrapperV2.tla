----------------------------- MODULE WrapperV2 -----------------------------
(***************************************************************************)
(* The version 2 frame (src/wrapper.rs, feature checksum-v2): the version  *)
(* 1 frame without padding, followed by the first four bytes of a SHA-256  *)
(* over it.  The Hasher is the injected one of the hard binding.           *)
(***************************************************************************)
EXTENDS HardBinding

VERSION_V2   == 2
CHECKSUM_LEN == 4

\* hasher.digest(Sha256, bytes)[..CHECKSUM_LEN]: the digest is a byte string.
Checksum(bytes) == SubSeq(Digest("sha256", bytes), 1, CHECKSUM_LEN)

HeaderAndBody(payload) ==
  MAGIC \o <<VERSION_V2>> \o ToBeBytes(Len(payload)) \o payload

FramedV2(payload) == HeaderAndBody(payload) \o Checksum(HeaderAndBody(payload))

EncodeV2(payload) ==
  IF FitsLength(Len(payload)) THEN Ok(Carry(FramedV2(payload)))
                              ELSE Err("PayloadTooLarge")

EmbedV2(text, payload) ==
  LET encoded == EncodeV2(payload)
  IN  IF IsOk(encoded) THEN Ok(text \o encoded.ok) ELSE encoded

-----------------------------------------------------------------------------
(* Decoding *)

\* A whole header is needed, as for frame_bounds.
HasCandidate_WholeHeader(text) ==
  \E v \in Scan(text) : HasMagic(v.run) /\ Len(v.run) >= HEADER_LEN

HasCandidate(text) == \E v \in Scan(text) : HasMagic(v.run)

IsV2(run) == HasBounds(run) /\ run[Len(MAGIC) + 1] = VERSION_V2

\* body_end + CHECKSUM_LEN does not fit usize: the addition traps, or wraps to
\* a bound below body_end and the slice that uses it panics.
Overflows(run) == IsV2(run) /\ BodyEnd(run) + CHECKSUM_LEN > USIZE_MAX

\* The checksum is read and not compared.
DecodesV2_Unchecked(run) ==
  IsV2(run) /\ Len(run) >= BodyEnd(run) + CHECKSUM_LEN

DecodesV2(run) ==
  /\ IsV2(run)
  /\ Len(run) >= BodyEnd(run) + CHECKSUM_LEN
  /\ SubSeq(run, BodyEnd(run) + 1, BodyEnd(run) + CHECKSUM_LEN)
       = Checksum(SubSeq(run, 1, BodyEnd(run)))

DecodeV2(run, start, length) ==
  IF DecodesV2(run)
  THEN {[payload |-> SubSeq(run, HEADER_LEN + 1, BodyEnd(run)),
         version |-> VERSION_V2,
         start   |-> start,
         length  |-> length]}
  ELSE {}

\* What decode makes of the runs of a text.
ValidV2(text) ==
  UNION {DecodeV2(v.run, v.start, v.length) : v \in Scan(text)}

\* v2::locate_all: decode is called for every run, and panics for one.
LocateAllV2(text) ==
  IF \E v \in Scan(text) : Overflows(v.run) THEN Panic ELSE Ok(ValidV2(text))

ExtractV2(text) ==
  LET found == LocateAllV2(text).ok
  IN  IF LocateAllV2(text) = Panic THEN Panic
      ELSE IF \E w \in found : found = {w} THEN Ok(CHOOSE w \in found : TRUE)
      ELSE IF found # {} THEN Err("MultipleWrappers")
      ELSE IF HasCandidate(text) THEN Err("CorruptedWrapper")
      ELSE Err("NotFound")

\* Only a text without a v1 candidate is searched for a v2 wrapper.
ExtractAny_UnsignedOnly(text) ==
  LET v1 == Extract(text)
  IN  IF v1 = Err("NotFound") THEN ExtractV2(text) ELSE v1

\* The v1 answer, unless it is an error and the v2 search has seen something.
ExtractAny(text) ==
  LET v1 == Extract(text)
      v2 == ExtractV2(text)
  IN  IF IsOk(v1) \/ v2 = Err("NotFound") THEN v1 ELSE v2
=============================================================================
