------------------------------ MODULE Wrapper ------------------------------
(***************************************************************************)
(* The C2PATextManifestWrapper frame (src/wrapper.rs): a U+FEFF marker,    *)
(* then the selector encoding of                                           *)
(*                                                                         *)
(*      magic(8) version(1) big-endian length(4) payload padding           *)
(*                                                                         *)
(* encoded, padded, located in a host text, extracted and stripped.        *)
(*                                                                         *)
(* An Option<Wrapper> or a Vec<Wrapper> is a set of wrappers: two wrappers *)
(* of one text never start at the same offset, so a set loses only the     *)
(* order of locate_all, which module ScanLoop keeps.                       *)
(***************************************************************************)
EXTENDS VariationSelectors

CONSTANTS
  LENGTH_BYTES,  \* width of manifestLength in bytes: 4 in the code
  USIZE_MAX      \* largest usize of the build: 2^32 - 1 or 2^64 - 1

ASSUME WidthAssumption ==
  /\ LENGTH_BYTES \in Nat \ {0}
  /\ USIZE_MAX \in Nat

MAGIC      == <<67, 50, 80, 65, 84, 88, 84, 0>>   \* "C2PATXT\0"
VERSION    == 1
MARKER     == \hFEFF
HEADER_LEN == Len(MAGIC) + 1 + LENGTH_BYTES

\* A located wrapper: payload without padding, byte offset of the marker in the
\* text as stored, byte length through the end of the run.
Wrappers ==
  [payload : Seq(Byte), version : {VERSION}, start : Nat, length : Nat]

\* range() is start .. WrapperEnd.
WrapperEnd(w) == w.start + w.length

-----------------------------------------------------------------------------
(* Encoding *)

\* n >> 8k, for k up to the width of the length field.
Shifted(n) ==
  LET shr[k \in 0 .. LENGTH_BYTES] == IF k = 0 THEN n ELSE shr[k - 1] \div 256
  IN  shr

\* u32::try_from(n).is_ok()
FitsLength(n) == Shifted(n)[LENGTH_BYTES] = 0

\* u32::to_be_bytes and u32::from_be_bytes
ToBeBytes(n) ==
  [i \in 1 .. LENGTH_BYTES |-> Shifted(n)[LENGTH_BYTES - i] % 256]

FromBeBytes(bytes) ==
  LET acc[i \in 0 .. Len(bytes)] ==
        IF i = 0 THEN 0 ELSE 256 * acc[i - 1] + bytes[i]
  IN  acc[Len(bytes)]

Carry(framed) == <<MARKER>> \o EncodeRun(framed)

Framed(payload, pad) ==
  MAGIC \o <<VERSION>> \o ToBeBytes(Len(payload)) \o payload \o pad

EncodeWithPadding(payload, pad) ==
  IF FitsLength(Len(payload)) THEN Ok(Carry(Framed(payload, pad)))
                              ELSE Err("PayloadTooLarge")

Encode(payload) == EncodeWithPadding(payload, <<>>)

Embed(text, payload) ==
  LET encoded == Encode(payload)
  IN  IF IsOk(encoded) THEN Ok(text \o encoded.ok) ELSE encoded

TargetLength(manifestLen) == 3 + (HEADER_LEN + manifestLen) * 4 + 6

\* gap mod 3 bytes of 0x10 (four UTF-8 bytes each), the rest 0x00 (three each).
Padding(gap) ==
  LET b == gap % 3
      a == (gap - 4 * b) \div 3
  IN  IF gap < 4 * b
      THEN Err("UnrepresentableGap")
      ELSE Ok([i \in 1 .. a + b |-> IF i <= a THEN \h00 ELSE \h10])

\* Always the same padding, whatever the bytes of the payload.
EncodePadded_FixedPadding(payload) == EncodeWithPadding(payload, <<0, 0>>)

\* target_length comes first.  Where its value does not fit usize a build with
\* overflow checks panics there, and any other in encode: the unpadded wrapper
\* alone is then longer than isize::MAX, the most a String holds.
EncodePadded(payload) ==
  LET target == TargetLength(Len(payload))
      base   == Encode(payload)
      gap    == target - ByteLen(base.ok)
      pad    == Padding(gap)
  IN  IF target > USIZE_MAX THEN Panic
      ELSE IF ~IsOk(base) THEN base
      ELSE IF gap < 0 THEN Err("UnrepresentableGap")
      ELSE IF ~IsOk(pad) THEN pad
      ELSE EncodeWithPadding(payload, pad.ok)

-----------------------------------------------------------------------------
(* Decoding *)

\* run[..MAGIC.len()] == MAGIC, guarded by the length test beside it.
HasMagic(run) == Len(run) >= Len(MAGIC) /\ SubSeq(run, 1, Len(MAGIC)) = MAGIC

Declared(run) ==
  FromBeBytes(SubSeq(run, Len(MAGIC) + 2, HEADER_LEN))

\* The addition is not checked and wraps.
BodyEnd_Wrapped(run) == (HEADER_LEN + Declared(run)) % (USIZE_MAX + 1)

BodyEnd(run) == HEADER_LEN + Declared(run)

\* frame_bounds returns Some: the header is whole and checked_add did not
\* overflow the build's usize.
HasBounds(run) ==
  /\ Len(run) >= HEADER_LEN
  /\ HasMagic(run)
  /\ BodyEnd(run) <= USIZE_MAX

\* Every version is read as the first.
Decodes_AnyVersion(run) == HasBounds(run) /\ Len(run) >= BodyEnd(run)

Decodes(run) ==
  /\ HasBounds(run)
  /\ run[Len(MAGIC) + 1] = VERSION
  /\ Len(run) >= BodyEnd(run)

\* The payload is everything after the header, padding included.
DecodeFrame_WithPadding(run, start, length) ==
  IF Decodes(run)
  THEN {[payload |-> SubSeq(run, HEADER_LEN + 1, Len(run)), version |-> VERSION,
         start   |-> start, length |-> length]}
  ELSE {}

DecodeFrame(run, start, length) ==
  IF Decodes(run)
  THEN {[payload |-> SubSeq(run, HEADER_LEN + 1, BodyEnd(run)),
         version |-> VERSION,
         start   |-> start,
         length  |-> length]}
  ELSE {}

\* The length of the run counted in characters.
VisitAt_CharLength(text, i) ==
  LET decoded == DecodeRun(SubSeq(text, i + 1, Len(text)))
  IN  [run    |-> decoded.bytes,
       start  |-> Offset(text, i - 1),
       length |-> 1 + Len(decoded.bytes)]

\* What scan hands to its visitor for the marker at index i: the decoded run,
\* the byte offset of the marker, and the byte length through the run's end.
VisitAt(text, i) ==
  LET decoded == DecodeRun(SubSeq(text, i + 1, Len(text)))
  IN  [run    |-> decoded.bytes,
       start  |-> Offset(text, i - 1),
       length |-> LenUtf8(MARKER) + decoded.consumed]

\* Only the first marker is looked at, as if the search did not resume.
Scan_FirstOnly(text) ==
  {VisitAt(text, i) : i \in {j \in 1 .. Len(text) :
     text[j] = MARKER /\ \A k \in 1 .. j - 1 : text[k] # MARKER}}

\* scan resumes after each run, and no run contains a marker: every marker of
\* the text is visited once.
Scan(text) ==
  {VisitAt(text, i) : i \in {j \in 1 .. Len(text) : text[j] = MARKER}}

LocateAll(text) ==
  UNION {DecodeFrame(v.run, v.start, v.length) : v \in Scan(text)}

HasCorruptedCandidate_Never(text) == FALSE

\* A run without frame bounds is taken for something else.
HasCorruptedCandidate_Bounded(text) ==
  \E v \in Scan(text) :
    HasBounds(v.run) /\ DecodeFrame(v.run, v.start, v.length) = {}

HasCorruptedCandidate(text) ==
  \E v \in Scan(text) :
    HasMagic(v.run) /\ DecodeFrame(v.run, v.start, v.length) = {}

\* The first wrapper, however many there are.
Extract_First(text) ==
  LET found == LocateAll(text)
  IN  IF HasCorruptedCandidate(text) THEN Err("CorruptedWrapper")
      ELSE IF found = {} THEN Err("NotFound")
      ELSE Ok(CHOOSE w \in found : \A v \in found : w.start <= v.start)

Extract(text) ==
  LET found == LocateAll(text)
  IN  IF HasCorruptedCandidate(text) THEN Err("CorruptedWrapper")
      ELSE IF found = {} THEN Err("NotFound")
      ELSE IF \E w \in found : found = {w} THEN Ok(CHOOSE w \in found : TRUE)
      ELSE Err("MultipleWrappers")

\* An end in front of the start is not noticed.
Strip_AnyOrder(text, from, to) ==
  IF to > ByteLen(text) \/ ~IsCharBoundary(text, from) \/ ~IsCharBoundary(text, to)
  THEN Err("MalformedExclusion")
  ELSE Ok(Slice(text, 0, from) \o Slice(text, to, ByteLen(text)))

\* Remove the byte range from .. to (half open).
Strip(text, from, to) ==
  IF \/ to > ByteLen(text) \/ from > to
     \/ ~IsCharBoundary(text, from) \/ ~IsCharBoundary(text, to)
  THEN Err("MalformedExclusion")
  ELSE Ok(Slice(text, 0, from) \o Slice(text, to, ByteLen(text)))

\* What stands in front of the first other character.
DecodeExact_Prefix(run) == Ok(DecodeBytes(SubSeq(run, 1, RunLen(run))))

DecodeExact(run) ==
  IF \A i \in 1 .. Len(run) : IsVs(run[i]) THEN Ok(DecodeBytes(run))
                                           ELSE Err("CorruptedWrapper")

-----------------------------------------------------------------------------
(* What makes a text a candidate: the marker followed by the encoded magic. *)

Signature == <<MARKER>> \o EncodeRun(MAGIC)

OccursAt(sig, s, i) ==
  i + Len(sig) - 1 <= Len(s) /\ SubSeq(s, i, i + Len(sig) - 1) = sig

Occurs(sig, s) == \E i \in 1 .. Len(s) : OccursAt(sig, s, i)
=============================================================================
