# Verification of c2pa-unstructured-text

This directory holds a TLA+ development of the crate `c2pa-unstructured-text`,
which carries a C2PA manifest inside Unicode text as a run of invisible
variation selectors and binds the manifest to the visible text by a hash. TLC
checks the modules on small instances; TLAPS proves nearly all of the safety
properties for every text, manifest, digest and behaviour.

Paths are relative to the repository; the crate's sources are in `src/src/` as
`PROJECT.json` spells it, `src/` below.

## 1. The system

The crate is a pure, sequential library. It keeps no state, starts no thread
and does no I/O. Its state is in its callers' hands: the text, and the claims
made about the text. What makes it hard is not concurrency but *time and
place*: byte offsets computed on one version of a text are used on another,
after an editor, a clipboard or a second generator has been at it; offsets
count UTF-8 bytes of characters one to four bytes long, so an arithmetic slip
either panics (a slice inside a character) or silently moves a boundary; and
the numbers come from headers and assertions that anybody may have written, in
builds whose `usize` has 32 or 64 bits.

| component | source | state | operations | status |
|---|---|---|---|---|
| variation selector codec | `vs.rs` | none | `byte_to_vs`, `vs_to_byte`, `is_vs`, `encode_run`, `decode_run` | modelled |
| v1 frame, writing | `wrapper.rs` 15-122 | none | `encode`, `embed`, `target_length`, `padding`, `encode_padded` | modelled |
| v1 frame, reading | `wrapper.rs` 124-196, 211-224 | the loop variables of `scan` | `decode_frame`, `scan`, `locate_all`, `has_corrupted_candidate`, `extract` | modelled |
| strip, decode_exact | `wrapper.rs` 328-348 | none | `strip`, `decode_exact` | modelled |
| v2 frame (`checksum-v2`) | `wrapper.rs` 198-209, 226-326 | none | `v2::encode`, `v2::embed`, `v2::locate_all`, `v2::extract`, `v2::extract_any` | modelled |
| hard binding | `hardbinding.rs` | the cursor of `apply_exclusions`; a `DataHash` in the manifest | `manifest_exclusion`, `apply_exclusions`, `hashed_bytes`, `compute_data_hash`, `verify_data_hash` | modelled |
| `Hasher`, `Normalizer` | `hardbinding.rs` | none | injected by the host, or RustCrypto and UnicodeNfc | partly |
| `DataHash` serialisation | `hardbinding.rs` | the JSON written so far | `to_json`, `base64` | modelled |
| errors and status codes | `error.rs` | none | `code`, `is_no_manifest_located` | modelled |
| Python, WebAssembly bindings | `python.rs`, `wasm.rs` | what a host keeps: a range, a binding | one function per operation | modelled |
| published vectors | `tests/vectors.rs` | none | the figures of the public corpus | partly |
| crate root, fuzz target, build | `lib.rs`, `fuzz/`, `Cargo.toml` | none | none | not modelled |

They interact by calls only: the frame uses the codec, the hard binding uses
`extract`, `locate_all` and `has_corrupted_candidate`, the v2 frame uses `scan`
and the `Hasher`, the bindings call everything. The two injected traits are
callbacks without effects.

A *generator* embeds a manifest (or a padded placeholder), computes the hard
binding of the signed text, puts it into the manifest and replaces the
placeholder by the finished manifest of the same size. A *validator* extracts
the manifest and verifies the binding. Between them is a *channel* that may
edit, normalise, extend, strip, or mangle the text. The crate has to get these
right:

- **Codec.** Every byte string survives encoding, whatever text follows.
- **Writing.** The length of a padded wrapper depends on the size of the
  manifest alone, or a manifest cannot contain its own exclusion length.
- **Reading.** No slice panics, on any text. "Unsigned" (`NotFound`) is said of
  exactly the texts in which nothing claims to be a wrapper: a mangled,
  truncated or doubled wrapper is rejected, never called absent. An untouched
  wrapper yields its manifest, whatever stands around it, and no wrapper is
  read with a length its header does not declare.
- **The second frame.** A checksummed wrapper is read as it was written or not
  at all; the two frames may meet in one text without hiding each other, and a
  text that holds a v2 wrapper carries no hard binding.
- **Strip.** It takes the wrapper and nothing a reader sees, and what is left
  is unsigned; of a range that has become stale or overflows it never makes
  another range than the caller asked for.
- **Hard binding.** A claim verifies at once where it was made, and never for
  content other than the content it was made for, although offsets are
  those of the text as stored and the content is compared in NFC. Whatever
  ranges an assertion names, the loop that excludes them neither panics nor
  hashes a byte twice.
- **Bindings.** `None` means unsigned and nothing else, in either language; a
  binding computed in one is accepted in the other.

`PROJECT.json` lists the hazards line by line, with the properties that watch
each one, or the reason none does.

## 2. The modules

| module | models | what it is |
|---|---|---|
| `Utf8Str` | `&str` of the standard library | a text is a sequence of code points; `ByteLen`, `Offset`, `IsCharBoundary`, `Slice` are by byte; `Ok`, `Err`, and the panic of a call |
| `VariationSelectors` | `vs.rs` | operators, one per function |
| `Wrapper` | v1 frame, `strip`, `decode_exact` | operators, one per function |
| `HardBinding` | `hardbinding.rs` | operators, one per function; `Digest` and `Nfc` are parameters |
| `ContentBinding` | what the binding promises | the abstract specification: contents signed, contents accepted |
| `Asset` | generator, channel and validator over one text | state machine; implements `ContentBinding` |
| `WrapperV2` | `wrapper::v2` | operators, one per function; `LocateAllV2` is a panic where one run of the text makes `decode` panic, `ValidV2` what the other runs hold |
| `AssetV2` | `Asset` with generators of both frames | state machine that composes `Asset` and `WrapperV2` |
| `ScanLoop` | the loops of `extract`, `scan`, `decode_run` | state machine, one action per iteration |
| `ExclusionLoop` | the body of `verify_data_hash` and the loop of `apply_exclusions` | state machine, one action per check or iteration |
| `StatusCodes` | `error.rs` | `Code`, `IsNoManifestLocated` |
| `Bindings`, `PythonBinding`, `WasmBinding` | `python.rs`, `wasm.rs` | operators, one per function; a call returns, raises with a code, or panics |
| `Session` | a Python and a JavaScript host over one text | state machine that composes the two bindings |
| `DataHashJson` | `to_json`, `base64` | state machine, one action per piece written |
| `PublishedVectors` | `tests/vectors.rs` | assumptions TLC evaluates |
| `MCAsset`, `MCAssetV2`, `MCScanLoop`, `MCExclusionLoop`, `MCSession`, `MCDataHashJson` | | the instances TLC checks |
| `VariationSelectorsProofs`, `WrapperProofs`, `HardBindingProofs`, `AssetProofs`, `ScanLoopProofs`, `ExclusionLoopProofs`, `SessionProofs`, `DataHashJsonProofs` | | the proofs |

`Utf8Str` < `VariationSelectors` < `Wrapper` < `HardBinding` is the chain of
operators; each module extends the one before. `Asset` and `ExclusionLoop`
extend `HardBinding`; `ScanLoop` extends `Wrapper`; `WrapperV2` extends
`HardBinding` and `AssetV2` both `Asset` and `WrapperV2`; `Bindings` extends
`HardBinding` and `StatusCodes`, and `Session` the two bindings.
`DataHashJson` stands alone. The proofs follow the same chain:
`VariationSelectorsProofs` (with the facts about texts) < `WrapperProofs` <
`HardBindingProofs`; each state machine has a proof module that extends it and
the operator proofs it needs, and `AssetProofs` holds the proofs of `Asset` and
of `AssetV2`. Operators that end in a suffix after an underscore
(`Extract_First`, `Resume_PastRun`) are mutants: plausible bugs in the
definition they stand in front of, kept to show that the properties notice.

**Data.** Characters are code points, because everything the code computes is
an offset and the offsets depend on the length of each character. A `Result` is
a record with a field `ok` or `err`; an `Err` carries the variant's name
without its payload. An `Option` or a `Vec` of wrappers is a set: two wrappers
of one text start at different offsets, so only the order of `locate_all` is
lost, and `ScanLoop` keeps that.

**Asset.** The text as stored is `before \o carrier \o after`. The split is the
model's bookkeeping, so that properties can speak of what was embedded; every
action of a generator and `Validate` compute on the joined text `Text`, as the
crate does. `claims` are the bindings made so far, each with the content it was
made for (`Shown`: the text without markers and selectors, in NFC), the
normalised text that was hashed, and whether `compute_data_hash` made it.
`accepted`
are the claims `verify_data_hash` accepts now; `Validate`, the last conjunct of
every action, recomputes it by calling `VerifyDataHash` on every claim.
`mangled` says that the channel has changed a character of the carrier.

| action | code |
|---|---|
| `EmbedManifest`, `AccreteManifest` | `wrapper::embed`, on an unsigned or a signed text |
| `EmbedPlaceholder` | appending `encode_padded(payload)?` |
| `FinaliseManifest` | `extract`, `strip` of its range, appending `encode_padded` of a manifest of the same size |
| `ComputeClaim` | `compute_data_hash` |
| `SelectWrapper` | a generator that follows placement rule 5 and excludes one of several wrappers (`hashed_bytes`) |
| `StripManifest` | `extract`, then `strip` of its range |
| `EditBefore`, `EditAfter`, `Normalise`, `Mangle` | the channel; environment of the crate |

**AssetV2** keeps all of these but `StripManifest`, which `StripAny` replaces,
and adds:

| action | code |
|---|---|
| `EmbedManifestV2`, `AccreteManifestV2` | `v2::embed`, on an unsigned or a signed text |
| `StripAny` | `extract_any`, then `strip` of its range |

`version` remembers which frame the carrier has.

**ScanLoop.** The two passes of `extract`, character by character:
`FindMarker` is `text[from..].find(MARKER)`, `DecodeSelector` one iteration of
`decode_run`, `EndRun` the visitor and the resumption, `EndCorruptedPass` and
`EndLocatePass` the returns. `Wrapper` says in one expression what the passes
find; `AnswersExtract` is the evidence that the loops compute it.

**ExclusionLoop** runs one call, of `verify_data_hash` or of `apply_exclusions`
on its own, over an assertion nobody computed for the text.

| action | code |
|---|---|
| `CheckAlgorithm`, `CheckCorrupted`, `Select` | the early returns of `verify_data_hash`, in their order |
| `Exclude` | one iteration of `apply_exclusions`: the four checks, the slice, the cursor |
| `KeepTail` | the slice behind the last exclusion |
| `Compare` | the comparison of the digests |

**Session.** `text` is shared, `located` and `binding` are what the hosts hold
on to, `call` is the call just made with its arguments and its outcome, and
`traps` says whether the build checks its additions. `CallEmbed`,
`CallEncodePadded`, `CallExtract`, `CallStrip`, `CallCompute` and `CallVerify`
each stand for the Python function and for the JavaScript one; `Edit` is a
reader at the keyboard. `CallStrip` uses the range of an earlier `extract`,
however stale, and ranges the host came by otherwise.

**DataHashJson** writes `WriteRange`, `WriteAlg`, `WriteChunk` (three bytes of
Base64), `EndHash`, `EndPad`, in the order of the `format!` calls.

## 3. What the runs check

| run | instance | states | properties |
|---|---|---|---|
| `channel` | `MCAsset.cfg` | 61 901 | `TypeOK`, `CarrierNeverSilent`, `UnsignedIffNoSignature`, `PayloadSurvives`, `StripKeepsShown`, `StripLeavesUnsigned`, `ClaimNeedsSingleWrapper`, `BindsWhatStripLeaves`, `BindsContent` |
| `life` | `MCAssetLife.cfg` | 34 050 | `FinaliseKeepsClaims`, `BindsContent` |
| `checksum` | `MCAssetV2.cfg` | 67 563 | `TypeOKV2`, `UnsignedIffNoSignature`, `LocatedReencodes`, `AnyUnsignedExactly`, `V2FailsClosed`, `V2PayloadSurvives`, `V2NeverBinds`, `StripAnyClears` |
| `scan_loop` | `MCScanLoop.cfg` | 5 926 | `TypeOK`, `SlicesOnBoundaries`, `AnswersExtract`, `InOrderOfAppearance`, `DecodersAgree`, `StepsRunOut`, `Terminates` |
| `exclusion_loop` | `MCExclusionLoop.cfg` | 25 647 | `TypeOK`, `CursorOnBoundary`, `BytesAccounted`, `ExcludesExactly`, `VerifiesOneWrapper`, `AnswersHardBinding` |
| `session` | `MCSession.cfg` | 67 894 | `NoneMeansUnsigned`, `CodelessMeansUnsigned`, `StripTakesTheRange`, `HandsOver`, `VerifiedIsWhole`, `PlannedRoom` |
| `json` | `MCDataHashJson.cfg` | 7 477 | `ReadsBack` |
| `corrupted_doc` | `MCAssetCorrupted.cfg` | violated | `CorruptedMeansNoneDecodes` |
| `multiple_doc` | `MCAssetMultiple.cfg` | violated | `MultipleWrappersNeverVerify` |
| `v2_panics` | `MCAssetV2Panics.cfg` | violated | `V2Answers` |
| `json_name` | `MCDataHashJsonName.cfg` | violated | `ReadsBack` |
| `v2_several` | `MCAssetV2Several.cfg` | violated | `AnyIsTheOnlyOne` |

*Asset*

- `CarrierNeverSilent`: while the channel leaves the carrier alone, `extract`
  never says `NotFound`, whatever is typed, normalised or embedded around it.
- `UnsignedIffNoSignature`: `NotFound` means exactly that the marker followed
  by the encoded magic occurs nowhere in the text. In `checksum` this includes
  headers whose declared length overflows `usize`: the frame counts as
  corrupted, not as absent.
- `PayloadSurvives`: an untouched carrier that is the only one yields the
  manifest that was embedded, at the byte its marker is stored at, and a length
  that covers all of it. (It may cover more: a selector typed behind a wrapper
  joins its run.)
- `LocatedReencodes`: encoding what was decoded gives back what is stored, so no
  length is read that the header does not declare, in a narrow build either.
- `StripKeepsShown`: stripping the located range succeeds and takes nothing
  visible. `StripLeavesUnsigned`: and leaves nothing that is a wrapper, or half
  a wrapper that meets the rest of one.
- `ClaimNeedsSingleWrapper`: a claim that `compute_data_hash` made verifies
  only where `extract` finds a single wrapper.
- `FinaliseKeepsClaims`: replacing a padded placeholder by any manifest of its
  size leaves every verifying claim verifying.
- `BindsWhatStripLeaves`: where `extract` returns a wrapper, `compute_data_hash`
  succeeds, the hash is that of the normal form of what `strip` leaves, and the
  claim verifies. Normalising before the exclusion would shift the offsets and
  refuse every text that needs composing.
- `BindsContent`: `Asset` implements `ContentBinding`, with `content` mapped to
  what the text shows and `signed`, `accepted` to the contents of the claims. A
  step that computes a claim is `Sign`: the new claim verifies at once, and so
  does every other claim accepted, only for the same content. Every other step
  is `Change`: no claim comes to hold for content it was not made for.

*AssetV2*

- `AnyUnsignedExactly`: neither `v2::extract` nor `extract_any` calls a text
  unsigned while a signature of either version is stored in it.
- `V2FailsClosed`: whatever the channel does to a carrier, a v2 wrapper found
  inside it was embedded as v2 and yields the manifest that was embedded. A v1
  carrier cannot promise this (its padding slides into a body that lost a
  byte), which is what the checksum is for; the checksum must cover exactly
  the bytes that are returned.
- `V2PayloadSurvives`: an untouched v2 carrier that is alone in its text yields
  the manifest that was embedded, to `v2::extract` and to `extract_any`, which
  the v1 search has told before that the text is corrupted. Of texts with more
  than one wrapper the documentation says something else than the code does
  (section 5).
- `V2NeverBinds`: while a text holds a v2 wrapper no claim about it can be
  computed and none verifies, those made before it was embedded included.
- `StripAnyClears`: stripping what `extract_any` returned takes nothing visible
  and leaves no wrapper of its version; after a v1 wrapper, no trace of either.

*The loops*

- `SlicesOnBoundaries`, `CursorOnBoundary`: no slice of `scan`, `decode_run` or
  `apply_exclusions` panics. `InOrderOfAppearance`: the located ranges are
  ascending and disjoint, so each is a legal exclusion. `DecodersAgree`:
  `decode_exact` accepts a rest exactly if it is nothing but a run, and then
  reads what `decode_run` reads.
- `BytesAccounted`: every byte in front of the cursor was kept once or excluded
  once. `ExcludesExactly`: the lists `apply_exclusions` refuses are exactly
  those that are out of order, overlapping, out of bounds or cut a character,
  and what it keeps are exactly the characters no range covers; both sides
  defined without a cursor.
- `VerifiesOneWrapper`: what `verify_data_hash` accepts excludes one wrapper
  that is there, whole, and nothing else, beside no corrupted candidate, and
  its hash is that of everything else.
- `AnswersExtract`, `AnswersHardBinding`: the loops answer what the operators
  of `Wrapper` and `HardBinding`, which all other modules use, say they do.
- `Terminates`: `scan`, whose loop computes where it resumes, always moves on.
  `StepsRunOut` says why: a natural number, made of the passes to
  come and the bytes in front of this one, that every step makes smaller.

*Session*

- `NoneMeansUnsigned`, `CodelessMeansUnsigned`: `extract` returns `None` and
  `compute_data_hash` raises without a code exactly for texts without a
  signature, and everything else that is raised carries a code.
- `StripTakesTheRange`: if `strip` returns, the range fits the text, and what
  it returns is the text without it, character by character. `start + length`
  may have overflowed, trapping or wrapping: a wrapped end lies in front of the
  start, which `strip` refuses.
- `HandsOver`: a binding one language computed is accepted by both while the
  text is the one it was computed for. `VerifiedIsWhole`: a verification that
  returns was given one range with a start and a length, and a wrapper stands
  there; a list cut short by `zip` does not get through.
- `PlannedRoom`: `target_length` announces exactly what `encode_padded` takes
  and no less than `encode` takes, whatever the bytes of the manifest. The
  manifests of `session` fit (`ManifestsFit`).

*DataHashJson*

- `ReadsBack`: a reader of JSON and Base64, written here the other way round,
  gets every field back, for every length of the last chunk. It reads strings
  by RFC 8259: a quotation mark ends one, a backslash begins an escape, a
  control character is an error. Quotation marks and brackets are symbols of
  the text for this reason, and a name may hold brackets, colons and commas.

`PublishedVectors` is evaluated with the runs of `ScanLoop`, which have the
four-byte length field: the sizes 114, 125 and 187, the padding `00 10 10` of a gap of 11, the
gaps that no padding fills, and the status code of every negative case of the
public corpus hold of the model.

Each property of a passing run has a mutant in `PROJECT.json` that breaks it.

**Bounds, and why they are enough.** `MCAsset` has one character of every kind
the code tells apart: a letter that composes, the combining accent it composes
with, a marker standing alone (a byte-order mark) and a selector standing alone
(the emoji selector). The manifests are `<<1>>` and `<<200>>`: one byte each,
one that encodes to three bytes and one that encodes to four, so that lengths
differ between manifests of one size (`life` adds the empty one). The channel
mangles by dropping a carrier character or putting another selector or a letter
in its place (a letter in `MCAsset` only): each field of the frame (magic, version, length, body, checksum)
is hit. `MaxSteps` is 3 in `channel` and `checksum` (embed, claim, change;
embed, mangle, embed again; embed, edit, strip) and 4 in `life` (embed, claim,
embed again, strip or claim again; place, claim, finalise, edit). `MaxCalls` is
4 in `session` (embed, extract, edit, strip; embed, compute, embed again,
verify). No operation tells more than two wrappers from two, or looks past a
neighbouring character, so a longer behaviour repeats what a short one does.

`MCScanLoop` is every concatenation of up to two of seven pieces: characters
of one, two and three bytes, a marker, a selector, a wrapper that decodes, one
of another version, a truncated one; and of three, where the third is one that
joins a run or begins one (a selector, a marker, a wrapper). `MCExclusionLoop` applies every list of up
to two ranges, from each byte of a text of a two-, a three- and a four-byte
character and from behind it, whole, cut, empty and overflowing, and the lists
of three that pass through the loop in steps; it verifies every list of up to
two ranges at or a byte beside the wrappers of texts that hold none, one, two,
and one beside a truncated one. `MCDataHashJson` has every hash of up to three
bytes over five byte values, and some of four, so that the last chunk is empty,
short and whole.

*Narrow builds.* `MCAssetV2`, `MCExclusionLoop` and `MCSession` take a length
field of one byte and a `USIZE_MAX` of 255, as a 32-bit build has a field and a
`usize` of four bytes each: `HEADER_LEN` plus a declared length, a declared
length plus the checksum, and a start plus a length can all overflow. The texts
stay shorter than 255 bytes. `MCAsset` has the four-byte field and a `USIZE_MAX`
that no text reaches. The results that do not depend on the width are proved
for every width (section 4).

**Digest and normaliser.** `MCAsset`, `MCExclusionLoop` and `MCSession` run with
`IdealDigest`, which is collision-free (a digest that collides binds nothing).
`MCAssetV2` runs with a small polynomial hash in four bytes, because a
checksum is stored in the text and must be a byte string; a collision would
show as a violation of `V2FailsClosed`.
`MCAsset` composes the one pair of its alphabet; elsewhere `Nfc` is the
identity, because what composes does not matter there. Most proofs hold for
every digest and every normaliser that returns a text; section 4 names the few
that need more, and why they do.

**Fairness and deadlock.** `Asset`, `AssetV2` and `Session` state none: nothing
obliges a generator, an editor or a host to act, and they have only safety
properties. `ScanLoop` has `WF_vars(Next)`: it is the body of a function call,
and nothing else is scheduled until it returns. `ExclusionLoop` and
`DataHashJson` state none: they iterate over slices, which end whatever the
code does with their elements, so that they return is not worth a property.
All of them stop (after `MaxSteps` or `MaxCalls`,
after the return), so deadlock is not checked.

## 4. What is proved

`tlapm` checks these for every value of the constants; no leaf is left out.

| theorem | module | says |
|---|---|---|
| `RunRoundTrip` | `VariationSelectorsProofs` | `decode_run` returns the bytes `encode_run` was given and stops at their end, unless the text behind begins with a selector |
| `PaddedLength` | `WrapperProofs` | `encode_padded` never fails for a payload whose length fits the field and whose target length fits `usize`, and is exactly `target_length` bytes long |
| `NotFoundIffNoSignature` | `WrapperProofs` | `extract` says `NotFound` exactly if the signature occurs nowhere |
| `StripRemovesWrapper` | `WrapperProofs` | stripping a located range removes the marker and its whole run, and nothing else |
| `StripUnsigns` | `WrapperProofs` | stripping the wrapper `extract` returns leaves a text for which it says `NotFound` |
| `StoredReencodes` | `WrapperProofs` | encoding the payload of a located wrapper gives back the characters stored at its range |
| `VerifiesExactly` | `HardBindingProofs` | what `verify_data_hash` accepts, as an equivalence: a known algorithm, no corrupted candidate, and for one located wrapper the single range and the digest of the rest |
| `TypeCorrect` | `AssetProofs` | `Spec => []TypeOK` |
| `UnsignedExactly` | `AssetProofs` | `Spec => []UnsignedIffNoSignature` |
| `NeverSilent` | `AssetProofs` | `Spec => []CarrierNeverSilent` |
| `PayloadReadBack` | `AssetProofs` | `Spec => []PayloadSurvives` |
| `LocatedIsEncoded` | `AssetProofs` | `Spec => []LocatedReencodes` |
| `StrippedIsUnsigned` | `AssetProofs` | `Spec => []StripLeavesUnsigned` |
| `StrippedIsSeenTheSame` | `AssetProofs` | `Spec => []StripKeepsShown` |
| `BoundIsStripped` | `AssetProofs` | `Spec => []BindsWhatStripLeaves`, for every digest and normaliser |
| `FinaliseIsSafe` | `AssetProofs` | `Spec => FinaliseKeepsClaims`, for every digest |
| `AcceptedIsAlone` | `AssetProofs` | `Spec /\ []NoCollision => []ClaimNeedsSingleWrapper` |
| `BindingHolds` | `AssetProofs` | `Spec /\ []NoCollision => BindsContent`: the asset implements `ContentBinding` |
| `TypeCorrectV2` | `AssetProofs` | `SpecV2 => []TypeOKV2` |
| `UnsignedExactlyV2` | `AssetProofs` | `SpecV2 => []UnsignedIffNoSignature /\ []AnyUnsignedExactly` |
| `LocatedIsEncodedV2` | `AssetProofs` | `SpecV2 => []LocatedReencodes` |
| `V2IsNoBinding` | `AssetProofs` | `SpecV2 => []V2NeverBinds`, for every digest |
| `StrippedAny` | `AssetProofs` | `SpecV2 => []StripAnyClears` |
| `PayloadReadBackV2` | `AssetProofs` | `SpecV2 => []V2PayloadSurvives`, in every build |
| `UntouchedFailsClosed` | `AssetProofs` | `SpecV2 => [](~mangled => V2FailsClosed)` |
| `WideBuildAnswers` | `AssetProofs` | in a wide build `SpecV2 => []V2Answers`: the search never panics |
| `TypeCorrect` | `ScanLoopProofs` | `Spec => []TypeOK` |
| `NeverCutsACharacter` | `ScanLoopProofs` | `Spec => []SlicesOnBoundaries` |
| `PassesAnswerExtract` | `ScanLoopProofs` | `Spec => []AnswersExtract`: the two passes compute `Extract` |
| `WrappersInOrder` | `ScanLoopProofs` | `Spec => []InOrderOfAppearance` |
| `DecodersNeverDisagree` | `ScanLoopProofs` | `Spec => []DecodersAgree` |
| `PassesRunOut` | `ScanLoopProofs` | `Spec => StepsLeft = 6 * ByteLen(text) + 4 /\ StepsRunOut` |
| `TypeCorrect` | `ExclusionLoopProofs` | `Spec => []TypeOK`: the cursor never leaves the text |
| `SlicesOnBoundaries` | `ExclusionLoopProofs` | `Spec => []CursorOnBoundary`: `apply_exclusions` never slices inside a character, on any ranges |
| `LoopAnswers` | `ExclusionLoopProofs` | `Spec => []AnswersHardBinding`: the loop and the early returns compute `ApplyExclusions` and `VerifyDataHash` |
| `EveryByteCounts` | `ExclusionLoopProofs` | `Spec => []BytesAccounted` |
| `AppliesExactly` | `ExclusionLoopProofs` | `ApplyExclusions` is `Ok(KeptChars)` of the legal lists and `MalformedExclusion` of the others |
| `ExactlyTheRanges` | `ExclusionLoopProofs` | `Spec => []ExcludesExactly` |
| `OneWrapperVerified` | `ExclusionLoopProofs` | `Spec => []VerifiesOneWrapper` |
| `NoneIsUnsigned` | `SessionProofs` | `SSpec => []NoneMeansUnsigned`, in either language |
| `CodelessIsUnsigned` | `SessionProofs` | `SSpec => []CodelessMeansUnsigned`, in either language |
| `StripsTheRange` | `SessionProofs` | `SSpec /\ []TextFits => []StripTakesTheRange` |
| `BindingHandsOver` | `SessionProofs` | `SSpec => []HandsOver` |
| `VerifiesAWholeRange` | `SessionProofs` | `SSpec => []VerifiedIsWhole` |
| `PlansTheRoom` | `SessionProofs` | `SSpec => []PlannedRoom`, for manifests that fit |
| `Base64ReadsBack` | `DataHashJsonProofs` | `Unbase64` of all chunks of a byte string is that byte string |
| `ReadAsWritten` | `DataHashJsonProofs` | `Spec => []IInv`: after every step the reader has got what has been written |
| `TextReadsBack` | `DataHashJsonProofs` | `Spec => []ReadsBack`, for bindings that need no escape |

**Assumptions.** Of the constants: `WidthAssumption` (the length field has at
least one byte, `USIZE_MAX` is a natural number), `AssetAssumption` (the inputs
are texts, byte strings and known algorithms, and the frame of a manifest, one
`Vec<u8>`, has a length that is a `usize`), `AssetV2Assumption` (with its checksum, too), `TextsAssumption`,
`CallsAssumption` (a call is given a text and a list of ranges that fit
`usize`), `DataHashesAssumption` (the fields of a `DataHash` have their types)
and `SessionAssumption` (the hosts pass texts, byte strings and ranges
that fit `usize`). TLC evaluates them on every run of their modules.

What the crate leaves to its host is a hypothesis of the theorems that need it,
and of no other:

- `NormalizerTotal`, in `AssetProofs`: `Nfc` of a text is a text, the signature of `Normalizer::nfc`.
- `NormalizerKeepsSignatures`, in `AcceptedIsAlone`: `Nfc` neither makes nor
  breaks a signature. `NormalizerKeepsShown`, in `BindingHolds`: texts of one
  normal form have one when markers and selectors are taken out of both. Both
  hold of NFC, which composes nothing with a byte-order mark or a selector; a
  host that injects another normaliser must see to it.
- `[]NoCollision`, in the same two: while the behaviour lasts, the hash of a
  claim equals the digest of the asset without one of its wrappers only if it
  was computed of that very text. It is a hypothesis about the behaviour and
  not about the digest: a digest of fixed size has collisions, and the promise
  of a hash is that nobody meets one. A digest without collisions would satisfy
  it (`CollisionsUnseen`).
- `ChecksumsWhole`, in the theorems on `AssetV2`: the injected `Hasher` returns at least
  the four bytes a checksum takes, as the trait asks.
- `WideBuild`, in `WideBuildAnswers`: `usize` holds every frame and checksum
  that a length field can declare, as 64 bits do. In a narrow one the run
  `v2_panics` violates what the theorem says. `PayloadReadBackV2` does without:
  a frame that was encoded, checksum included, is no longer than `usize` counts
  (`AssetV2Assumption`).
- `[]TextFits`, in `StripsTheRange`: the text is no longer than `USIZE_MAX`. Every
  `String` is; `Session` does not bound its texts otherwise. Without it the
  ranges `extract` returns would not be `usize`s.
- `ManifestsFit`, in `PlansTheRoom`: a manifest fits the length field, and its
  padded wrapper the address space; `PaddedLength` says the same of one payload.
  Beyond that `target_length` traps or wraps (section 5). (In
  `Asset` a manifest is padded only where `encode_padded` returns.)
- `Legible`, of every binding, in `ReadAsWritten` and `TextReadsBack`: neither
  the alg nor the name holds a quotation mark, a backslash or a control
  character, which JSON wants escaped and `to_json` does not escape
  (`json_name`), and a number written in decimal is neither a
  bracket nor a quotation mark. The latter is a fact about `ToString`, which is
  just some string to the prover.

TLC evaluates these on what the runs use: `SampleAssumption` in `MCAsset` (the
normaliser and the digest, on all texts of up to three characters and on
signatures between them), `ChecksumAssumption` in `MCAssetV2`,
`LegibleAssumption` in `MCDataHashJson` (and that names with one of the three
characters are not `Legible`), `RoomAssumption` in `MCSession`; the texts of `MCSession` stay below 255 bytes.
A `NormalizerTotal` over all texts is not for TLC.

**The facts about texts.** `PrefixLen` is a recursive function; its defining
equation is proved by induction (`PrefixLenDef`), and from it that offsets
increase strictly, so that a byte offset names one character boundary
(`CharsBeforeOffset`) and a slice between two of them is the part between them
(`SliceAtOffsets`, `SliceLength`). On these rest what a marker's visit is
(`VisitProperties`), that the magic is decoded exactly where its encoding
stands (`MagicIffSignature`), and with it `NotFoundIffNoSignature`; that the
four bytes of a length are read back as the length (`LengthReadsBack`), so that a
frame decodes to its payload whatever stands around it (`CarrierDecodes`,
`SoleFrame`); and that a located wrapper is the text between its marker and the
end of its run (`WithoutParts`).

`StripUnsigns` is where a mistake would hide. If the signature occurred in what
is left, it would lie in front of the removed range, behind it, or across the
seam. In front or behind, it already occurred in the text at another place; but
`extract` succeeded, so no candidate is corrupted and only one decodes, and the
signature occurs once (`OneSignature`). Across the seam, the first character
behind the removed run would be a selector; but the run ends only where no
selector follows. `RunsOfRest` says the same of every run: what is left when a
marker and its run are gone has no run the text did not have.

**The argument for `Asset`.** The invariant is

    IInv == PartsOK /\ ClaimsOK /\ ClaimsHonest /\ CarrierFramed /\ AcceptedNow

`TypeOK` alone would be inductive, but what the properties say of the whole text
is not: an edit next to the carrier would have to be followed through the scan.
`CarrierFramed` says instead that an untouched carrier is a frame of the
payload, padded or not, which no edit around it can change (`EmbedManifest`,
`EmbedPlaceholder` and `FinaliseManifest` establish it, `Mangle` gives it up);
the facts about texts turn that into `CarrierNeverSilent` and
`PayloadSurvives`. `ClaimsHonest` keeps what the properties about claims need
and the claims themselves do not show: for each claim there was a text, the
asset without one of its wrappers, whose normal form was hashed and whose
visible part is the content the claim is for, and without a signature in it if
`compute_data_hash` made the claim. `AcceptedNow` says that `accepted` is up to
date. There is one lemma per action and `NextInv` combines them.

`BindingHolds` is the refinement, step by step: the initial state is one of
`ContentBinding`; a step that computes a claim is `Sign`, because the hash just
computed verifies at once (`ComputedClaim` and `VerifiesExactly`); any other
step is `Change` or a stutter, because a claim it makes acceptable has the
digest, so by `NoCollision` the text, so by `NormalizerKeepsShown` the content
of the asset as it is now. `FinaliseIsSafe` needs none of this: a placeholder
stands at the end of its text, and the padded manifest that replaces it has
the same length by `PaddedLength`, so the same range and the same rest
(`TrailingFrame`).

**The argument for `AssetV2`.** `IInvV2` has `VersionOK` and `CarrierFramedV2`
(an untouched carrier is a frame of the payload, of the version it was embedded
in) in place of `CarrierFramed`, and does without `ClaimsHonest`. `V2NeverBinds`
needs no digest: a run that decodes as version 2 is a corrupted candidate of
version 1, and `compute_data_hash` and `verify_data_hash` stop at one.
`StripAnyClears` is `RunsOfRest` once more. For `UntouchedFailsClosed`, the only
marker among the bytes of a carrier is its first character
(`OneMarkerInside`), and the run behind it begins with the frame whatever
follows (`CarriedRun`): the version byte of a v1 frame rules version 2 out, and
a v2 frame decodes to its payload (`InsideFrame`).

**The argument for `ScanLoop`.** The invariant says that there is a number `m`
of characters such that the pass is `At(m)`: `from` is the offset behind the
first `m` characters, what is being read is the run of the marker the pass
stands at, what has been found (or the answer of the first pass so far) is what
the first `m` characters hold, and every range found ends at or before `from`.
To this it adds that the second pass runs only without a corrupted candidate,
that found ranges are not empty, and the two properties that are about the end
of a call. `AnswersExtract` then follows from `m = Len(text)`.

`StepsRunOut` needs of it only `Placed`: where a pass has come to is in the
text, and the end of a run is behind the place the find started at. A find or a
selector then moves on by at least one byte, which counts two; the end of a run
moves on by none, but closes it, which counts one; and the end of a pass gives
up more than the next can begin with.

**The argument for `ExclusionLoop`.** The invariant is

    IInv == ShapeOK /\ Passed /\ LoopOK /\ AnswersHardBinding

`AnswersHardBinding` speaks of the end of a call only and is not inductive.
`Passed` says what each early return of `verify_data_hash` has ruled out by the
time the next check runs; `LoopOK` that the exclusions taken up so far are good
ones, that the cursor is the end of the last (`Cursor`), and that what was kept
is the partial result of `ApplyExclusions` (`KeptBefore`, a recursive function
whose equation `KeptBeforeDef` is proved by induction). An exclusion is refused
exactly if it is not a good one (`RefusedIsBad`), which is where the loop and
the expression part at the same place; and the cursor of a good one is on a
boundary of the text (`CursorBoundary`), which makes the next slice a text and
gives `SlicesOnBoundaries`. Nothing is assumed of the ranges beyond the width of
`usize`.

`ExcludesExactly` compares the loop with a definition that has no cursor:
`Legal` looks at the ranges pairwise, `KeptChars` at the characters one by one.
Each range good after the one before it is the same as all of them legal
pairwise (`GoodInOrder`, `LegalIsGood`), and what the loop has kept is
`KeptUpTo` the character at the cursor (`KeptBeforeRange`): between two ranges
every character is kept (`KeptStretch`), inside one none is (`KeptGap`).
`BytesAccounted` follows from the lengths of the slices (`KeptAndExcluded`).

**The argument for `Session`.** The properties speak of the call just made, so
each call has a lemma of what it may come out as (`ExtractOutcome`,
`ComputeOutcome`, `EmbedOutcome`, `StripOutcome`, `ComputeReturns`,
`VerifyOneRange`), the same for both languages. `NoneMeansUnsigned` and
`CodelessMeansUnsigned` reduce to `NotFoundIffNoSignature`; that a wrapper which
was found never looks like `None`, whatever the casts make of its range, is
`LocatedIsNotNone`.

Three properties depend on what a host keeps from an earlier call, and need an
invariant about that. `StripSafe` says that the range kept is made of two
`usize`s, whichever text it came from: then an end that overflows either traps
or wraps to an end in front of its start, which `strip` refuses
(`StripReturns`), and an end that does not is the one the host meant
(`StripTakesRange`). `BindingOK` says that the binding kept, whatever language
made it, holds the one range of a wrapper of the text it was made for, and the
digest of the rest (`Binds`): the conversions to pairs, to `u32`s and to two
vectors and back are the identity on one range of `usize`s (`SingleRange`).
`HandsOver` is then `VerifiesExactly` from right to left, `VerifiedIsWhole` the
same from left to right.

**The argument for `DataHashJson`.** `ReadsBack` speaks of the whole text, and
its reader is a recursion over it; what makes it provable is that the reader
can be stopped anywhere. `ReadFromJoin` says that reading two pieces in a row is
reading the second from the state the first has left, so a step of the writer
only has to be followed by the reader through what that step adds (`Takes`).
The invariant

    IInv == TypeOK /\ Got

says for each `pc` which state that is: outside of strings with the ranges
written so far, or inside the string of the hash or of the pad with the Base64
of the whole chunks before `done` in it. A plain symbol is added to a string as
it is (`TakesPlain`), which is where `Legible` is needed and where a character
that must be escaped would break the proof; the characters of Base64 are plain
(`SymbolsTyped`).

`Base64ReadsBack` is the other half. The number of a chunk has four digits to
the base of 64 and three to the base of 256 (`FourDigits`, `ThreeBytes`); no two
letters of the table are the same (`TableInjective`); the padding counts for
nothing in the digits and takes one or two bytes off the length
(`SymbolsReadBack`). `WriteChunk` cuts whole chunks off the front, so the
chunk that is short is the last one (`NextChunk`). At the end the strings of the
text stand in pairs behind the first, so that no value is taken for a key
(`FoundFields`), whatever the values are.

**Only model-checked.**

- `V2FailsClosed` of a mangled carrier depends on the checksum: four bytes
  collide, and a channel that replaces characters at will can hit one. A
  hypothesis that it does not would be the property itself. Proved is the other
  half, `UntouchedFailsClosed`: nothing around an untouched carrier makes
  another v2 wrapper of it. `checksum` checks both.
- `Terminates` is liveness under fairness, beyond the prover. What is proved
  instead is `StepsRunOut`, for every text: a natural number is left smaller by
  every step of the scan, so that no behaviour takes steps for ever. That a
  scan which has not ended can take one is left to TLC.

## 5. Where the code and its documentation part

- **`corrupted_doc`.** `error.rs:43-45` says of `CorruptedWrapper` that
  candidates were detected "but none fully decoded", and the table of
  `README.md:115` "candidate detected, none decodes". `extract` returns it as
  soon as one candidate fails, beside any number that decode; `README.md:131-132`
  says so. Embed, embed another one behind it, mangle a selector of the first:
  `locate_all` finds the second wrapper and `extract` answers
  `CorruptedWrapper`.
- **`multiple_doc`.** `error.rs:33-37` says the crate follows the failure code
  for several wrappers, so that no hash passes over a text the claim never
  described. `extract` and `compute_data_hash` do; `verify_data_hash` selects by
  exclusion and accepts a claim over a text with two valid wrappers, as its own
  comment (`hardbinding.rs:247-248`) intends. What does hold is
  `ClaimNeedsSingleWrapper`: a claim made by `compute_data_hash` itself cannot
  come to verify over two.
- **`v2_panics`.** `wrapper.rs:232-233` says that "a corrupted run fails its
  checksum and is rejected, rather than decoding to wrong bytes or vanishing
  silently". `frame_bounds` checks `HEADER_LEN + declared`, but line 270 adds
  `CHECKSUM_LEN` to the sum unchecked: where that does not fit `usize` the
  addition traps, or wraps and the slice of line 273 is out of bounds. On a
  32-bit build the declared lengths 2^32 - 17 to 2^32 - 14 do it.
- **`json_name`.** `hardbinding.rs:119-121` says that `to_json` serialises "to
  the JSON shape consumed when building a manifest". Line 136 puts the name
  between quotation marks as it is: a quotation mark or a backslash in it ends
  the string early or changes what follows, and a control character has no
  place in a JSON string. The run has a name with a quotation mark.
  `ReadsBack` holds of names without these (`json`, `TextReadsBack`).
- **`v2_several`.** `wrapper.rs:296` calls what `extract_any` returns "the single
  valid wrapper in `text`, accepting either frame version". Of a valid v1 and a
  valid v2 wrapper it returns one: the v1 search takes the v2 wrapper for a
  corrupted one, and line 304 goes on to the v2 search, which sees only its own.

Met while modelling, without a run of their own:

- The comment in `wrapper.rs:306` says "Neither frame decoded; keep whichever
  actually saw a candidate", and the table of `README.md:116` would have two
  valid wrappers reported as `multipleWrappers`. Of two v1 wrappers and no other
  `extract_any` says `CorruptedWrapper` (`wrapper.rs:308`): both decode, but not
  as version 2.
- `wrapper.rs:315-316` says "A run whose checksum fails yields `CorruptedWrapper`
  rather than `NotFound`". If another v2 wrapper decodes, `v2::extract` returns
  that one and passes over the run (line 320); the v1 search refuses such a text.
- `wrapper.rs:83-84` gives the target length as `3 + (13 + M) * 4 + 6`. Line 89
  computes it in `usize`: where that has 32 bits, as in WebAssembly, the sum
  traps or wraps from `M` = 2^30 - 15 on. `encode_padded` does not return for
  such a manifest: it asks for the same number first, and in a build that wraps,
  the string it would have to write is longer than the allocator grants;
  `EncodePadded` is a panic there.

## 6. What is not modelled

- RustCrypto and UnicodeNfc, which call external crates; a `Hasher` that
  returns fewer than the four bytes the checksum takes (`wrapper.rs:254`).
- The wording of `Display`, and what the bindings do with it.
- The registration of the Python module (`python.rs` 151-166), the module
  declarations of `lib.rs`, the fuzz driver (four lines that call `extract` and
  `locate_all`), build files and release workflows: no logic of the crate.
- The selectors of the published wrapper, character by character; its sizes,
  range and status codes are.
- Text that is not well-formed Unicode and numbers that are not `usize`: PyO3
  and wasm-bindgen refuse or replace them before the crate is entered.
- Memory exhaustion. `String::with_capacity` is taken to succeed, but for
  `encode_padded` of a manifest whose target length does not fit `usize`
  (section 5); `PyTargetLength` and `JsTargetLength` model both outcomes of the
  sum itself.
- Escapes by number (`\u00e9`) in the reader of `DataHashJson`: `to_json` writes no
  escapes, and a name that contains one counts as unreadable.
- A range that has become stale and still fits the text: `strip` takes what it is
  asked for, and nothing in the API ties a range to a text.

## 7. Plan

Every safety property the runs check is proved, but for `V2FailsClosed` of a
mangled carrier, which needs a promise of the checksum that four bytes cannot
give. What could follow:
a version of `to_json` that escapes, against which `ReadsBack` would hold
without `Legible`.
