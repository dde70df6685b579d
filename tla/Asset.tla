------------------------------- MODULE Asset -------------------------------
(***************************************************************************)
(* The life of one asset: a text that a generator embeds a manifest in,    *)
(* computes a hard binding for, and later finalises or strips, while the   *)
(* channels it travels through edit, normalise, extend or mangle it.       *)
(*                                                                         *)
(* The crate keeps no state of its own: its state is the text in the       *)
(* caller's hands and the claims made about it.  Every action of a         *)
(* generator calls the operators of Wrapper and HardBinding on that text   *)
(* exactly as a caller of the crate does; a validator only reads, and is   *)
(* asked about every claim after every step.  The actions of the channel   *)
(* are the environment of the crate ("clipboard-portable", "may arrive in  *)
(* any normalization form", src/hardbinding.rs).                           *)
(***************************************************************************)
EXTENDS HardBinding

CONSTANTS
  Hosts,         \* texts a manifest is first embedded in
  Payloads,      \* manifests
  Algorithms,    \* hash algorithms claims are computed with
  Typed,         \* what the channel types in place of a host character
  Mangling,      \* what the channel puts in place of a carrier character
  MaxSteps       \* bound on the length of a behaviour

ASSUME AssetAssumption ==
  /\ Hosts \subseteq Seq(Char)
  /\ Payloads \subseteq Seq(Byte)
  /\ \A p \in Payloads : HEADER_LEN + Len(p) <= USIZE_MAX  \* a frame is one Vec<u8>
  /\ Algorithms \subseteq AlgorithmIds
  /\ Typed \subseteq Seq(Char)
  /\ Mangling \subseteq Seq(Char)
  /\ MaxSteps \in Nat

VARIABLES
  before,    \* host text in front of the carrier (all of it while unsigned)
  carrier,   \* what the generator last embedded, as the channel left it
  after,     \* whatever has been appended behind the carrier
  payload,   \* the manifest last embedded
  mangled,   \* the channel has changed a character of the carrier
  claims,    \* the bindings computed so far, with what they hashed and saw
  accepted,  \* the claims that verify against the asset as it is
  steps

vars == <<before, carrier, after, payload, mangled, claims, accepted, steps>>

\* The text as stored.
Text == before \o carrier \o after

\* What a reader sees of a text: everything but markers and selectors.
Visible(c) == c # MARKER /\ ~IsVs(c)

\* What is visible of each prefix of s.
Seen(s) ==
  LET seen[i \in 0 .. Len(s)] ==
        IF i = 0 THEN <<>>
        ELSE IF Visible(s[i]) THEN Append(seen[i - 1], s[i]) ELSE seen[i - 1]
  IN  seen

Shown(s) == Nfc(Seen(s)[Len(s)])

\* hardbinding::verify_data_hash, of every claim.
Verifying(text, made) == {c \in made : IsOk(VerifyDataHash(text, c.binding))}

\* Replace n characters of s from index i by new.
Splice(s, i, n, new) == SubSeq(s, 1, i - 1) \o new \o SubSeq(s, i + n, Len(s))

Step == steps < MaxSteps /\ steps' = steps + 1

\* A validator looks at the asset after every step.
Validate == LET text == Text' IN accepted' = Verifying(text, claims')

Init ==
  /\ before \in Hosts
  /\ carrier = <<>>
  /\ after = <<>>
  /\ payload = <<>>
  /\ mangled = FALSE
  /\ claims = {}
  /\ accepted = {}
  /\ steps = 0

-----------------------------------------------------------------------------
(* The generator *)

\* wrapper::embed on a text that carries nothing yet: the whole text becomes
\* the host, and what embed appends to it the carrier.
EmbedManifest(p) ==
  LET asset == Embed(Text, p)
  IN  /\ Step
      /\ carrier = <<>>
      /\ IsOk(asset)
      /\ before' = Text
      /\ carrier' = SubSeq(asset.ok, Len(Text) + 1, Len(asset.ok))
      /\ after' = <<>>
      /\ payload' = p
      /\ mangled' = FALSE
      /\ UNCHANGED claims
      /\ Validate

\* format!("{text}{}", encode_padded(payload)?): the placeholder whose length
\* depends on the size of the manifest alone.
EmbedPlaceholder(p) ==
  LET encoded == EncodePadded(p)
  IN  /\ Step
      /\ carrier = <<>>
      /\ IsOk(encoded)
      /\ before' = Text
      /\ carrier' = encoded.ok
      /\ after' = <<>>
      /\ payload' = p
      /\ mangled' = FALSE
      /\ UNCHANGED claims
      /\ Validate

\* Replace the placeholder by the finished manifest, of the same size: extract,
\* strip the located range, append the new wrapper.
FinaliseManifest(p) ==
  LET located == Extract(Text)
      rest    == Strip(Text, located.ok.start,
                       located.ok.start + located.ok.length)
      encoded == EncodePadded(p)
  IN  /\ Step
      /\ carrier # <<>> /\ after = <<>>
      /\ Len(p) = Len(payload)
      /\ payload' = p
      /\ mangled' = FALSE
      /\ UNCHANGED <<after, claims>>
      /\ IsOk(located) /\ IsOk(rest) /\ IsOk(encoded)
      /\ before' = rest.ok
      /\ carrier' = encoded.ok
      /\ Validate

\* hardbinding::compute_data_hash
ComputeClaim(alg) ==
  LET computed == ComputeDataHash(Text, alg)
  IN  /\ Step
      /\ IsOk(computed)
      /\ claims' = claims \cup {[binding  |-> computed.ok,
                                hashed   |-> HashedBytes(Text, computed.ok.exclusions).ok,
                                shown    |-> Shown(Text),
                                computed |-> TRUE]}
      /\ UNCHANGED <<before, carrier, after, payload, mangled>>
      /\ Validate

\* A generator that follows placement rule 5 writes the assertion itself: it
\* excludes one of the located wrappers, of a text in which none is corrupted,
\* and hashes the rest (hardbinding::hashed_bytes).
SelectWrapper(alg) ==
  /\ Step
  /\ ~HasCorruptedCandidate(Text)
  /\ \E w \in LocateAll(Text) :
       LET covered == HashedBytes(Text, <<RangeOf(w)>>)
       IN  /\ IsOk(covered)
           /\ claims' = claims \cup
                {[binding  |-> [exclusions |-> <<RangeOf(w)>>,
                                alg        |-> alg,
                                hash       |-> Digest(alg, covered.ok)],
                  hashed   |-> covered.ok,
                  shown    |-> Shown(Text),
                  computed |-> FALSE]}
  /\ UNCHANGED <<before, carrier, after, payload, mangled>>
  /\ Validate

\* wrapper::strip of the range extract reports.
StripManifest ==
  LET located == Extract(Text)
      rest    == Strip(Text, located.ok.start,
                       located.ok.start + located.ok.length)
  IN  /\ Step
      /\ IsOk(located) /\ IsOk(rest)
      /\ before' = rest.ok
      /\ carrier' = <<>>
      /\ after' = <<>>
      /\ mangled' = FALSE
      /\ UNCHANGED <<payload, claims>>
      /\ Validate

\* wrapper::embed on a text that already carries a manifest.
AccreteManifest(p) ==
  LET asset == Embed(Text, p)
  IN  /\ Step
      /\ carrier # <<>>
      /\ IsOk(asset)
      /\ after' = SubSeq(asset.ok, Len(before \o carrier) + 1, Len(asset.ok))
      /\ UNCHANGED <<before, carrier, payload, mangled, claims>>
      /\ Validate

-----------------------------------------------------------------------------
(* The channel *)

\* Type, erase or replace one character of the host text.
EditBefore ==
  /\ Step
  /\ \E i \in 1 .. Len(before) + 1, n \in 0 .. 1, new \in Typed :
       /\ i + n <= Len(before) + 1
       /\ before' = Splice(before, i, n, new)
  /\ UNCHANGED <<carrier, after, payload, mangled, claims>>
  /\ Validate

EditAfter ==
  /\ Step
  /\ carrier # <<>>
  /\ \E i \in 1 .. Len(after) + 1, n \in 0 .. 1, new \in Typed :
       /\ i + n <= Len(after) + 1
       /\ after' = Splice(after, i, n, new)
  /\ UNCHANGED <<before, carrier, payload, mangled, claims>>
  /\ Validate

\* Store the whole text in NFC.  A marker or a selector composes with nothing,
\* so the three parts are normalised apart and the carrier is unchanged.  (What
\* is left of a mangled carrier is taken not to compose either.)
Normalise ==
  /\ Step
  /\ before' = Nfc(before)
  /\ after' = Nfc(after)
  /\ UNCHANGED <<carrier, payload, mangled, claims>>
  /\ Validate

\* Drop, replace or insert one character of the carrier.
Mangle ==
  /\ Step
  /\ \E i \in 1 .. Len(carrier), n \in 0 .. 1, new \in Mangling :
       carrier' = Splice(carrier, i, n, new)
  /\ mangled' = TRUE
  /\ UNCHANGED <<before, after, payload, claims>>
  /\ Validate

Next ==
  \/ \E p \in Payloads : \/ EmbedManifest(p)
                         \/ EmbedPlaceholder(p)
                         \/ FinaliseManifest(p)
                         \/ AccreteManifest(p)
  \/ \E alg \in Algorithms : ComputeClaim(alg) \/ SelectWrapper(alg)
  \/ StripManifest
  \/ EditBefore
  \/ EditAfter
  \/ Normalise
  \/ Mangle

Spec == Init /\ [][Next]_vars

-----------------------------------------------------------------------------
(* What the crate leaves to the host: the Normalizer and the Hasher that are *)
(* injected are taken to do what their traits say.  The first two are stated *)
(* of a set of texts; NoCollision is about a behaviour.                      *)

\* NFC composes nothing with a marker or a selector: it neither makes nor breaks
\* a candidate.
NormalizerKeepsSignatures(S) ==
  \A s \in S : Occurs(Signature, Nfc(s)) <=> Occurs(Signature, s)

\* Texts of one normal form still have one when the markers and selectors are
\* taken out of both.
NormalizerKeepsShown(S) ==
  \A s, t \in S : Nfc(s) = Nfc(t) => Shown(s) = Shown(t)

\* Nobody has come across two texts of one digest: where the hash of a claim is
\* that of the asset without one of its wrappers, it was computed of that text.
NoCollision ==
  \A c \in claims, w \in LocateAll(Text) :
    LET covered == HashedBytes(Text, <<RangeOf(w)>>)
    IN  IsOk(covered) /\ Digest(c.binding.alg, covered.ok) = c.binding.hash
          => covered.ok = c.hashed

\* A digest without collisions would do.
CollisionFree(S) ==
  \A alg \in AlgorithmIds, s, t \in S : Digest(alg, s) = Digest(alg, t) => s = t
-----------------------------------------------------------------------------
(* Properties *)

TypeOK ==
  /\ before \in Seq(Char)
  /\ carrier \in Seq(Char)
  /\ after \in Seq(Char)
  /\ payload \in Seq(Byte)
  /\ mangled \in BOOLEAN
  /\ steps \in 0 .. MaxSteps
  /\ accepted \subseteq claims
  /\ \A c \in claims :
       /\ c.binding.alg \in AlgorithmIds
       /\ Len(c.binding.exclusions) = 1
       /\ c.binding.exclusions[1] \in [start : Nat, length : Nat]

\* "A caller surfacing provenance state needs 'unsigned' versus 'carried
\* provenance that was rejected'" (src/error.rs): while the channel has not
\* touched the carrier, no edit of the host, no byte-order mark or selector
\* beside it, no normalisation and no second wrapper makes extract say NotFound.
CarrierNeverSilent ==
  carrier # <<>> /\ ~mangled => Extract(Text) # Err("NotFound")

\* NotFound means exactly that the marker followed by the encoded magic occurs
\* nowhere in the text, however badly the rest of a carrier is mangled.
UnsignedIffNoSignature ==
  Extract(Text) = Err("NotFound") <=> ~Occurs(Signature, Text)

\* An untouched carrier that is the only one in the text yields exactly the
\* manifest that was embedded, located at the byte its marker is stored at.
PayloadSurvives ==
  carrier # <<>> /\ ~mangled
    /\ ~Occurs(Signature, before) /\ ~Occurs(Signature, after)
  => LET w == Extract(Text)
     IN  /\ IsOk(w)
         /\ w.ok.payload = payload
         /\ w.ok.start = ByteLen(before)
         /\ w.ok.length >= ByteLen(carrier)

\* Encoding what was decoded gives back what is stored: no wrapper is read with
\* a payload longer or shorter than the length its header declares, whatever the
\* channel made of the header, and whatever the width of the build's usize.
LocatedReencodes ==
  \A w \in LocateAll(Text) :
    LET stored == Slice(Text, w.start, w.start + w.length)
        again  == Encode(w.payload)
    IN  IsOk(again) /\ SubSeq(stored, 1, Len(again.ok)) = again.ok

\* Stripping the located range always succeeds and takes nothing a reader sees.
StripKeepsShown ==
  LET w    == Extract(Text)
      rest == Strip(Text, w.ok.start, w.ok.start + w.ok.length)
  IN  IsOk(w) => IsOk(rest) /\ Shown(rest.ok) = Shown(Text)

\* Stripping the one wrapper of a text leaves it unsigned: a stray marker in
\* front of the wrapper and selectors behind it never meet to form another.
StripLeavesUnsigned ==
  LET w    == Extract(Text)
      rest == Strip(Text, w.ok.start, w.ok.start + w.ok.length)
  IN  IsOk(w) => Extract(rest.ok) = Err("NotFound")

\* "Normalizing first would shift every offset whenever the stored text is not
\* already NFC" (src/hardbinding.rs): wherever NFC would move the one wrapper of
\* a text, its binding can be computed, covers exactly what strip would leave,
\* and verifies.  (A String is no longer than a usize counts.)
BindsWhatStripLeaves ==
  LET w    == Extract(Text)
      rest == Strip(Text, w.ok.start, w.ok.start + w.ok.length)
  IN  IsOk(w) /\ ByteLen(Text) <= USIZE_MAX =>
        \A alg \in Algorithms :
          LET bound == ComputeDataHash(Text, alg)
          IN  /\ IsOk(bound)
              /\ bound.ok.hash = Digest(alg, Nfc(rest.ok))
              /\ IsOk(VerifyDataHash(Text, bound.ok))

\* "Text that accreted a second wrapper has also changed the bytes covered by
\* the hard binding" (src/error.rs): a claim that compute_data_hash made for the
\* one wrapper of a text verifies only where extract finds a single wrapper.
ClaimNeedsSingleWrapper ==
  (\E c \in accepted : c.computed) => IsOk(Extract(Text))

\* The placeholder breaks the cycle of a manifest that contains its own
\* exclusion length: replacing it by any manifest of the same size leaves every
\* claim that verified verifying.
FinaliseKeepsClaims ==
  [][~mangled /\ Ok(carrier) = EncodePadded(payload)
        /\ (\E p \in Payloads : FinaliseManifest(p))
      => accepted \subseteq accepted']_vars

\* The hard binding does what it promises: see module ContentBinding.
Promise == INSTANCE ContentBinding WITH
  Content  <- Seq(Char),
  content  <- Shown(Text),
  signed   <- {c.shown : c \in claims},
  accepted <- {c.shown : c \in accepted}

BindsContent == Promise!Spec
-----------------------------------------------------------------------------
(* What the repository says and the code does not do. *)

\* src/error.rs, of CorruptedWrapper: "One or more candidates were detected ...
\* but none fully decoded."
CorruptedMeansNoneDecodes ==
  Extract(Text) = Err("CorruptedWrapper") => LocateAll(Text) = {}

\* src/error.rs: "This crate follows the explicit failure code", so that a hash
\* cannot pass over text with more than one valid wrapper.
MultipleWrappersNeverVerify ==
  Extract(Text) = Err("MultipleWrappers") => accepted = {}
=============================================================================
