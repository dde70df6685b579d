------------------------------ MODULE AssetV2 ------------------------------
(***************************************************************************)
(* An asset whose generator has opted in to the version 2 frame, while     *)
(* others go on embedding version 1 in the same text: the actions of Asset *)
(* and, beside them, those that embed a checksummed carrier and strip      *)
(* whatever extract_any returns.                                           *)
(***************************************************************************)
EXTENDS Asset, WrapperV2

\* A checksummed frame is one Vec<u8>, too.
ASSUME AssetV2Assumption ==
  \A p \in Payloads : HEADER_LEN + Len(p) + CHECKSUM_LEN <= USIZE_MAX

VARIABLE version   \* frame version of the carrier, 0 before there was one

varsV2 == <<vars, version>>

InitV2 == Init /\ version = 0

-----------------------------------------------------------------------------
(* The generator that opted in *)

\* v2::embed on a text that carries nothing yet.
EmbedManifestV2(p) ==
  LET asset == EmbedV2(Text, p)
  IN  /\ Step
      /\ carrier = <<>>
      /\ IsOk(asset)
      /\ before' = Text
      /\ carrier' = SubSeq(asset.ok, Len(Text) + 1, Len(asset.ok))
      /\ after' = <<>>
      /\ payload' = p
      /\ mangled' = FALSE
      /\ version' = VERSION_V2
      /\ UNCHANGED claims
      /\ Validate

\* v2::embed on a text that already carries a manifest.
AccreteManifestV2(p) ==
  LET asset == EmbedV2(Text, p)
  IN  /\ Step
      /\ carrier # <<>>
      /\ IsOk(asset)
      /\ after' = SubSeq(asset.ok, Len(before \o carrier) + 1, Len(asset.ok))
      /\ UNCHANGED <<before, carrier, payload, mangled, claims, version>>
      /\ Validate

\* strip(text, w.range()) of the wrapper w that extract_any returns.  What is
\* left is a host text again: the wrappers it may still hold are part of it.
StripAny ==
  LET located == ExtractAny(Text)
      rest    == Strip(Text, located.ok.start, WrapperEnd(located.ok))
  IN  /\ Step
      /\ IsOk(located) /\ IsOk(rest)
      /\ before' = rest.ok
      /\ carrier' = <<>>
      /\ after' = <<>>
      /\ mangled' = FALSE
      /\ UNCHANGED <<payload, claims, version>>
      /\ Validate

NextV2 ==
  \/ \E p \in Payloads : EmbedManifestV2(p) \/ AccreteManifestV2(p)
  \/ StripAny
  \/ /\ \E p \in Payloads : \/ EmbedManifest(p)
                            \/ EmbedPlaceholder(p)
                            \/ FinaliseManifest(p)
     /\ version' = VERSION
  \/ /\ \/ \E p \in Payloads : AccreteManifest(p)
        \/ \E alg \in Algorithms : ComputeClaim(alg) \/ SelectWrapper(alg)
        \/ EditBefore
        \/ EditAfter
        \/ Normalise
        \/ Mangle
     /\ UNCHANGED version

SpecV2 == InitV2 /\ [][NextV2]_varsV2

-----------------------------------------------------------------------------
(* What the crate leaves to the host, beside what Asset does. *)

\* A Hasher returns a byte string of which four bytes can be taken.
ChecksumsWhole(S) ==
  \A data \in S :
    /\ Digest("sha256", data) \in Seq(Byte)
    /\ Len(Digest("sha256", data)) >= CHECKSUM_LEN

\* A usize that holds every frame a length field can declare, as that of a
\* 64-bit build does.
WideBuild == \A n \in Nat : FitsLength(n) => HEADER_LEN + n + CHECKSUM_LEN <= USIZE_MAX
-----------------------------------------------------------------------------
(* Properties *)

TypeOKV2 ==
  /\ TypeOK
  /\ version \in {0, VERSION, VERSION_V2}
  /\ carrier # <<>> => version # 0

\* "yields CorruptedWrapper rather than NotFound, which is the distinction v2
\* exists to provide" (src/wrapper.rs): neither v2::extract nor extract_any
\* calls a text unsigned while a signature of either version is stored in it.
AnyUnsignedExactly ==
  \A answer \in {ExtractV2(Text), ExtractAny(Text)} :
    answer = Err("NotFound") <=> ~Occurs(Signature, Text)

\* "rejected, rather than decoding to wrong bytes": whatever the channel does
\* to a carrier, of whichever version, and whatever is typed behind it, a v2
\* wrapper found inside it was embedded as v2 and yields what was embedded.
V2FailsClosed ==
  \A w \in ValidV2(Text) :
    w.start \in ByteLen(before) .. ByteLen(before \o carrier) - 1
      => version = VERSION_V2 /\ w.payload = payload

\* An untouched v2 carrier that is alone in its text yields its manifest, where it
\* was embedded, and extract_any returns it although to the v1 search it is a
\* corrupted candidate.
V2PayloadSurvives ==
  carrier # <<>> /\ version = VERSION_V2 /\ ~mangled
    /\ ~Occurs(Signature, before) /\ ~Occurs(Signature, after)
  => \A w \in {ExtractV2(Text), ExtractAny(Text)} :
       /\ IsOk(w)
       /\ w.ok.payload = payload
       /\ w.ok.start = ByteLen(before)
       /\ w.ok.length >= ByteLen(carrier)

\* "A v2 wrapper is not a valid A.8 wrapper to a conformant validator": while a
\* text holds one, no claim about it can be computed and none verifies, those
\* made before it was embedded included.
V2NeverBinds ==
  ValidV2(Text) # {} =>
    /\ accepted = {}
    /\ \A alg \in Algorithms : ~IsOk(ComputeDataHash(Text, alg))

\* Stripping what extract_any returned takes nothing a reader sees and leaves
\* no wrapper of the version it returned; of a v1 wrapper, no trace of either.
StripAnyClears ==
  \A w \in {ExtractAny(Text)} : IsOk(w) =>
    LET rest == Strip(Text, w.ok.start, WrapperEnd(w.ok))
    IN  /\ IsOk(rest) /\ Shown(rest.ok) = Shown(Text)
        /\ IF w.ok.version = VERSION THEN ExtractAny(rest.ok) = Err("NotFound")
                                     ELSE ValidV2(rest.ok) = {}
-----------------------------------------------------------------------------
(* What the repository says and the code does not do. *)

\* src/wrapper.rs, of the v2 frame: "a corrupted run fails its checksum and is
\* rejected", whatever the build's usize.
V2Answers == ExtractV2(Text) # Panic

\* src/wrapper.rs, of extract_any: "The single valid wrapper in text, accepting
\* either frame version."
AnyIsTheOnlyOne ==
  IsOk(ExtractAny(Text)) => LocateAll(Text) \cup ValidV2(Text) = {ExtractAny(Text).ok}
=============================================================================
