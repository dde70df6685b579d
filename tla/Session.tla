------------------------------ MODULE Session ------------------------------
(***************************************************************************)
(* Two hosts of the bindings share one text: a Python program and a page   *)
(* that runs the WebAssembly build.  Each may embed, extract, strip,       *)
(* compute a binding and verify one, and each acts on what the other       *)
(* handed over: the ranges of an earlier extract, which an edit in between *)
(* may have made stale, and the binding last computed, whose ranges are    *)
(* pairs in one language and two vectors in the other.                     *)
(*                                                                         *)
(* The checks of the build (does an addition of usize trap or wrap?) are   *)
(* fixed with the initial state.                                           *)
(***************************************************************************)
EXTENDS PythonBinding, WasmBinding, FiniteSets

CONSTANTS
  Starting,     \* texts a session starts from
  Manifests,    \* manifests
  Requested,    \* algorithm names the hosts pass
  Keys,         \* what is typed at the front or the back of the text
  FreeRanges,   \* ranges a host asks strip for on its own account
  MaxCalls      \* bound on the length of a behaviour

ASSUME SessionAssumption ==
  /\ Starting \subseteq Seq(Char)
  /\ Manifests \subseteq Seq(Byte)
  /\ Keys \subseteq Char
  /\ \A r \in FreeRanges : r.start \in 0 .. USIZE_MAX /\ r.length \in 0 .. USIZE_MAX
  /\ MaxCalls \in Nat

\* The padded wrapper of a manifest is one String: its length is a usize, and
\* that of the manifest fits the length field.
Fit(S) == \A p \in S : FitsLength(Len(p)) /\ TargetLength(Len(p)) <= USIZE_MAX
ManifestsFit == Fit(Manifests)

VARIABLES
  text,
  traps,     \* additions of usize trap in this build
  located,   \* the range of the last dict or object extract returned
  binding,   \* the last binding computed, and the text it was computed for
  call,      \* the call just made: its name, the text it was given, its outcome
  calls

svars == <<text, traps, located, binding, call, calls>>

Nothing == [none |-> TRUE]

\* The record of a call, with the arguments a property speaks of.
Call(name, args, outcome) ==
  [name |-> name, given |-> text, args |-> args, outcome |-> outcome]

SInit ==
  /\ text \in Starting
  /\ traps \in BOOLEAN
  /\ located = Nothing
  /\ binding = Nothing
  /\ call = Call("none", <<>>, Returns(None))
  /\ calls = 0

Make(c) ==
  /\ calls < MaxCalls
  /\ calls' = calls + 1
  /\ call' = c
  /\ UNCHANGED traps

\* The text a call returns, if it returns, is the text from now on.
TakeText(outcome) == text' = IF HasReturned(outcome) THEN outcome.returns ELSE text

-----------------------------------------------------------------------------
(* Calls *)

CallEmbed ==
  /\ \E p \in Manifests : \E out \in {PyEmbed(text, p), JsEmbed(text, p)} :
       Make(Call("embed", <<>>, out)) /\ TakeText(out)
  /\ UNCHANGED <<located, binding>>

\* text + encode_padded(payload)
CallEncodePadded ==
  /\ \E p \in Manifests : \E out \in {PyEncodePadded(p), JsEncodePadded(p)} :
       /\ Make(Call("encode_padded", <<p>>, out))
       /\ text' = IF HasReturned(out) THEN text \o out.returns ELSE text
  /\ UNCHANGED <<located, binding>>

CallExtract ==
  /\ \E out \in {PyExtract(text), JsExtract(text)} :
       /\ Make(Call("extract", <<>>, out))
       /\ located' = IF HasReturned(out) /\ out.returns # None
                     THEN RangeOf(out.returns) ELSE located
  /\ UNCHANGED <<text, binding>>

\* The range is the one extract reported, for this text or an earlier one, or
\* one the host came by otherwise.
CallStrip ==
  /\ \E r \in FreeRanges \cup ({located} \ {Nothing}) :
       \E out \in {PyStrip(text, r.start, r.length, traps),
                   JsStrip(text, r.start, r.length, traps)} :
         Make(Call("strip", <<r>>, out)) /\ TakeText(out)
  /\ UNCHANGED <<located, binding>>

\* The host keeps the binding it was given, and the text it is for.
Hold(made, ranges) ==
  binding' = [alg |-> made.returns.alg, hash |-> made.returns.hash,
              ranges |-> ranges, given |-> text]

CallCompute ==
  /\ \E alg \in Requested :
       \/ \E out \in {PyComputeDataHash(text, alg)} :
            /\ Make(Call("compute", <<>>, out))
            /\ IF HasReturned(out) THEN Hold(out, OfPairs(out.returns.exclusions))
                                   ELSE UNCHANGED binding
       \/ \E out \in {JsComputeDataHash(text, alg)} :
            /\ Make(Call("compute", <<>>, out))
            /\ IF HasReturned(out) THEN Hold(out, out.returns.exclusions)
                                   ELSE UNCHANGED binding
  /\ UNCHANGED <<text, located>>

Starts  == [k \in DOMAIN binding.ranges |-> binding.ranges[k].start]
Lengths == [k \in DOMAIN binding.ranges |-> binding.ranges[k].length]
Pairs   == [k \in DOMAIN binding.ranges |-> <<Starts[k], Lengths[k]>>]

\* Verification of the binding last computed, from either language.
PyVerdict == PyVerifyDataHash(text, binding.hash, Pairs, binding.alg)
JsVerdict == JsVerifyDataHash(text, binding.hash, Starts, Lengths, binding.alg)

\* The binding as it was handed over; in JavaScript also named after another
\* algorithm, or with a start more than there are lengths.
CallVerify ==
  /\ binding # Nothing
  /\ \/ Make(Call("verify", Pairs, PyVerdict))
     \/ \E alg \in Requested, s \in {Starts, Starts \o <<0>>} :
          Make(Call("verify", [k \in DOMAIN s |-> <<s[k]>>],
                    JsVerifyDataHash(text, binding.hash, s, Lengths, alg)))
  /\ UNCHANGED <<text, located, binding>>

Edit ==
  /\ \E c \in Keys :
       /\ Make(Call("none", <<>>, Returns(None)))
       /\ text' \in {<<c>> \o text, text \o <<c>>}
  /\ UNCHANGED <<located, binding>>

SNext == \/ CallEmbed \/ CallEncodePadded \/ CallExtract
         \/ CallStrip \/ CallCompute \/ CallVerify \/ Edit

SSpec == SInit /\ [][SNext]_svars

-----------------------------------------------------------------------------
(* Properties *)

\* "Text that simply carries no wrapper returns None ... A corrupted or
\* duplicated wrapper *is* a reportable failure and raises ... carrying its C2PA
\* status code" (src/python.rs, src/wasm.rs): None for exactly the texts without
\* a signature, and a code with everything extract raises.
NoneMeansUnsigned ==
  call.name = "extract" =>
    /\ call.outcome = Returns(None) <=> ~Occurs(Signature, call.given)
    /\ HasRaised(call.outcome) => call.outcome.code # NoCode

\* "the former is 'unsigned', the latter is 'invalid'" (src/error.rs): the error
\* compute raises has no code exactly if nothing is there to bind.
CodelessMeansUnsigned ==
  call.name = "compute" /\ HasRaised(call.outcome)
    /\ call.outcome.raises # "UnsupportedAlgorithm"
  => /\ call.outcome.code = NoCode <=> ~Occurs(Signature, call.given)
     /\ IsNoManifestLocated(call.outcome.raises) <=> call.outcome.code = NoCode

\* What is left of a text when a range is gone: every character that begins
\* outside the range, in order, and nothing else.
TakesRange(given, r, rest) ==
  LET inside == {i \in DOMAIN given :
                   Offset(given, i - 1) \in r.start .. r.start + r.length - 1}
  IN  /\ r.start + r.length <= ByteLen(given)
      /\ ByteLen(rest) = ByteLen(given) - r.length
      /\ \A i \in DOMAIN given : i \notin inside =>
           rest[Cardinality({j \in 1 .. i : j \notin inside})] = given[i]

\* Whatever the build makes of start + length, and however stale the range,
\* strip returns only what stood outside the range it was asked for.
StripTakesTheRange ==
  call.name = "strip" /\ HasReturned(call.outcome) =>
    TakesRange(call.given, call.args[1], call.outcome.returns)

\* A binding one language computed is accepted by both as long as the text is
\* the one it was computed for.
HandsOver ==
  binding # Nothing /\ text = binding.given
    => HasReturned(PyVerdict) /\ HasReturned(JsVerdict)

\* A verification that returns was given one whole range, and a wrapper stands
\* there.
VerifiedIsWhole ==
  call.name = "verify" /\ HasReturned(call.outcome) =>
    /\ Len(call.args) = 1
    /\ \E w \in PyLocateAll(call.given) : w[1] = call.args[1][1]

\* The room target_length announces, to either host, is the room encode_padded
\* takes and no less than encode takes, whatever the bytes of the manifest.
PlannedRoom ==
  call.name = "encode_padded" =>
    LET p == call.args[1]
    IN  \A room \in {PyTargetLength(Len(p), traps), JsTargetLength(Len(p), traps)} :
          /\ HasReturned(call.outcome) /\ room = Returns(ByteLen(call.outcome.returns))
          /\ \A tight \in {PyEncode(p), JsEncode(p)} :
               HasReturned(tight) /\ ByteLen(tight.returns) <= room.returns
=============================================================================
