---------------------------- MODULE WasmBinding ----------------------------
(***************************************************************************)
(* The functions of the WebAssembly build (src/wasm.rs).  An object is a   *)
(* record; verify takes the starts and the lengths of the ranges in two    *)
(* vectors.                                                                *)
(***************************************************************************)
EXTENDS Bindings

JsErr(r) == IF IsOk(r) THEN Returns(r.ok) ELSE Raises(r.err)

JsAlgorithm(alg) == JsErr(FromId(alg))

JsEmbed(text, payload) == JsErr(Embed(text, payload))

JsEncode(payload) == JsErr(Encode(payload))

JsEncodePadded(payload) ==
  IF EncodePadded(payload) = Panic THEN Panics ELSE JsErr(EncodePadded(payload))

JsTargetLength(manifestLen, traps) == Usize(TargetLength(manifestLen), traps)

\* x as u32, which has the width of usize on wasm32.
AsU32(x) == x % (USIZE_MAX + 1)

\* The object of a located wrapper.
AsObject(call) ==
  IF ~HasReturned(call) THEN call
  ELSE Returns([call.returns EXCEPT !.start = AsU32(@), !.length = AsU32(@)])

JsExtract(text) ==
  IF Extract(text) = Err("NotFound") THEN Returns(None)
                                     ELSE AsObject(JsErr(Extract(text)))

JsStrip(text, start, length, traps) ==
  LET end == Usize(start + length, traps)
  IN  IF end = Panics THEN Panics ELSE JsErr(Strip(text, start, end.returns))

\* A range is reported as an end, not a length.
AsBinding_EndForLength(call) ==
  IF ~HasReturned(call) THEN call
  ELSE Returns([call.returns EXCEPT !.exclusions =
                  [k \in DOMAIN @ |-> [start |-> @[k].start, length |-> EndOf(@[k])]]])

\* The object of a DataHash.
AsU32Ranges(ranges) ==
  [k \in DOMAIN ranges |-> [start  |-> AsU32(ranges[k].start),
                            length |-> AsU32(ranges[k].length)]]

AsBinding(call) ==
  IF ~HasReturned(call) THEN call
  ELSE Returns([call.returns EXCEPT !.exclusions = AsU32Ranges(@)])

JsComputeDataHash(text, alg) ==
  IF ~HasReturned(JsAlgorithm(alg)) THEN JsAlgorithm(alg)
  ELSE AsBinding(JsErr(ComputeDataHash(text, alg)))

\* The ranges zip makes of the two vectors: as many as the shorter one has.
Zip(starts, lengths) ==
  [k \in 1 .. IF Len(starts) < Len(lengths) THEN Len(starts) ELSE Len(lengths) |->
     [start |-> starts[k], length |-> lengths[k]]]

\* A start or a length too many is dropped.
JsVerifyDataHash_ZipOnly(text, hash, starts, lengths, alg) ==
  IF ~HasReturned(JsAlgorithm(alg)) THEN JsAlgorithm(alg)
  ELSE JsErr(VerifyDataHash(text, [exclusions |-> Zip(starts, lengths),
                                   alg |-> alg, hash |-> hash]))

\* The message for vectors of different lengths names no error of the crate.
LengthsDiffer == [raises |-> "LengthsDiffer", code |-> NoCode]

JsVerifyDataHash(text, hash, starts, lengths, alg) ==
  IF Len(starts) # Len(lengths) THEN LengthsDiffer
  ELSE IF ~HasReturned(JsAlgorithm(alg)) THEN JsAlgorithm(alg)
  ELSE JsErr(VerifyDataHash(text, [exclusions |-> Zip(starts, lengths),
                                   alg |-> alg, hash |-> hash]))
=============================================================================
