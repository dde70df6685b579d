--------------------------- MODULE PythonBinding ---------------------------
(***************************************************************************)
(* The functions of the Python extension module (src/python.rs).  A dict   *)
(* is a record; a range is a pair (start, length).                         *)
(***************************************************************************)
EXTENDS Bindings

PyMapErr(r) == IF IsOk(r) THEN Returns(r.ok) ELSE Raises(r.err)

PyAlgorithm(alg) == PyMapErr(FromId(alg))

PyEmbed(text, payload) == PyMapErr(Embed(text, payload))

PyEncode(payload) == PyMapErr(Encode(payload))

PyEncodePadded(payload) ==
  IF EncodePadded(payload) = Panic THEN Panics ELSE PyMapErr(EncodePadded(payload))

PyTargetLength(manifestLen, traps) == Usize(TargetLength(manifestLen), traps)

\* Any rejection is an absence.
PyExtract_NoneOnError(text) ==
  IF IsOk(Extract(text)) THEN Returns(Extract(text).ok) ELSE Returns(None)

PyExtract(text) ==
  IF Extract(text) = Err("NotFound") THEN Returns(None)
                                     ELSE PyMapErr(Extract(text))

PyLocateAll(text) == {<<w.start, w.length>> : w \in LocateAll(text)}

\* A length that does not fit reaches to the end of the text.
PyStrip_Saturating(text, start, length, traps) ==
  LET end == IF start + length <= USIZE_MAX THEN start + length ELSE ByteLen(text)
  IN  PyMapErr(Strip(text, start, end))

\* start..start + length, added before strip can look at the range.
PyStrip(text, start, length, traps) ==
  LET end == Usize(start + length, traps)
  IN  IF end = Panics THEN Panics ELSE PyMapErr(Strip(text, start, end.returns))

\* Ranges as the pairs of a Python list, and pairs as ranges.
AsPairs(ranges) == [k \in DOMAIN ranges |-> <<ranges[k].start, ranges[k].length>>]
OfPairs(pairs)  == [k \in DOMAIN pairs |-> [start |-> pairs[k][1], length |-> pairs[k][2]]]

\* The dict of a DataHash: its exclusions are pairs.
AsDict(call) ==
  IF ~HasReturned(call) THEN call
  ELSE Returns([call.returns EXCEPT !.exclusions = AsPairs(@)])

PyComputeDataHash(text, alg) ==
  IF ~HasReturned(PyAlgorithm(alg)) THEN PyAlgorithm(alg)
  ELSE AsDict(PyMapErr(ComputeDataHash(text, alg)))

PyVerifyDataHash(text, hash, exclusions, alg) ==
  IF ~HasReturned(PyAlgorithm(alg)) THEN PyAlgorithm(alg)
  ELSE PyMapErr(VerifyDataHash(text, [exclusions |-> OfPairs(exclusions),
                                      alg |-> alg, hash |-> hash]))
=============================================================================
