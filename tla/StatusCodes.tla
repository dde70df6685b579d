---------------------------- MODULE StatusCodes ----------------------------
(***************************************************************************)
(* The errors of the crate (src/error.rs) and the C2PA validation status   *)
(* code each carries.  A variant is its name: the number or the name of an *)
(* algorithm some variants carry appears in messages only.                 *)
(***************************************************************************)

Errors == {"NotFound", "CorruptedWrapper", "MultipleWrappers",
           "PayloadTooLarge", "UnrepresentableGap", "MalformedExclusion",
           "HashMismatch", "UnsupportedAlgorithm"}

\* The None of Error::code.
NoCode == "no code"

\* Several valid wrappers are an absence, too.
Code_MultipleIsNone(e) ==
  CASE e = "CorruptedWrapper"     -> "manifest.text.corruptedWrapper"
    [] e = "MalformedExclusion"   -> "assertion.dataHash.malformed"
    [] e = "HashMismatch"         -> "assertion.dataHash.mismatch"
    [] e = "UnsupportedAlgorithm" -> "algorithm.unsupported"
    [] OTHER                      -> NoCode

Code(e) ==
  CASE e = "CorruptedWrapper"     -> "manifest.text.corruptedWrapper"
    [] e = "MultipleWrappers"     -> "manifest.text.multipleWrappers"
    [] e = "MalformedExclusion"   -> "assertion.dataHash.malformed"
    [] e = "HashMismatch"         -> "assertion.dataHash.mismatch"
    [] e = "UnsupportedAlgorithm" -> "algorithm.unsupported"
    [] OTHER                      -> NoCode

IsNoManifestLocated(e) == e = "NotFound"
=============================================================================
