SPECIFICATION Spec
CONSTANTS
  LENGTH_BYTES = 1
  USIZE_MAX = 255
  Digest <- IdealDigest
  Nfc <- AsStored
  Calls <- AllCalls
INVARIANTS
  TypeOK
  CursorOnBoundary
  BytesAccounted
  ExcludesExactly
  VerifiesOneWrapper
  AnswersHardBinding
\* The call has returned.
CHECK_DEADLOCK FALSE
