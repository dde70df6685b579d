SPECIFICATION Spec
CONSTANTS
  LENGTH_BYTES = 4
  USIZE_MAX = 2147483647
  Digest <- IdealDigest
  Nfc <- AsStored
  Texts <- UpToThree
INVARIANTS
  TypeOK
  SlicesOnBoundaries
  AnswersExtract
  InOrderOfAppearance
  DecodersAgree
PROPERTIES
  StepsRunOut
  Terminates
\* extract has returned.
CHECK_DEADLOCK FALSE
