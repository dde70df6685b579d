SPECIFICATION SpecV2
CONSTANTS
  LENGTH_BYTES = 1
  USIZE_MAX = 255
  Digest <- SmallDigest
  Nfc <- AsStored
  Hosts <- V2Hosts
  Payloads <- V2Payloads
  Algorithms = {"sha256"}
  Typed <- V2Typed
  Mangling <- V2Mangling
  MaxSteps = 3
INVARIANTS
  TypeOKV2
  UnsignedIffNoSignature
  LocatedReencodes
  AnyUnsignedExactly
  V2FailsClosed
  V2PayloadSurvives
  V2NeverBinds
  StripAnyClears
\* A behaviour ends after MaxSteps steps.
CHECK_DEADLOCK FALSE
