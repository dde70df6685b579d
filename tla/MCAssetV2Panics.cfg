SPECIFICATION SpecV2
CONSTANTS
  LENGTH_BYTES = 1
  USIZE_MAX = 255
  Digest <- SmallDigest
  Nfc <- AsStored
  Hosts <- V2Hosts
  Payloads <- V2Payloads
  Algorithms = {"sha256"}
  Typed <- V2Typed
  Mangling <- LongMangling
  MaxSteps = 3
INVARIANT
  V2Answers
\* A behaviour ends after MaxSteps steps.
CHECK_DEADLOCK FALSE
