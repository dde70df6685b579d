SPECIFICATION SpecV2
CONSTANTS
  LENGTH_BYTES = 1
  USIZE_MAX = 255
  Digest <- SmallDigest
  Nfc <- AsStored
  Hosts <- PlainHosts
  Payloads <- V2Payloads
  Algorithms = {"sha256"}
  Typed = {}
  Mangling = {}
  MaxSteps = 3
INVARIANT
  AnyIsTheOnlyOne
\* A behaviour ends after MaxSteps steps.
CHECK_DEADLOCK FALSE
