SPECIFICATION Spec
CONSTANTS
  LENGTH_BYTES = 4
  USIZE_MAX = 2147483647
  Digest <- IdealDigest
  Nfc <- ComposePair
  Hosts <- LifeHosts
  Payloads <- AllPayloads
  Algorithms = {"sha256"}
  Typed <- LifeTyped
  Mangling <- LifeMangling
  MaxSteps = 4
PROPERTIES
  FinaliseKeepsClaims
  BindsContent
\* A behaviour ends after MaxSteps steps.
CHECK_DEADLOCK FALSE
