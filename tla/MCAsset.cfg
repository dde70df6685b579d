SPECIFICATION Spec
CONSTANTS
  LENGTH_BYTES = 4
  USIZE_MAX = 2147483647
  Digest <- IdealDigest
  Nfc <- ComposePair
  Hosts <- ChannelHosts
  Payloads <- SmallPayloads
  Algorithms = {"sha256"}
  Typed <- ChannelTyped
  Mangling <- ChannelMangling
  MaxSteps = 3
INVARIANTS
  TypeOK
  CarrierNeverSilent
  UnsignedIffNoSignature
  PayloadSurvives
  StripKeepsShown
  StripLeavesUnsigned
  BindsWhatStripLeaves
  ClaimNeedsSingleWrapper
PROPERTY
  BindsContent
\* A behaviour ends after MaxSteps steps.
CHECK_DEADLOCK FALSE
