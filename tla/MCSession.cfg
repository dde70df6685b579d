SPECIFICATION SSpec
CONSTANTS
  LENGTH_BYTES = 1
  USIZE_MAX = 255
  Digest <- IdealDigest
  Nfc <- AsStored
  Starting <- SessionTexts
  Manifests <- SessionManifests
  Requested = {"sha256", "sha1"}
  Keys <- SessionKeys
  FreeRanges <- SessionRanges
  MaxCalls = 4
INVARIANTS
  NoneMeansUnsigned
  CodelessMeansUnsigned
  StripTakesTheRange
  HandsOver
  VerifiedIsWhole
  PlannedRoom
\* A behaviour ends after MaxCalls calls.
CHECK_DEADLOCK FALSE
