CONSTANTS
  v1 = v1
  v2 = v2
  Torn = Torn
  Payload <- MCPayload
  DefaultRec <- MCDefaultRec
  Upgraded <- MCUpgraded
  Legacy <- MCLegacy
  BootFaults = FALSE
  MaxSeq = 7
SPECIFICATION Spec
PROPERTY RegisterSpec
