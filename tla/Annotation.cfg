SPECIFICATION Spec
CONSTANTS
  Family <- Families
  Type <- TypeNames
INVARIANTS
  NoPayloadOfAnotherType
  LaterParametersAreIgnored
  OwnAnnotationsAreAccepted
  VersionsMatchByRelease
CHECK_DEADLOCK FALSE
