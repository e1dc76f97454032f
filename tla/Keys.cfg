SPECIFICATION Spec
CONSTANTS
  EngineId <- Engines
  Family <- Families
  Number = {1, 10, 255}
  MaxEpoch = 255
INVARIANTS EpochsAreExact TokensTellEnginesApart OneMeaningPerKey
CHECK_DEADLOCK FALSE
