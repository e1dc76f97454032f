SPECIFICATION Spec
CONSTANTS
  Object = {"a", "b", "c"}
  Error = {"Timeout", "HandleAbsent"}
  Value = {"v", "w"}
INVARIANTS EitherValueOrError DestroyedOnce
