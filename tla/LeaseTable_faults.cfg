SPECIFICATION Spec
CONSTANTS
  r1 = r1
  r2 = r2
  r3 = r3
  h1 = h1
  h2 = h2
  Relation = {r1, r2, r3}
  Handle = {h1, h2}
  Terms = {slow, fast}
  Lease = {a, b, c}
  Resolve <- TwoSpellings
  None = None
  Dangling = Dangling
  Subscribes = TRUE
  Permit = {"force_detach", "start_late", "stop_lost", "close_call"}
  MaxNesting = 2
INVARIANTS
  NeverOvercounts
  NoDanglingLease
  SharedOnEqualTerms
  AliasesResolve
  HeldIsAttached
  StopsOnlyUnclaimed
