SPECIFICATION Spec
CONSTANTS
  Client = {c1, c2}
  Stream = {h}
  Terms = {slow, fast}
  None = None
  Permit = {"give_up", "odd_reply", "unheard", "change", "end", "crash"}
  MaxClaims = 2
  MaxLate = 1
SYMMETRY Alike
INVARIANTS TypeOK HeldIsServed StatusIsCurrent NoSilentOrphans
PROPERTIES LastStatusIsHeard RejectedForOthers
