SPECIFICATION Spec
CONSTANTS
  Client = {c1, c2}
  Stream = {h}
  Terms = {slow}
  None = None
  Permit = {"give_up", "lose", "end", "restart"}
  MaxClaims = 2
  MaxLate = 1
PROPERTIES ReleasedStreamsEnd 
