SPECIFICATION Spec
CONSTANTS
  Accounts = {a1}
  Callers = {p1, p2}
  None = None
  MaxCred = 4
  Rotating = TRUE
  Mixes <- FlushMix
PROPERTY FlushKeepsNewest
