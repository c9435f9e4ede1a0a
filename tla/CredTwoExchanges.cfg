SPECIFICATION Spec
CONSTANTS
  Accounts = {a1}
  Callers = {p1, p2}
  None = None
  MaxCred = 2
  Rotating = TRUE
  Mixes <- ForcedMix
INVARIANT OneExchangeAtATime
