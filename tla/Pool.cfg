SPECIFICATION Spec
CONSTANTS
  a1 = a1
  a2 = a2
  Accounts = {a1, a2}
  Weighted <- WeightedTwo
  Goroutines = {p1, p2}
  Selectors = {p1}
  None = None
  IndexWrap = 6
  MaxCred = 2
  Mixes <- PoolMixes
INVARIANTS TypeOK NoTornSnapshot RemovedStaysRemoved 
