SPECIFICATION Spec
CONSTANTS
  Accounts = {a1}
  Callers = {p1, p2, p3}
  None = None
  MaxCred = 3
  Rotating = TRUE
  Mixes <- ManagedMixes
SYMMETRY CallerSymmetry
INVARIANTS  ServesWhatItObtained 
PROPERTY SavedNeverRegresses
