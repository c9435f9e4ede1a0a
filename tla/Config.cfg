SPECIFICATION Spec
CONSTANTS
  Goroutines = {p1, p2}
  Main = Main
  None = None
  Absent = Absent
  Corrupt = Corrupt
  MaxEdits = 2
  MaxCrashes = 2
  MaxDamage = 1
  Mixes <- StoreMixes
INVARIANTS TypeOK RestartFindsComplete
  
CHECK_DEADLOCK FALSE
