SPECIFICATION ConsoleSpec
CONSTANTS
  Parts <- AllParts
  None = None
  Nobody = Nobody
  MaxKills = 1
  Events <- Reports
  Savers = {"s1"}
  RingCapacity = 2
  Window = 2
  HourWindow = 2
  HourMinutes = 2
  StatusCodes = 1
  ErrorsKept = 1
  TrackedIPs = 1
  MaxEvents = 3
  MaxMinute = 2
  MaxSaves = 1
  Clients = {c1}
  Admins = {a1}
  KeyValues = {k1, k2}
  Limits = {1}
  KeyMixes <- Fails
  MaxIds = 2
  MaxUsed = 1
  Accounts = {a1}
  Profiles = {q1, q2}
  Workers = {w1, w2}
  ModelMixes <- Sweeps
  Askers = {p1}
  MaxResponses = 3
  MaxDepth = 1
  StoreMixes <- Ages
  Logins = {l1, l2}
  Callers = {r1, r2}
  MaxSessions = 2
  MaxSelections = 1
  MaxTombstones = 3
  Consoles = {o1}
  Browsers = {b1, b2}
  Ports = 2
  Failures = TRUE
  Pasted = {"p1"}
  Devices = {"d1"}
  Keys = {"k1"}
  AccountIds = {i1, i2}
  MaxVersion = 2
  ImportMixes <- WaysIn
SYMMETRY Interchangeable
INVARIANTS ConsoleTypeOK   ConversationsHold OneAccountEach CredentialsSurvive
PROPERTIES ClientKeysHold 
CHECK_DEADLOCK FALSE
