SPECIFICATION FairSpec
CONSTANTS
  Accounts = {a1, a2}
  None = None
  Protocols <- AllProtocols
  Endpoints = 2
  MaxAccountAttempts = 2
  MaxStreamRetries = 2
  MaxStreamAttempts = 2
  EarlyStop = FALSE
INVARIANT TypeOK
PROPERTIES ImplementsClientStream  RotatesWithoutBlame EveryRequestEnds
