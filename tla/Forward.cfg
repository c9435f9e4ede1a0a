SPECIFICATION FairSpec
CONSTANTS
  u1 = u1
  u2 = u2
  Upstreams = {u1, u2}
  Pool = Pool
  Requests = {r1, r2}
  Leavers = {r1}
  Routes <- TwoRoutes
  Tiers = 2
  Threshold = 1
  NoReply = NoReply
INVARIANTS TypeOK NoTargetSkipped GaugeCountsAttempts CountsMatchAnswers
PROPERTIES ImplementsClientStream LeavingBlamesNobody LeaversAreReleased
CHECK_DEADLOCK FALSE
