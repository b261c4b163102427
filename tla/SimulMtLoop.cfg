SPECIFICATION FairSpec
CONSTANTS
  Trigger = 1
  Timeout = 1
  SessionTtl = 3
  RedisMayFail = TRUE
  ServicesMayFail = TRUE
  MaxMessages = 2
  MaxChars = 1
CHECK_DEADLOCK FALSE
INVARIANTS TypeOK ClosedSessionsLeaveNothing CountsMatch LoopSurvivesErrors
PROPERTIES SilentClientsGo
