SPECIFICATION Spec
CONSTANTS
  Trigger = 1
  Timeout = 2
  SessionTtl = 3
  RedisMayFail = FALSE
  ServicesMayFail = FALSE
  MaxMessages = 3
  MaxChars = 2
CHECK_DEADLOCK FALSE
INVARIANTS PartialsAreThisUtterance OnlySilentClientsAreCutOff LeftoversExpire
