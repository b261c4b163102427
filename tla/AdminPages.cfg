SPECIFICATION Spec
CONSTANTS
  Requests = {r1, r2}
  Passwords = {old, new}
  MaxAttempts = 2
  Window = 2
  Entries <- Kinds
  HoursPerDay = 2
  LastHour = 2
  MaxRows = 2
  None = None
INVARIANTS AttemptsAreBounded FiguresAgree
PROPERTIES EveryLockoutEnds
