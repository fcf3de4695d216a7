SPECIFICATION LiveSpec
CONSTANTS
  Writers = {w1}
  Timers = {t1}
  Closes = {c1}
  QUIET = 1
  MAXWAIT = 2
  LEASE = 1
  None = None
  Horizon = 1
  MaxTime = 2
  MaxWrites = 2
  MaxMarks = 2
  MaxFaults = 2
PROPERTY DebtIsEventuallyPaid
CHECK_DEADLOCK FALSE
