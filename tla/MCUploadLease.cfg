SPECIFICATION Spec
CONSTANTS
  Writers = {w1}
  Timers = {t1}
  Closes = {c1}
  QUIET = 1
  MAXWAIT = 2
  LEASE = 1
  None = None
  MaxTime = 2
  MaxWrites = 2
  MaxClaims = 2
  MaxMarks = 2
  MaxSteps = 3
CONSTRAINT Bounded
INVARIANTS
  TypeOK
  DebtDatesFromOldestUnpaidMark
PROPERTIES
  BackoffClearedOnlyByClose
  OnlyLatestClaimCommits
  ImplementsDebt
