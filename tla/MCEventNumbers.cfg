CONSTANTS
  A = A
  B = B
  Stores = {A, B}
  Calls <- InFlight
  Texts = {u, v}
  Numbered = TRUE
  None = None
  Fallible = {}
  Newcomers = {}
  PageLimit = 1
  Ahead <- SameClocks
  Ticks = {1}
  Leads <- NoPlans
  MaxRecords = 2
  MaxLog = 4
  MaxSprints = 0
SPECIFICATION Spec
SYMMETRY Interchangeable
CHECK_DEADLOCK FALSE
INVARIANT ConflictFree
