CONSTANTS
  A = A
  B = B
  Stores = {A, B}
  Calls <- InFlight
  Texts = {u, v}
  Numbered = TRUE
  None = None
  Fallible = {B}
  Newcomers = {B}
  PageLimit = 1
  Ahead <- SameClocks
  Ticks = {1}
  Leads <- PlansOfB
  MaxRecords = 2
  MaxLog = 3
  MaxSprints = 1
SPECIFICATION Spec
CONSTRAINT SprintsApart
SYMMETRY Interchangeable
CHECK_DEADLOCK FALSE
INVARIANT TypeOK NothingSkipped PulledIsHeld Agree
