CONSTANTS
  Stores = {A, B}
  Processes = {p1}
  Values = {v1, v2}
  Initial = v1
  None = None
  Unshared = {}
  Newcomers = {B}
  Fallible = {A}
  EmitOnlyIfChanged = FALSE
  PageLimit = 1
  Step = 2
  Ahead <- FastClocks
  Fast = {B}
  MaxInstant = 1
  MaxEdits = 2
SPECIFICATION Spec
CONSTRAINT Bounded
INVARIANT TypeOK Converged EditSurvives
