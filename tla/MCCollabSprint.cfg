CONSTANTS
  Stores = {A, B}
  Processes = {p1}
  Values = {v1, v2}
  Initial = v1
  None = None
  Unshared = {v2}
  Newcomers = {}
  Fallible = {A}
  EmitOnlyIfChanged = TRUE
  PageLimit = 1
  Step = 2
  Ahead <- FastClocks
  Fast = {A}
  MaxInstant = 0
  MaxEdits = 2
SPECIFICATION Spec
CONSTRAINT Bounded
INVARIANT SuppressedIsKnown
