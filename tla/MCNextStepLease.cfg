CONSTANTS
  Calls = {c1}
  Steps = {n1}
  Sprints = {s1,s2}
  LAPSE_AT = 1
  MIN_AGE = 1
  Dates = {0, 3}
  MAX_TIME = 3
SPECIFICATION Spec
SYMMETRY Interchangeable
CHECK_DEADLOCK FALSE
PROPERTY DroppedAfterRealCloses
