CONSTANTS
  Processes = {p, q}
  Rows = {r1, r2}
  Targets = {t1, t2}
  r1 = r1
  r2 = r2
  t1 = t1
  t2 = t2
  Source = Source
  Operations <- Commands
  Ids = {1, 2}
  Restorable = {t2}
  MaxVersion = 2
  MaxRestores = 1
  None = None
SPECIFICATION Spec
SYMMETRY Interchangeable
CHECK_DEADLOCK FALSE
INVARIANT TypeOK OneCopy NothingLost
PROPERTY NoEditLost WorkSurvives
