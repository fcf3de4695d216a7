CONSTANTS
  Processes = {p, q}
  Linked = {q}
  Harness = Harness
  Calls = {c1, c2}
  Sessions = {s1, s2}
  Decisions = {d}
  Steps = {n}
  None = None
  MaxCalls = 4
SPECIFICATION Spec
SYMMETRY Interchangeable
CHECK_DEADLOCK FALSE
INVARIANT TypeOK DecisionRecordedOnce OneImplicitSession StepKeptUnlessOverlapped
PROPERTY OthersLeaveItAlone
