CONSTANTS
  Calls = {c1, c2}
  Missions = {m1}
  Sprints = {s1, s2}
  None = None
  Added = {"Queued", "Blocked"}
  Written = {"Planned", "Active", "active"}
  Inbound = {"Completed"}
  InboundMission = {"In Progress"}
  Fallible = {c1, c2}
SPECIFICATION Spec
SYMMETRY Interchangeable
INVARIANT TypeOK AtMostOneOpenSprint
PROPERTY DemotedOnlyByASuccessor LegalUnlessOvertaken CloseLeavesPointersRight
