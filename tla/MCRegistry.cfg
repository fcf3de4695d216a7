CONSTANTS
  Paths = {p, q}
  Ids = {i, j}
  Calls = {c1, c2}
  None = None
  Choices = {FALSE, TRUE}
  MaxChanges = 2
SPECIFICATION Spec
CONSTRAINT ChosenInPlace
SYMMETRY Interchangeable
INVARIANT TypeOK RowsAgree ChoiceStands
PROPERTY SettledIsKept
