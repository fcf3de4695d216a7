CONSTANTS
  Sessions = {s1}
  NoHooks = NoHooks
  Drafts = {d1, d2}
  Calls = {c1, c2}
  Drafted = {"decision", "rule", "constraint"}
  Killable = {"prompt"}
  ExpiryStarts = 1
  MaxReplies = 2
  MaxMessages = 2
  Unknown = Unknown
  None = None
SPECIFICATION Spec
CONSTRAINT ConstraintsApart
SYMMETRY Interchangeable
CHECK_DEADLOCK FALSE
INVARIANT TypeOK RecordMatchesOutcome WordsAreTheOperators
PROPERTY HeardBeforeRecorded ReplacedByARevision
