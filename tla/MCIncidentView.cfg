SPECIFICATION MCSpec
CHECK_DEADLOCK FALSE
CONSTANTS
  None = None
  Readers = {r1}
  Briefers = {b1}
  Histories <- Small
  Assessments = 1
  Severities = {"urgent"}
  MaxNotes = 1
  PageSize = 2
  Capacity = 1
INVARIANTS
  AnswersAreAtomic
  KeptStateIsItsRevision
  SeverityIsItsWorstRow
