SPECIFICATION MCSpec
SYMMETRY Symmetry
CHECK_DEADLOCK FALSE
CONSTANTS
  smoke = smoke
  clear = clear
  s1 = s1
  s2 = s2
  s3 = s3
  n1 = n1
  q1 = q1
  r1 = r1
  None = None
  Workers = {w1, w2}
  Signals = {s1, s2, s3}
  Reports = {smoke, clear}
  ReportOf <- MCChanging
  Notes = {n1}
  Requests = {q1}
  Reviews = {r1}
  Attempts = 2
  MaxDeliveries = 1
INVARIANTS
  ConclusionFitsEvidence
  VerdictIsOnRecord
  RejectedStaysRejected
PROPERTIES
  GoodAssessmentStands
  BriefingIsTrue
