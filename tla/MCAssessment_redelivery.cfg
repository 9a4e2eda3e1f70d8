SPECIFICATION Spec
CHECK_DEADLOCK FALSE
CONSTANTS
  smoke = smoke
  clear = clear
  s1 = s1
  s2 = s2
  s3 = s3
  n1 = n1
  q1 = q1
  r1 = r1
  None = None
  Workers = {w1}
  Signals = {s1}
  Reports = {smoke}
  ReportOf <- MCUnchanged
  Notes = {}
  Requests = {}
  Reviews = {r1}
  Attempts = 2
  MaxDeliveries = 2
INVARIANTS
  RejectedStaysRejected
