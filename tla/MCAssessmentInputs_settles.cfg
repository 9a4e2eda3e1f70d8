SPECIFICATION MCFairSpec
CHECK_DEADLOCK FALSE
CONSTANTS
  smoke = smoke
  clear = clear
  s1 = s1
  s2 = s2
  s3 = s3
  n1 = n1
  q1 = q1
  r1 = r1
  None = None
  Workers = {w1, w2}
  Signals = {s1, s2}
  Reports = {smoke}
  ReportOf <- MCUnchanged
  Notes = {n1}
  Requests = {}
  Reviews = {}
  Attempts = 2
  MaxDeliveries = 1
PROPERTIES
  EvidenceIsAssessed
