SPECIFICATION FairSpec
CONSTANTS
  Orgs = {o1}
  Subs = {s1}
  Pays = {p1, p2}
  Clients = {c1}
  PeriodDays = 3
  TrialDays = 1
  GraceDays = 1
  ReactivateDays = 1
  NULL = NULL
PROPERTIES PastDueResolved
