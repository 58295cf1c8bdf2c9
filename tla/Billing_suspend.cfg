SPECIFICATION Spec
CONSTANTS
  Orgs = {o1}
  Subs = {s1, s2}
  Pays = {p1}
  Clients = {c1, c2}
  PeriodDays = 2
  TrialDays = 1
  GraceDays = 1
  ReactivateDays = 1
  NULL = NULL
PROPERTIES
 SuspendedOnlyFromPastDue
