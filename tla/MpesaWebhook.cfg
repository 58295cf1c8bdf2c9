SPECIFICATION FairWebhookSpec
CONSTANTS
  Orgs = {o1}
  Subs = {s1}
  Pays = {p1}
  Clients = {c1}
  PeriodDays = 2
  TrialDays = 1
  GraceDays = 1
  ReactivateDays = 1
  NULL = NULL
  PasskeySet = TRUE
PROPERTIES PaidIsConfirmed
