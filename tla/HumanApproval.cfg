SPECIFICATION Spec
CONSTANTS
  Approvals = {a1}
  Requests = {r1, r2}
  Timeout = 1
  NULL = NULL
INVARIANTS OneTimeUse
