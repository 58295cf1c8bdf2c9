SPECIFICATION Spec
CONSTANTS
  Txs = {t1, t2, t3, bad, keyless}
  Keyed = {t1, t2, t3, bad}
  Valid = {t1, t2, t3, keyless}
  MaxPerSync = 2
  DedupWindow = 3
  MaxBatch = 3
INVARIANTS DuplicateWasAccepted
