SPECIFICATION LoopsSpec
CONSTANTS
  Callers = {c1, c2, c3}
  FailureThreshold = 3
  HalfOpenSuccessThreshold = 3
  HalfOpenFailureThreshold = 2
  HalfOpenMaxConcurrent = 1
  OpenTimeout = 2
  NULL = NULL
  Ticking = {"medium", "slow", "deep"}
  Knowledge = TRUE
  RingCapacity = 1
  MaxHistory = 1
  MaxEvents = 2
  MaxCycles = 2
  Stages <- TwoStages
  Device = {"d"}
  ChannelCapacity = 2
  MaxKept = 2
  MaxSignals = 3
INVARIANTS TypeOK LoopsTypeOK CyclesAccounted SignalsHandledOnce
PROPERTIES TripsOnStreak QuietAfterOpening Recovers LoopsProgress
CHECK_DEADLOCK FALSE
