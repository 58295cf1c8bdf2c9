SPECIFICATION GraphSpec
CONSTANTS
  n1 = n1
  n2 = n2
  n3 = n3
  n4 = n4
  Nodes = {n1, n2, n3, n4}
  DependsOn <- Diamond
  MaxRetries = 3
  MaxParallel = 2
  FailureThreshold = 2
  Pattern <- Patterns
  Word = {dawa}
  Participant = {amina}
  RecordedConfidence = {10}
  SuccessRate = 52
  MinOccurrences = 1
  MinConfidence = 50
  PruneBelow = 20
  MaxRecorded = 2
  MaxMemories = 3
  MaxLinks = 1
  MaxDays = 1
  MaxNights = 2
INVARIANTS GraphTypeOK DependenciesFirst PipelineAccounts MemoryIsConsistent TraversalsExact GraphAnalyticsExact MaxFlowIsMinCut 
PROPERTIES PruneLeavesNothing GraphComputationsReturn
CHECK_DEADLOCK FALSE
