SPECIFICATION FairSpec
CONSTANTS
  Modules = {m1}
  Failing = {m1}
  LowPriority = {m1}
  Hangable = {m1}
  Tasks = {t1, t2}
  Senders = {api}
  Cycle = cycle
  QueueCapacity = 1
  HeartbeatTimeout = 0
  RestartCooldown = 0
  MaxWork = 0
  NULL = NULL
  Shards = {{m1}}
PROPERTIES RestartCompletes TasksStop
