SPECIFICATION Spec
CONSTANTS
  Modules = {m1, m2}
  Failing = {m1}
  LowPriority = {m2}
  Hangable = {m1, m2}
  Tasks = {t1, t2, t3}
  Senders = {api}
  Cycle = cycle
  QueueCapacity = 1
  HeartbeatTimeout = 0
  RestartCooldown = 2
  MaxWork = 0
  NULL = NULL
  Shards = {{m1, m2}}
INVARIANTS TypeOK OneSupervisedTask
PROPERTIES CooldownHonoured
