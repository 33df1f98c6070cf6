SPECIFICATION QueueFairSpec
CONSTANTS
  trainer = trainer
  validator = validator
  Consumers <- MCConsumers
  MaxConcurrency = 3
  MaxQueueSize = 2
  MaxPut = 6
INVARIANT QueueTypeOK
INVARIANT FreshestRun
INVARIANT DeliveredInOrder
INVARIANT NoSleepingConsumer
PROPERTY ShutdownReleases
PROPERTY StreamSpecRefined
CHECK_DEADLOCK FALSE
