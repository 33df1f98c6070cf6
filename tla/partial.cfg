SPECIFICATION Spec
CONSTANTS
  TotalRolloutSteps = 7
  RequiredSamples = 2
  TriggerParameterSyncStep = 1
  StalenessPercent = 50
  ConcurrencyLimit = 2
  PartialRollout = TRUE
  MaxTaskFailures = 0
  TestFreq = 2
  PendingCapacity = 1
  MaxRequiredSamples <- MCMaxRequiredSamples
  MaxQueueSize <- MCMaxRequiredSamples
  MaxConcurrentSamples <- MCMaxConcurrentSamples
INVARIANT TypeOK
INVARIANT SampleConservation
INVARIANT FreshnessCounter
INVARIANT OutstandingBound
INVARIANT ConcurrencyBound
INVARIANT VersionLagBound
INVARIANT VersionHandshake
INVARIANT NoLostWakeup
CHECK_DEADLOCK FALSE
INVARIANT EndSignalIsLast
INVARIANT ValidationRecordsRead
