SPECIFICATION Spec
CONSTANTS
  TotalRolloutSteps = 4
  RequiredSamples = 1
  TriggerParameterSyncStep = 1
  StalenessPercent = 100
  ConcurrencyLimit = 2
  PartialRollout = FALSE
  MaxTaskFailures = 0
  TestFreq = 1
  PendingCapacity = 1
  MaxRequiredSamples <- MCMaxRequiredSamples
  MaxQueueSize <- MCMaxRequiredSamples
  MaxConcurrentSamples <- MCMaxConcurrentSamples
PROPERTY NoSubmissionWhilePaused
CHECK_DEADLOCK FALSE
