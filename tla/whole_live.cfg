SPECIFICATION FairSpec
CONSTANTS
  TotalRolloutSteps = 8
  RequiredSamples = 2
  TriggerParameterSyncStep = 2
  StalenessPercent = 0
  ConcurrencyLimit = 2
  PartialRollout = FALSE
  MaxTaskFailures = 1
  TestFreq = 1
  PendingCapacity = 1
  MaxRequiredSamples <- MCMaxRequiredSamples
  MaxQueueSize <- MCMaxRequiredSamples
  MaxConcurrentSamples <- MCMaxConcurrentSamples
INVARIANT SampleConservation
INVARIANT OutstandingBound
INVARIANT SynchronousTraining
PROPERTY TrainingEnds
PROPERTY GenerationResumes
