SPECIFICATION FairSpec
CONSTANTS
  Samples = {1}
  Members <- MCMembers
  Completions = {1, 2}
  Callers = {1, 2}
  Requesters = {1, 2}
  Length <- MCLength
  Observations <- MCObservations
  AgentNames = {"tool_agent", "single_turn_agent"}
  NumWorkers = 1
  Servers = {1, 2}
  ResponseLength = 4
  RateLimit = 1
  NumRewardWorkers = 2
  Buckets <- MCBuckets
  Need <- MCNeed
  Burst <- MCBurst
  MaxConcurrent = 1
  MaxPauses = 1
CHECK_DEADLOCK FALSE
ACTION_CONSTRAINT Assigned
INVARIANT TypeOK
INVARIANT ResponsesContiguous
INVARIANT LimitsRespected
PROPERTY PartialGenerationRefined
PROPERTY PausesEndAndSamplesFinish
