SPECIFICATION OneStepSpec
CONSTANTS
  RoleOrder <- MCRoleOrder
  Ranks = {1, 2}
  Steps = {1, 2, 3, 4, 5, 6}
  Receivers = {1, 2}
  Sizes <- MCSizes
  BucketSize = 3
  Configs <- MCOneStepConfigs
  MaxRestarts = 0
CHECK_DEADLOCK FALSE
INVARIANT OneStepOffPolicy
