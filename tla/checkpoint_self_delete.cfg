SPECIFICATION Spec
CONSTANTS
  RoleOrder <- MCRoleOrder
  Ranks = {1, 2}
  Steps = {0, 1, 2, 3, 4}
  SaveFreq = 1
  TriggerParameterSyncStep = 2
  TestFreq = 1
  Limits = {1}
  MaxUpdates = 4
  MaxRestarts = 1
INVARIANT TrackedCheckpointRestartable
CHECK_DEADLOCK FALSE
