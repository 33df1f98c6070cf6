SPECIFICATION TrainersSpec
CONSTANTS
  RoleOrder <- MCRoleOrder
  Ranks = {1, 2}
  Steps = {1, 2, 3, 4, 5, 6}
  Receivers = {1, 2}
  Sizes <- MCSizes
  BucketSize = 3
  Configs <- MCConfigs
  MaxRestarts = 2
CHECK_DEADLOCK FALSE
INVARIANT TypeOK
INVARIANT TrackedCheckpointResumable
INVARIANT RetentionBound
INVARIANT TrainedInOrder
INVARIANT SharedInTurns
INVARIANT WeightsDelivered
INVARIANT TransferNeverStuck
INVARIANT RowsKeepTheirResults
INVARIANT LookAheadInOrder
INVARIANT MicroBatchesCover
INVARIANT AdvantagesFollowTheRows
PROPERTY TrackerMovesToComplete
