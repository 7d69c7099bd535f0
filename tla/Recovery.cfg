SPECIFICATION Spec
CONSTANTS
  Tags = {1, 2, 3}
  MaxLSN = 4
  SegLen = 1
  OldTasks = {1, 2, 3, 4}
  NullPayload = {2}
  TimedTasks = {2, 3}
  MigrationBatchSize = 2
  MaxCrashes = 2
INVARIANTS    UpgradeIsComplete

