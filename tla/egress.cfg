SPECIFICATION Spec
CHECK_DEADLOCK FALSE
CONSTANTS
  MaxSecretVersion = 3
  Targets = {d1, d2}
  ClaimTicks = 1
  MaxCanaryAttempts = 2
  CanaryBatch = 1
  MaxRetries = 1
  Replies = {"2xx", "timeout"}
  Observations = {o1, o2}
  Evidences <- MCEvidences
  HourTicks = 2
  WindowHours = 2
  RawRetentionHours = 3
  RollupRetentionHours = 4
  RollupBatchSize = 1
  PurgeBatchSize = 1
  MaxHealthTime = 10
  Owners = {p1, p2}
  MaxSweepTime = 4
INVARIANTS
  SummariesCountOnce
  FailureSilencedByOthersOnly
PROPERTIES
  SuccessIsCurrent
  CanariesAreLeasedWork
  RotationsAreJudged
