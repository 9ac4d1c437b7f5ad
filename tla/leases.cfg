CONSTANTS
  Runs = {r1}
  Builds = {b1, b2}
  BoundRuns = {r1}
  Workers = {w1, w2}
  FaultyWorkers = {}
  NoWorker = NoWorker
  NoTarget = NoTarget
  Sweeper = Sweeper
  LeaseSeconds = 1
  LeaseMaxSeconds = 2
  ExecutionTimeout = 2
  CancelConvergence = 1
  RetryBase = 1
  RetryMax = 1
  MaxAttempts = 2
  LostAfter = 1
  ProjectLimit = 1
  WorkerLimit = 1
  SweepBatchSize = 2
  RequestBatchSize = 2
  MaxTime = 2
  MaxBoots = 0
SPECIFICATION EitherSpec
SYMMETRY Alike
INVARIANTS
  PendingWorkIsUnleased
  AttemptsWithinBudget
  GrantsEndWithLease
  UncancelledWorkAgrees
  WorkerWithinLimit
PROPERTIES
  TerminalIsFinal
