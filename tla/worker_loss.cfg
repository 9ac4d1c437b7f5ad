CONSTANTS
  Runs = {r1}
  Builds = {}
  BoundRuns = {}
  Workers = {w1}
  FaultyWorkers = {w1}
  NoWorker = NoWorker
  NoTarget = NoTarget
  Sweeper = Sweeper
  LeaseSeconds = 1
  LeaseMaxSeconds = 2
  ExecutionTimeout = 2
  CancelConvergence = 1
  RetryBase = 1
  RetryMax = 1
  MaxAttempts = 2
  LostAfter = 1
  ProjectLimit = 1
  WorkerLimit = 2
  SweepBatchSize = 1
  RequestBatchSize = 1
  MaxTime = 3
  MaxBoots = 2
SPECIFICATION Spec
INVARIANTS
  LostWorkerIsFenced
