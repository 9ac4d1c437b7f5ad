SPECIFICATION Spec
CHECK_DEADLOCK FALSE
CONSTANTS
  r1 = r1
  r2 = r2
  Nothing = Nothing
  Opaque = Opaque
  Workers = {w1, w2}
  Runs = {r1, r2}
  Plans <- MCPlans
  Entries = {"a", "b"}
  Outputs <- MCOutputs
  MaxMutations = 2
  MaxTries = 2
  MaxClaims = 2
  FaultyWorkers = {w1}
  MaxFaults = 1
  ApiConfigs <- MCApiConfigs
  WorkerConfigs <- MCWorkerConfigs
  Manifests <- MCManifests
  Width <- MCWidth
  Credentialed = {2}
  MaxChanges = 1
INVARIANT IssuedIsAccepted
PROPERTIES
  GrantedByEveryParty
  HandledIsPersisted
  SucceededMeansHandled
  LostLeaseEndsProcess
