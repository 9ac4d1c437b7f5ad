SPECIFICATION Spec
CONSTANTS
  i1 = i1  i2 = i2  i3 = i3  i4 = i4  a = a  b = b
  Mutators = {t1, t2}  KVReaders = {r1}  RecordKeys = {a, b}
  IdempotencyKeys = {i1, i2, i3, i4}  Mutations <- MCMutations
  ObjectIds = {o1, o2, o3, o4}  NoObject = none  AnyVersion = any
  MaxKVRecords = 2  MaxKVStoreBytes = 2
  Appenders = {t1, t2}  Exporters = {r1}  AppendKeys = {i1, i2, i3}  Batches <- MCBatches
  MaxDatasetItems = 3  MaxDatasetBytes = 4
  Requests = {q1, q2}  Keys = {k1, k2}  Enqueuers = {c1}  TheWorker = worker
  NoRequest = none  ClaimSeconds = 1  MaxAttempts = 2  MaxTime = 4
  Hosts = {"h1", "h2"}  AllowedHosts = {"h1"}
  Addresses = {"public", "private"}  Global = {"public"}  Lookups <- MCLookups
  MaxRequests = 2  MaxResponse = 2  MaxTotal = 3  MaxRedirects = 1  SpareConnections = 1
  MaxPageRequests = 4  MaxDnsChanges = 1  Nowhere = Nowhere
INVARIANTS
  MutationAppliedOnce VersionsKeepTheirObject ReadsAreWhole BatchStoredOnce ExportsAreWhole
  WorkerCountersAgree
  TrafficWithinBudget ReachesValidated ReportCoversPage
PROPERTY QueueIsLeasedWork
SYMMETRY KeySymmetry
CHECK_DEADLOCK FALSE
