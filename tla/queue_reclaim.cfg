SPECIFICATION FairQueueSpec
CONSTANTS
  Requests = {r1, r2}
  Keys = {k1, k2}
  Enqueuers = {c1}
  TheWorker = worker
  NoRequest = none
  ClaimSeconds = 1
  MaxAttempts = 1
  MaxTime = 3
PROPERTY
  ExpiredClaimsEnd
