SPECIFICATION FairWebhookSpec
CONSTANTS
  Events = {e1}
  Operators = {u1}
  Keys = {k1, k2}
  NoKey = none
  DeliveryBatch = 1
  ClaimSeconds = 1
  RetryUnit = 1
  RetryCap = 1
  MaxAttempts = 2
  Threshold = 2
  MaxSecret = 2
  MaxDbTime = 2
INVARIANTS
  ReplayedOnce
PROPERTIES
  DeliveriesAreLeasedWork
  SuccessUsesCurrentSecret
  DueIsClaimed
