SPECIFICATION FairScheduleSpec
CONSTANTS
  Names = {s1, s2}
  Users = {u1}
  Dispatchers = {d1, d2}
  Intervals = {1, 2}
  Starts = {0}
  Grace = 0
  BatchSize = 1
  Null = null
  MaxCalls = 1
  MaxTime = 1
INVARIANTS
  RunsMatchHistory
PROPERTIES
  DueIsHandled
