SPECIFICATION Spec
CONSTANTS
  Count = 3
  Worker = {w1}
  QueueCap = 1
  ResultCap = 1
  Eager = 2
  Page = 2
  Limits <- MCLimits
  Histories <- MCHistories
INVARIANTS TypeOK OneRequest PickHonoured ColumnDescends
CHECK_DEADLOCK FALSE
PROPERTIES CacheGrows PendingAnswered
