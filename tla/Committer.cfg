SPECIFICATION FairSpec
CONSTANTS
  Callers = {c1, c2, c3}
  UUIDs = {u1}
  States = {s1}
  TooLong = {}
  QueueLen = 1
  MaxBatch = 2
  Linger = TRUE
  DiskFails = TRUE
  MaxWrites = 3
 
PROPERTY EveryWriteAnswered
CHECK_DEADLOCK FALSE
