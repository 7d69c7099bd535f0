SPECIFICATION Spec
CONSTANTS
  N = 2
  MaxLagToVote = 0
  Draws <- FirstHigher
  AckCount = 1
  Legacy = {2}
  Links <- AllLinks
  Lossy = TRUE
  OneWinner = FALSE
  QueueLen = 1
  MaxEpoch = 2
  MaxWrites = 2
  Crashing = {1}
  MaxRestarts = 1
INVARIANTS    UnknownDataWaits
 
CHECK_DEADLOCK FALSE
