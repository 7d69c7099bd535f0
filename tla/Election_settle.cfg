SPECIFICATION FairSpec
CONSTANTS
  N = 3
  MaxLagToVote = 0
  Bids = {1}
  Positions <- FreshPositions
  Links <- NoAcks
  Lossy = FALSE
  QueueLen = 1
  MaxEpoch = 1
  MaxRestarts = 0
 
PROPERTY Settles
CHECK_DEADLOCK FALSE
