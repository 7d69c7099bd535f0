SPECIFICATION Spec
CONSTANTS
  N = 2
  MaxLagToVote = 0
  Bids = {1, 2}
  Positions <- MixedPositions
  Links <- NoAcks
  Lossy = TRUE
  QueueLen = 2
  MaxEpoch = 2
  MaxRestarts = 1
INVARIANTS TypeOK WinsAboveItsHistory DoubleWinNeedsLostBid
CHECK_DEADLOCK FALSE
