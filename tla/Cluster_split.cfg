SPECIFICATION Spec
CONSTANTS
  N = 3
  MaxLagToVote = 0
  Draws <- TwoStand
  AckCount = 1
  Legacy = {}
  Links <- Split
  Lossy = FALSE
  OneWinner = FALSE
  QueueLen = 1
  MaxEpoch = 1
  MaxWrites = 3
  Crashing = {1}
  MaxRestarts = 0
INVARIANT SamePositionSameData
CHECK_DEADLOCK FALSE
