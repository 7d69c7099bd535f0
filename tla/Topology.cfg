SPECIFICATION FairSpec
CONSTANTS
  Peers = {p1}
  Subscribers = {s1, s2}
  QueueLen = 1
  MaxChanges = 2
  MaxDials = 2
 
PROPERTIES ChangeIsPushed
CHECK_DEADLOCK FALSE
