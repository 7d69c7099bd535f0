SPECIFICATION FairSpec
CONSTANTS
  u1 = u1
  u2 = u2
  u3 = u3
  q1 = q1
  q2 = q2
  todo = todo
  doing = doing
  o1 = o1
  o2 = o2
  o3 = o3
  k1 = k1
  k2 = k2
  Unset = Unset
  States = {todo, doing}
  DefaultTimeout = 1
  UUIDs = {u1, u2, u3}
  Queues = {q1}
  SubmissionKeys = {k1}
  OperationIds = {o1, o2}
  Submits <- KeyedSubmits
  Claims <- GuardedClaims
  Updates <- GuardedUpdates
  Retention = 1
  PurgeLimit = 1
  MonotoneClock = TRUE
  IntRange = 4
  MaxTime = 1
  MaxRevision = 4
PROPERTIES ExpiredReceiptsLeave GuardedChangesHaveReceipts ImplementsLifecycle
INVARIANTS KeyAcceptedOnce OperationAppliedOnce ReceiptsIndexed SingleHolder OneOperationPerRevision
CHECK_DEADLOCK FALSE
