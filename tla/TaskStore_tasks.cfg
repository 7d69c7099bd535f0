SPECIFICATION Spec
CONSTANTS
  u1 = u1
  u2 = u2
  u3 = u3
  q1 = q1
  q2 = q2
  todo = todo
  doing = doing
  o1 = o1
  o2 = o2
  o3 = o3
  k1 = k1
  k2 = k2
  Unset = Unset
  States = {todo, doing}
  DefaultTimeout = 1
  UUIDs = {u1, u2}
  Queues = {q1, q2}
  SubmissionKeys = {}
  OperationIds = {}
  Submits <- LegacySubmits
  Claims <- LegacyClaims
  Updates <- LegacyUpdates
  Retention = 1
  PurgeLimit = 1
  MonotoneClock = FALSE
  IntRange = 3
  MaxTime = 2
  MaxRevision = 3
SYMMETRY UUIDSymmetry
INVARIANTS TypeOK IndexesMatchTasks OneTaskPerUUID CountsMatchTasks ReleaseIsTheLoop
PROPERTIES TasksAdvance ImplementsLifecycle
