SPECIFICATION Spec
CONSTANTS
  s1 = s1
  s2 = s2
  u1 = u1
  u2 = u2
  q1 = q1
  todo = todo
  doing = doing
  o1 = o1
  k1 = k1
  Unset = Unset
  Sessions = {s1, s2}
  UUIDs = {u1, u2}
  Submits <- OneSubmit
  Requests <- MCRequests
  Retention = 1
  PurgeLimit = 1
  MaxRaces = 3
  IntRange = 2
  MaxTime = 1
  MaxRevision = 3
SYMMETRY SessionSymmetry
INVARIANTS IdenticalIsReplayed LookupFinds 
PROPERTIES ImplementsLifecycle
CHECK_DEADLOCK FALSE
