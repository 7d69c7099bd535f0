SPECIFICATION Spec
CONSTANTS
  Callers = {c1, c2}
  Safe = {c2}
  N = 2
  MaxAttempts = 2
  MaxTotal = 4
  MaxConns = 2
  Deadlines = TRUE
INVARIANT NotAppliedIsTrue
CHECK_DEADLOCK FALSE
