SPECIFICATION Spec
CONSTANTS
  Callers = {c1, c2}
  Safe = {c2}
  N = 2
  MaxAttempts = 3
  MaxTotal = 3
  MaxConns = 2
  Deadlines = TRUE
INVARIANTS ResultIsOwn LegacyAtMostOnce LegacyNotAppliedIsTrue
CHECK_DEADLOCK FALSE
