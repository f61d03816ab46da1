SPECIFICATION Spec
CONSTANTS
  Timers = {t1, t2}
  Limit = 10
INVARIANT
  OutputBounded
PROPERTY
  EndsAtLimit
