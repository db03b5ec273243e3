CONSTANTS
  Threads = {t1}
  MapIds = {a, b, c}
  NULL = NULL
  Machines <- MCOneMachine
  I8_MAX = 1
  MaxTime = 3
SPECIFICATION Spec
CHECK_DEADLOCK FALSE
INVARIANT ServerStaysUp
