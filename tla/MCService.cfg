CONSTANTS
  Threads = {t1, t2}
  MapIds = {a, b, c, d}
  NULL = NULL
  Machines <- MCMachines
  I8_MAX = 1
  MaxTime = 2
SPECIFICATION Spec
SYMMETRY Symmetry
CHECK_DEADLOCK FALSE
INVARIANTS
  TypeOK
  Isolation
  LostOnlyWhenLate
  DownOnlyAfterLeaks
  ReadingsInCall
