CONSTANTS
  Threads = {t1, t2}
  MapIds = {a, b}
  NULL = NULL
  Machines <- MCArmMachines
  I8_MAX = 1
  MaxTime = 1
SPECIFICATION FairSpec
CHECK_DEADLOCK FALSE
PROPERTY EveryCallAnswered
