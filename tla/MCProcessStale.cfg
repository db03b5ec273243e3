CONSTANTS
  Pids = {1, 2}
  Protected = {1}
  Letters = {"S"}
  FIRST = 1
  Room = 7
  MaxCollects = 2
SPECIFICATION ListSpec
CHECK_DEADLOCK FALSE
INVARIANT NoStaleEntries
