CONSTANTS
  Pids = {1, 2}
  Protected = {}
  Letters = {"S"}
  FIRST = 1
  Room = 7
  MaxCollects = 1
SPECIFICATION ListSpec
CHECK_DEADLOCK FALSE
PROPERTY KillReturnsErrors
