CONSTANTS
  U64 = 100000
  FIELD = 4
  StaticValues <- MCStaticValues
  Frequencies <- MCFrequencies
  CoreCounts = {4}
  StatLines <- MCStatLines
  MaxLines = 0
  MaxReads = 1
  Amounts = {0, 7, 10, 16384}
  Garbage = {0, 5}
  MaxMemLines = 0
  NAME = 3
  BEFORE_PID = 6
  I8 = 256
  TaskNames <- MCTaskNames
  ThreadCounts = {1, 12, 127, 128, 300}
  MaxStatusReads = 0
  KEY = 3
  ENTRIES = 2
  ProcFiles = {}
  OsNames <- MCOsNames
  ProcVersion <- MCProcVersion
  Uptimes = {0, 59, 60, 3599, 3600, 86399, 86400, 176461}
  MaxOsLines = 3
  MODEL = 3
  FREQUENCY = 3
  I8_MAX = 3
  CoreLists = {}
  Boards <- MCBoards
  Speeds <- MCSpeeds
  SIZEOF_HEADER = 2
  ARENA_ALIGN = 4
  MAX_ALIGN = 4
  BASE = 30
  WORD = 256
  Capacities = {}
  Sizes = {0, 1, 3, 250}
  Alignments = {1, 3, 8}
  MaxPushes = 0
  PortFiles <- MCPortFiles
  Mappings = 2
  MaxPortCalls = 0
  MaxGenerations = 0
  PART_FIRST = 1
  NAME_SIZE = 3
  PartRoom = 7
  Devices = {sda, sdb}
  NameLengths = {1, 2, 3, 4}
  MaxPartitionLines = 0
  Pids = {}
  Protected = {}
  Letters = {"S", "T"}
  FIRST = 1
  Room = 7
  MaxCollects = 0
SPECIFICATION Spec
CHECK_DEADLOCK FALSE
INVARIANT
  VersionFromProc
