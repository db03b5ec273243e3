CONSTANTS
  WORD_BITS = 7
  ARENA_ALIGN = 16
  SIZEOF_ARENA = 32
  Capacities = {2, 4}
  MaxCapacity = 4
  Sizes = {0, 1, 3}
  Marks = {m1, m2}
  MaxAllocs = 3
SPECIFICATION Spec
INVARIANTS
  TypeOK
  NoFault
  BlocksInBounds
  ContentsIntact
  NothingLeaked
PROPERTIES
  ImplementsRegion
  EndKeepsOlderBlocks
