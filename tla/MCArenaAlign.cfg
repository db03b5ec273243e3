CONSTANTS
  WORD_BITS = 7
  ARENA_ALIGN = 16
  SIZEOF_ARENA = 32
  Capacities = {4}
  MaxCapacity = 4
  Sizes = {1, 2}
  Marks = {m1}
  MaxAllocs = 3
SPECIFICATION Spec
INVARIANT BlocksAligned
