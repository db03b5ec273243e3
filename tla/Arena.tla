-------------------------------- MODULE Arena --------------------------------
(***************************************************************************)
(* The bump allocator of base/base_arena.c: one mem_arena, the blocks it   *)
(* has handed out and the temp_arena marks its clients hold.               *)
(*                                                                         *)
(* Positions are byte offsets from base_position, which directly follows   *)
(* the header in the mapping and never changes.  What a byte contains is   *)
(* abstracted to the stamp of the block whose client wrote it, 0 being the *)
(* zero that the kernel or MemSet put there.                               *)
(***************************************************************************)
EXTENDS Integers, FiniteSets
LOCAL INSTANCE FiniteSetsExt

CONSTANTS
  WORD_BITS,     \* width of u64 and umm: 64 in the code
  ARENA_ALIGN,   \* 2 * sizeof(void *): 16 in the code
  SIZEOF_ARENA,  \* sizeof(mem_arena): 32 in the code
  Capacities,    \* capacities an arena is created with
  MaxCapacity,   \* the largest of them: 8 MiB in the code
  Sizes,         \* sizes clients ask for
  Marks,         \* the temp_arena variables of the clients
  MaxAllocs      \* bound: allocations in one behaviour

WORD == 2 ^ WORD_BITS

(* sizeof(T) * len stays far below 2^64 in every caller: the longest array  *)
(* asked for is twice one that already fitted into the arena.               *)
ASSUME WordAssumption ==
  /\ WORD_BITS \in Nat
  /\ WORD \in Nat
  /\ ARENA_ALIGN \in Nat
  /\ SIZEOF_ARENA \in Nat \ {0}

ASSUME SizeAssumption ==
  /\ MaxCapacity \in Nat
  /\ Capacities \subseteq 0 .. MaxCapacity
  /\ Sizes \subseteq Nat
  /\ \A s \in Sizes : MaxCapacity + s < WORD

ASSUME BoundAssumption == MaxAllocs \in Nat

VARIABLES
  mapped,             \* length of the mapping behind the arena, 0 if there is none
  capacity,           \* the fields of mem_arena
  current_position,
  previous_position,
  mem,                \* what each byte after the header contains
  blocks,             \* the blocks clients hold, and what they expect in them
  marks,              \* the temp_arena value in each client variable
  clock,              \* allocations so far; stamps the blocks
  fault,              \* a memory access left the mapping: the process is gone
  leaked              \* munmap left part of a mapping behind

header == <<capacity, current_position, previous_position>>
vars == <<mapped, header, mem, blocks, marks, clock, fault, leaked>>

Addr == 0 .. MaxCapacity - 1

NoMark == [start_position |-> -1, stamp |-> -1]

-----------------------------------------------------------------------------
(* base/base_mem.c *)

is_pow(x) == x = 0 \/ \E k \in 0 .. WORD_BITS - 1 : x = 2 ^ k

ASSUME AlignAssumption == is_pow(ARENA_ALIGN)

(* x & ~m *)
BitClear(x, m) ==
  LET Odd(n, k) == (n \div 2 ^ k) % 2 = 1
  IN  MapThenSumSet(LAMBDA k : 2 ^ k,
                    {k \in 0 .. WORD_BITS - 1 : Odd(x, k) /\ ~Odd(m, k)})

(* A power of two takes the early return: the pointer comes back as it is. *)
align(pointer, alignment) ==
  IF is_pow(alignment)
  THEN pointer
  ELSE BitClear(pointer + alignment - 1, alignment - 1)

-----------------------------------------------------------------------------
Bytes(b) == b.off .. b.off + b.size - 1

(* The data bytes off .. off + size - 1 lie inside the mapping. *)
InMapping(off, size) == SIZEOF_ARENA + off + size <= mapped

(* memset and memcpy of size bytes at off *)
Fill(m, off, size, value) ==
  [a \in DOMAIN m |-> IF off <= a /\ a < off + size THEN value ELSE m[a]]

(* Moving current_position down to pos takes back every block above it. *)
Below(pos) == {b \in blocks : b.off + b.size <= pos}

Running == mapped # 0 /\ ~fault

Init ==
  /\ mapped = 0
  /\ capacity = 0 /\ current_position = 0 /\ previous_position = 0
  /\ mem = [a \in Addr |-> 0]
  /\ blocks = {}
  /\ marks = [k \in Marks |-> NoMark]
  /\ clock = 0
  /\ fault = FALSE
  /\ leaked = FALSE

(* Mutant: the mapping has no room for the header. *)
MapLength_no_header(c) == c

MapLength(c) == c + SIZEOF_ARENA

(* When mmap fails arena_create returns NULL and nothing has changed. *)
arena_create(c) ==
  /\ mapped = 0 /\ ~fault
  /\ mapped' = MapLength(c)
  /\ capacity' = c
  /\ current_position' = 0
  /\ previous_position' = 0
  /\ mem' = [a \in Addr |-> 0]
  /\ UNCHANGED <<blocks, marks, clock, fault, leaked>>

(* munmap is given the length the header says; the header and the data go   *)
(* with the mapping.                                                        *)
Unmap(length) ==
  /\ Running
  /\ mapped' = 0
  /\ leaked' = (leaked \/ length < mapped)
  /\ capacity' = 0 /\ current_position' = 0 /\ previous_position' = 0
  /\ mem' = [a \in Addr |-> 0]
  /\ blocks' = {}
  /\ marks' = [k \in Marks |-> NoMark]
  /\ UNCHANGED <<clock, fault>>

(* Mutant: the header is forgotten. *)
arena_destroy_no_header == Unmap(capacity)

arena_destroy == Unmap(capacity + SIZEOF_ARENA)

(* Mutant: no comparison with the capacity. *)
HasRoom_unchecked(new_pos) == TRUE

HasRoom(new_pos) == new_pos <= capacity

(* Mutant: the block starts at previous_position. *)
Out_previous(aligned) == previous_position

Out(aligned) == aligned

(* Mutant: no MemSet. *)
Zeroed_dirty(off, size) == mem

Zeroed(off, size) == Fill(mem, off, size, 0)

(* A request that does not fit returns NULL and changes nothing. *)
arena_alloc(size) ==
  LET aligned == align(current_position, ARENA_ALIGN)
      new_pos == (aligned + size) % WORD
  IN  /\ Running
      /\ clock < MaxAllocs
      /\ HasRoom(new_pos)
      /\ previous_position' = current_position
      /\ current_position' = new_pos
      /\ clock' = clock + 1
      /\ fault' = ~InMapping(Out(aligned), size)
      /\ mem' = Zeroed(Out(aligned), size)
      /\ blocks' = blocks \cup
           {[off |-> Out(aligned), size |-> size, stamp |-> clock + 1, holds |-> 0]}
      /\ UNCHANGED <<mapped, capacity, marks, leaked>>

(* The client of a block writes all of it. *)
ClientWrite(b) ==
  /\ Running
  /\ b.holds = 0
  /\ mem' = Fill(mem, b.off, b.size, b.stamp)
  /\ blocks' = (blocks \ {b}) \cup {[b EXCEPT !.holds = b.stamp]}
  /\ fault' = ~InMapping(b.off, b.size)
  /\ UNCHANGED <<mapped, header, marks, clock, leaked>>

(* What arena_pop, arena_pop_to, arena_clear and temp_arena_end do. *)
MoveTo(pos) ==
  /\ Running
  /\ current_position' = pos
  /\ blocks' = Below(pos)
  /\ UNCHANGED <<mapped, capacity, previous_position, mem, marks, clock, fault, leaked>>

(* Mutant: without MIN the subtraction goes below zero. *)
arena_pop_no_min(size) == MoveTo(current_position - size)

arena_pop(size) ==
  MoveTo(current_position - (IF size < current_position THEN size ELSE current_position))

arena_pop_to(pos) == pos < current_position /\ MoveTo(pos)

arena_clear == MoveTo(0)

(* Mutant: the mark records previous_position. *)
MarkHere_previous == [start_position |-> previous_position, stamp |-> clock]

MarkHere == [start_position |-> current_position, stamp |-> clock]

temp_arena_begin(k) ==
  /\ Running
  /\ marks' = [marks EXCEPT ![k] = MarkHere]
  /\ UNCHANGED <<mapped, header, mem, blocks, clock, fault, leaked>>

(* temp is passed by value, so the same mark can be ended again. *)
temp_arena_end(k) ==
  /\ marks[k] # NoMark
  /\ MoveTo(marks[k].start_position)

Next ==
  \/ \E c \in Capacities : arena_create(c)
  \/ arena_destroy
  \/ \E s \in Sizes : arena_alloc(s)
  \/ \E b \in blocks : ClientWrite(b)
  \/ \E s \in Sizes : arena_pop(s)
  \/ \E p \in 0 .. MaxCapacity : arena_pop_to(p)
  \/ arena_clear
  \/ \E k \in Marks : temp_arena_begin(k)
  \/ \E k \in Marks : temp_arena_end(k)

Spec == Init /\ [][Next]_vars

-----------------------------------------------------------------------------
(* Properties *)

Block == [off : Nat, size : Nat, stamp : Nat, holds : Nat]

(* Every variable has its type (struct mem_arena, struct temp_arena). *)
TypeOK ==
  /\ mapped \in Nat
  /\ capacity \in 0 .. MaxCapacity
  /\ current_position \in Nat /\ previous_position \in Nat
  /\ mem \in [Addr -> Nat]
  /\ blocks \subseteq Block
  /\ marks \in [Marks -> [start_position : Nat, stamp : Nat] \cup {NoMark}]
  /\ clock \in Nat
  /\ fault \in BOOLEAN /\ leaked \in BOOLEAN

(* No access of arena_alloc's MemSet or of a client inside its own block    *)
(* leaves the mapping, whatever sequence of pushes, pops and temp scopes    *)
(* led here.                                                                *)
NoFault == ~fault

(* Every block a client holds lies below current_position, which            *)
(* arena_alloc, arena_pop and temp_arena_end keep within the capacity that  *)
(* was mapped.                                                              *)
BlocksInBounds ==
  mapped # 0 =>
    /\ \A b \in blocks : b.off + b.size <= current_position
    /\ current_position <= capacity
    /\ mapped = capacity + SIZEOF_ARENA

(* Two blocks that clients hold at the same time share no byte. *)
BlocksDisjoint ==
  \A b, d \in blocks :
    b.stamp # d.stamp => b.off + b.size <= d.off \/ d.off + d.size <= b.off

(* What a client wrote into its block is still there, and a block not yet   *)
(* written is still zero, until the arena takes the block back: later       *)
(* arena_alloc calls hand out and clear other bytes.                        *)
ContentsIntact ==
  \A b \in blocks : \A a \in Bytes(b) : mem[a] = b.holds

(* temp_arena_end gives back only what was allocated after the matching     *)
(* temp_arena_begin, in whatever order scopes are ended and mixed with      *)
(* arena_pop and arena_clear.                                               *)
EndKeepsOlderBlocks ==
  [][\A k \in Marks :
       temp_arena_end(k) =>
         \A b \in blocks : b.stamp <= marks[k].stamp => b \in blocks']_vars

(* arena_destroy unmaps the whole mapping of arena_create. *)
NothingLeaked == ~leaked

(* The arena implements the promise of Region: the regions are the blocks,  *)
(* and what is read from one is what its bytes of the mapping contain.      *)
RegionOf(m, b) ==
  [off |-> b.off, size |-> b.size, stamp |-> b.stamp, value |-> {m[a] : a \in Bytes(b)}]

Regions == {RegionOf(mem, b) : b \in blocks}

Contract == INSTANCE Region WITH live <- Regions

(* No arena operation moves, overlaps or alters what another client holds:  *)
(* every step is one that Region allows.                                    *)
ImplementsRegion == Contract!Spec

(* Test: arena_alloc aligns allocations (the mapping starts on a page).     *)
BlocksAligned ==
  \A b \in blocks : (SIZEOF_ARENA + b.off) % ARENA_ALIGN = 0

-----------------------------------------------------------------------------
(* The inductive invariant of the proofs *)

StampsOrdered ==
  /\ \A b \in blocks : b.stamp <= clock
  /\ \A b, d \in blocks : b.stamp = d.stamp => b = d

(* A mark lies inside the arena and above every block older than it. *)
MarksInBounds ==
  \A k \in Marks : marks[k] # NoMark =>
    /\ marks[k].start_position <= capacity
    /\ marks[k].stamp <= clock
    /\ \A b \in blocks :
         b.stamp <= marks[k].stamp => b.off + b.size <= marks[k].start_position

UnmappedIsEmpty ==
  mapped = 0 => blocks = {} /\ \A k \in Marks : marks[k] = NoMark

IInv ==
  /\ TypeOK /\ NoFault /\ NothingLeaked
  /\ BlocksInBounds /\ BlocksDisjoint /\ ContentsIntact
  /\ StampsOrdered /\ MarksInBounds /\ UnmappedIsEmpty

=============================================================================
