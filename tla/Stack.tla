-------------------------------- MODULE Stack --------------------------------
(***************************************************************************)
(* The stack allocator of base/base_stack.c.  Every block is preceded by a *)
(* mem_stack_header whose padding byte says how far stack_pop goes back.   *)
(*                                                                         *)
(* Positions are byte offsets from base_position.  A byte holds the        *)
(* padding that was written there, DATA plus the stamp of the block whose  *)
(* client wrote it, or 0.                                                  *)
(***************************************************************************)
EXTENDS Integers, FiniteSets

CONSTANTS
  SIZEOF_HEADER,   \* sizeof(mem_stack_header): 2 in the code
  ARENA_ALIGN,     \* the alignment of stack_push: 16 in the code
  MAX_ALIGN,       \* 128 in the code
  BASE,            \* the address in base_position
  WORD,            \* 2^64 in the code
  Capacities,      \* capacities a stack is created with
  Sizes,           \* sizes clients ask for
  Alignments,      \* alignments they give to stack_push_align
  MaxPushes        \* bound: pushes in a behaviour

(* A mapping lies above the first capacity bytes of the address space, and  *)
(* far below its end.                                                       *)
ASSUME StackAssumption ==
  /\ SIZEOF_HEADER \in Nat \ {0} /\ MAX_ALIGN \in Nat \ {0} /\ MaxPushes \in Nat
  /\ BASE \in Nat /\ WORD \in Nat \ {0}
  /\ Capacities \subseteq Nat \ {0}
  /\ \A c \in Capacities : c <= BASE /\ 2 * BASE < WORD
  /\ Sizes \subseteq Nat
  /\ Alignments \cup {ARENA_ALIGN} \subseteq Nat \ {0}

VARIABLES
  capacity,         \* the fields of mem_stack; capacity is 0 while there is none
  current_offset,
  mem,              \* the bytes after the header of the stack
  blocks,           \* the blocks clients hold, and what they expect in them
  freed,            \* pointers given back since the last push
  stale,            \* pointers given back before it
  pushes,           \* pushes so far; stamps the blocks
  harm              \* the first call after which nothing is promised, or "none"

stackVars == <<capacity, current_offset, mem, blocks, freed, stale, pushes, harm>>

DATA == 100

Min2(x, y) == IF x < y THEN x ELSE y

StackInit ==
  /\ capacity = 0 /\ current_offset = 0
  /\ mem = [a \in {} |-> 0]
  /\ blocks = {} /\ freed = {} /\ stale = {}
  /\ pushes = 0
  /\ harm = "none"

(* After these the process is gone: a copy to address 0, and writes outside *)
(* of the stack, after the sum in the test of the capacity wrapped or not.  *)
Faults == {"no_room", "wrapped", "fault"}

Running == capacity # 0 /\ harm \notin Faults

stack_create(c) ==
  /\ capacity = 0
  /\ capacity' = c
  /\ current_offset' = 0
  /\ mem' = [a \in 0 .. c - 1 |-> 0]
  /\ UNCHANGED <<blocks, freed, stale, pushes, harm>>

stack_destroy ==
  /\ Running
  /\ capacity' = 0 /\ current_offset' = 0
  /\ mem' = [a \in {} |-> 0]
  /\ blocks' = {} /\ freed' = {} /\ stale' = {}
  /\ UNCHANGED <<pushes, harm>>

is_pow(x) == \E k \in 0 .. x : x = 2 ^ k

(* For a power of two x & (alignment - 1) is x % alignment.  The code adds  *)
(* the alignment when the pointer is aligned and nothing when it is not.    *)
calculate_padding(pointer, alignment, header_size) ==
  LET padding == IF pointer % alignment = 0 THEN alignment ELSE 0
      rest == header_size - padding
  IN  IF padding >= header_size THEN padding
      ELSE padding + alignment * (rest \div alignment + (IF rest % alignment = 0 THEN 0 ELSE 1))

(* Where a push of the given alignment leaves its block. *)
Padding(alignment) ==
  calculate_padding(BASE + current_offset, Min2(alignment, MAX_ALIGN), SIZEOF_HEADER)

(* Mutant: the padding is left out of the test. *)
Fits_no_padding(size, alignment) ==
  (current_offset + size) % WORD <= capacity

Fits(size, alignment) ==
  (current_offset + Padding(alignment) + size) % WORD <= capacity

(* A push that is not granted returns 0 and changes nothing. *)
Granted(size, alignment) == is_pow(alignment) /\ Fits(size, alignment)

(* Mutant: the zeroes begin at the header. *)
Cleared_with_header(a, off, size) == off - SIZEOF_HEADER <= a /\ a < off + size

(* The bytes MemSet writes. *)
Cleared(a, off, size) == off <= a /\ a < off + size

(* The padding byte and size zeroes. *)
Pushed(size, alignment) ==
  LET off == current_offset + Padding(alignment)
  IN  [a \in DOMAIN mem |->
         IF Cleared(a, off, size) THEN 0
         ELSE IF a = off - SIZEOF_HEADER THEN Padding(alignment) ELSE mem[a]]

Harmed(what) == harm' = IF harm = "none" THEN what ELSE harm

(* Below base_position and above the capacity lies memory of others.        *)
PushFaults(size, alignment) ==
  LET off == current_offset + Padding(alignment)
  IN  /\ Running
      /\ Granted(size, alignment)
      /\ off < SIZEOF_HEADER \/ off + size > capacity
      /\ harm' = IF off + size >= WORD THEN "wrapped" ELSE "fault"
      /\ UNCHANGED <<capacity, current_offset, mem, blocks, freed, stale, pushes>>

(* What a push changes of the stack itself. *)
Grow(size, alignment) ==
  LET off == current_offset + Padding(alignment)
  IN  /\ Granted(size, alignment)
      /\ SIZEOF_HEADER <= off /\ off + size <= capacity
      /\ pushes < MaxPushes /\ pushes' = pushes + 1
      /\ current_offset' = off + size
      /\ freed' = {} /\ stale' = stale \cup freed
      /\ UNCHANGED capacity

stack_push_align(size, alignment) ==
  \/ PushFaults(size, alignment)
  \/ /\ Running
     /\ Grow(size, alignment)
     /\ mem' = Pushed(size, alignment)
     /\ blocks' = blocks \cup
                    {[off |-> current_offset + Padding(alignment), size |-> size, known |-> size,
                      holds |-> 0, before |-> current_offset, stamp |-> pushes + 1]}
     /\ UNCHANGED harm

stack_push(size) == stack_push_align(size, ARENA_ALIGN)

(* The client of a block writes all of it. *)
ClientWrite(b) ==
  /\ Running
  /\ b.holds = 0
  /\ mem' = [a \in DOMAIN mem |->
               IF b.off <= a /\ a < b.off + b.size THEN DATA + b.stamp ELSE mem[a]]
  /\ blocks' = (blocks \ {b}) \cup
                 {[b EXCEPT !.holds = DATA + b.stamp, !.known = b.size]}
  /\ UNCHANGED <<capacity, current_offset, freed, stale, pushes, harm>>

(* The offset after stack_pop.  The second test compares with the sum of    *)
(* two addresses, where current_offset must have been meant.                *)
Popped(off) ==
  IF off < capacity /\ BASE + off < BASE + BASE
  THEN (off - mem[off - SIZEOF_HEADER]) % WORD
  ELSE current_offset

(* Clients hold on to the blocks below the new offset. *)
MoveTo(offset) ==
  LET gone == {b \in blocks : b.off + b.size > offset}
  IN  /\ current_offset' = offset
      /\ blocks' = blocks \ gone
      /\ freed' = freed \cup {b.off : b \in gone}
      /\ UNCHANGED <<capacity, mem, stale, pushes>>

stack_pop(b) == Running /\ MoveTo(Popped(b.off)) /\ UNCHANGED harm

(* A pointer that was given back already is popped again. *)
PopAgain(off) ==
  /\ Running
  /\ SIZEOF_HEADER <= off
  /\ MoveTo(Popped(off))
  /\ IF off \in stale THEN Harmed("stale_pop") ELSE UNCHANGED harm

stack_pop_all == Running /\ MoveTo(0) /\ UNCHANGED harm

(* stack_resize_align pushes a second block, copies into it and returns the *)
(* old pointer.  When it is not granted the copy goes to address 0, which   *)
(* only a copy of nothing survives.                                         *)
ResizeByPush(b, new_size, alignment) ==
  LET off == current_offset + Padding(alignment)
      min_size == Min2(b.size, new_size)
      above == \E d \in blocks : d.off > b.off
      pushed == Pushed(new_size, alignment)
  IN  /\ Grow(new_size, alignment)
      /\ mem' = [a \in DOMAIN mem |->
                   IF off <= a /\ a < off + min_size THEN pushed[b.off + (a - off)] ELSE pushed[a]]
      /\ blocks' = (blocks \ {b}) \cup
                     {[b EXCEPT !.size = new_size, !.known = Min2(b.known, min_size)]}
      /\ IF new_size > b.size /\ above THEN Harmed("grown_below") ELSE UNCHANGED harm

ResizeWithoutRoom(b, new_size, alignment) ==
  /\ ~Granted(new_size, alignment)
  /\ IF b.size # 0 THEN harm' = "no_room" /\ UNCHANGED blocks
     ELSE /\ Harmed("grown_below")
          /\ blocks' = (blocks \ {b}) \cup {[b EXCEPT !.size = new_size]}
  /\ UNCHANGED <<capacity, current_offset, mem, freed, stale, pushes>>

(* A new size of 0 pops; an equal size, or a pointer above the offset,      *)
(* changes nothing.                                                         *)
stack_resize_align(b, new_size, alignment) ==
  /\ Running
  /\ \/ new_size = 0 /\ MoveTo(Popped(b.off)) /\ UNCHANGED harm
     \/ /\ new_size # 0 /\ new_size # b.size /\ current_offset > b.off
        /\ \/ ResizeByPush(b, new_size, alignment)
           \/ ResizeWithoutRoom(b, new_size, alignment)
           \/ PushFaults(new_size, alignment)

StackNext ==
  \/ \E c \in Capacities : stack_create(c)
  \/ stack_destroy
  \/ \E s \in Sizes, a \in Alignments : stack_push_align(s, a)
  \/ \E s \in Sizes : stack_push(s)
  \/ \E b \in blocks : ClientWrite(b)
  \/ \E b \in blocks : stack_pop(b)
  \/ \E off \in freed \cup stale : PopAgain(off)
  \/ stack_pop_all
  \/ \E b \in blocks, s \in Sizes, a \in Alignments : stack_resize_align(b, s, a)

StackSpec == StackInit /\ [][StackNext]_stackVars

-----------------------------------------------------------------------------
(* Properties *)

Block == [off : Nat, size : Nat, known : Nat, holds : Nat, before : Nat, stamp : Nat]

(* What stays also after misuse: the memory is as long as the capacity says *)
(* and the offset is a word.                                                *)
StackShape ==
  /\ capacity \in Capacities \cup {0}
  /\ current_offset \in 0 .. WORD - 1
  /\ mem \in [0 .. capacity - 1 -> Nat]
  /\ blocks \subseteq Block
  /\ freed \subseteq Nat /\ stale \subseteq Nat
  /\ pushes \in 0 .. MaxPushes
  /\ harm \in {"none", "stale_pop", "grown_below"} \cup Faults

(* Types; until a client misuses the stack its offset lies within the       *)
(* memory.                                                                  *)
StackTypeOK == StackShape /\ (harm = "none" => current_offset <= capacity)

(* Live blocks do not share a byte with each other, lie below the offset    *)
(* and inside the stack, and hold what their clients left there, and the    *)
(* header of each leads stack_pop back to where the stack was before it.    *)
(* Pops in any order, pops repeated before the next push and resizing the   *)
(* youngest block all keep this.  It is lost only after a pointer from      *)
(* before the last push was popped, or a block below another one was grown. *)
SoundUntilMisused ==
  harm = "none" =>
    /\ \A b, d \in blocks :
         b # d => b.off + b.size <= d.off \/ d.off + d.size <= b.off
    /\ \A b \in blocks :
         /\ b.off + b.size <= current_offset
         /\ \A i \in 0 .. b.known - 1 : mem[b.off + i] = b.holds
         /\ b.off - mem[b.off - SIZEOF_HEADER] = b.before

(* A client that pops nothing twice and grows no covered block meets a      *)
(* fault in two ways only: a resize whose push is not granted, and asking   *)
(* for so much that the sum in the test of stack_push_align wraps around.   *)
PushStaysInside == [][harm = "none" => harm' # "fault"]_stackVars

-----------------------------------------------------------------------------
(* The inductive invariant of the proofs *)

(* A block lies above its header, which no client writes, and the header    *)
(* leads back to where the stack was.                                       *)
BlockInv(b) ==
  /\ b.before + SIZEOF_HEADER <= b.off
  /\ b.off + b.size <= current_offset
  /\ b.known <= b.size
  /\ \A i \in 0 .. b.known - 1 : mem[b.off + i] = b.holds
  /\ mem[b.off - SIZEOF_HEADER] = b.off - b.before

(* Of two blocks the lower one ends before the header of the other. *)
BlocksOrdered ==
  \A b, d \in blocks : b # d =>
    b.off # d.off /\ (b.off < d.off => b.off + b.size <= d.before)

(* Until the next push the header of a block that was given back is as the  *)
(* push left it: it lies in no live block.                                  *)
FreedInv ==
  \A f \in freed :
    /\ SIZEOF_HEADER <= f /\ f <= capacity
    /\ 0 <= f - mem[f - SIZEOF_HEADER]
    /\ \A b \in blocks : f - SIZEOF_HEADER < b.off \/ b.off + b.size <= f - SIZEOF_HEADER

StackInv ==
  /\ capacity = 0 => blocks = {} /\ freed = {}
  /\ \A b \in blocks : SIZEOF_HEADER <= b.off
  /\ harm = "none" =>
       /\ current_offset <= capacity
       /\ \A b \in blocks : BlockInv(b)
       /\ BlocksOrdered
       /\ FreedInv

=============================================================================
