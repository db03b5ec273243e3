----------------------------- MODULE StackProofs -----------------------------
(***************************************************************************)
(* Theorems about Stack for every header size, alignment, capacity and     *)
(* request that the assumptions admit.                                     *)
(***************************************************************************)
EXTENDS Stack, TLAPS

LEMMA DivisionFacts ==
  ASSUME NEW a \in Nat, NEW b \in Nat, b > 0,
         NEW q \in Int, NEW r \in Int, q = a \div b, r = a % b
  PROVE  q \in Nat /\ r \in Nat /\ r < b /\ a = b * q + r
<1>1. a = b * q + r
  OBVIOUS
<1>2. q \in Nat /\ r \in Nat /\ r < b
  OBVIOUS
<1> QED BY <1>1, <1>2

LEMMA RemainderBounds ==
  ASSUME NEW a \in Int, NEW b \in Nat, b > 0
  PROVE  a % b \in 0 .. b - 1
  OBVIOUS

LEMMA RemainderOfSmall ==
  ASSUME NEW a \in Nat, NEW b \in Nat, a < b
  PROVE  a % b = a
  OBVIOUS

(* Whatever the pointer and the alignment, there is room for the header in  *)
(* front of the block.                                                      *)
LEMMA PaddingCoversHeader ==
  ASSUME NEW pointer \in Nat, NEW alignment \in Nat, alignment > 0,
         NEW header_size \in Nat
  PROVE  /\ calculate_padding(pointer, alignment, header_size) \in Nat
         /\ calculate_padding(pointer, alignment, header_size) >= header_size
<1> DEFINE padding == IF pointer % alignment = 0 THEN alignment ELSE 0
           rest == header_size - padding
           steps == rest \div alignment + (IF rest % alignment = 0 THEN 0 ELSE 1)
<1>1. padding \in Nat
  OBVIOUS
<1>2. calculate_padding(pointer, alignment, header_size) =
        IF padding >= header_size THEN padding ELSE padding + alignment * steps
  BY DEF calculate_padding
<1>3. CASE padding >= header_size
  BY <1>1, <1>2, <1>3
<1>4. CASE padding < header_size
  <2> HIDE DEF padding
  <2>1. rest \in Nat
    BY <1>1, <1>4
  <2> HIDE DEF rest
  <2> DEFINE q == rest \div alignment
             r == rest % alignment
  <2>2. q \in Nat /\ r \in Nat /\ r < alignment /\ rest = alignment * q + r
    <3>1. q \in Int /\ r \in Int
      BY <2>1
    <3> QED BY <2>1, <3>1, DivisionFacts
  <2>3. steps = q + (IF r = 0 THEN 0 ELSE 1)
    OBVIOUS
  <2> HIDE DEF q, r, steps
  <2>4. alignment * (q + 1) = alignment * q + alignment
    BY <2>2
  <2>5. alignment * steps \in Nat /\ alignment * steps >= rest
    <3>1. CASE r = 0
      BY <2>2, <2>3, <3>1
    <3>2. CASE r # 0
      <4>1. steps = q + 1
        BY <2>2, <2>3, <3>2
      <4> QED BY <2>2, <2>4, <4>1
    <3> QED BY <3>1, <3>2
  <2>6. padding + rest = header_size
    BY <1>1 DEF rest
  <2>7. padding + alignment * steps \in Nat /\ padding + alignment * steps >= header_size
    BY <1>1, <2>1, <2>5, <2>6
  <2>8. ~(padding >= header_size)
    BY <1>1, <1>4
  <2> QED BY <1>2, <2>7, <2>8
<1> QED BY <1>1, <1>3, <1>4

LEMMA PaddingFacts ==
  ASSUME StackShape, NEW alignment \in Alignments \cup {ARENA_ALIGN}
  PROVE  Padding(alignment) \in Nat /\ Padding(alignment) >= SIZEOF_HEADER
<1>1. /\ BASE + current_offset \in Nat /\ SIZEOF_HEADER \in Nat
      /\ Min2(alignment, MAX_ALIGN) \in Nat /\ Min2(alignment, MAX_ALIGN) > 0
  BY StackAssumption DEF StackShape, Min2
<1> QED BY <1>1, PaddingCoversHeader DEF Padding

(* What the assumptions say of a stack that exists *)
LEMMA StackFacts ==
  ASSUME StackShape
  PROVE  /\ capacity \in Nat /\ capacity < WORD /\ WORD \in Nat /\ WORD > 0
         /\ capacity <= BASE /\ BASE \in Nat
         /\ current_offset \in Nat /\ pushes \in Nat
         /\ SIZEOF_HEADER \in Nat /\ SIZEOF_HEADER > 0
         /\ mem \in [0 .. capacity - 1 -> Nat] /\ DOMAIN mem = 0 .. capacity - 1
         /\ blocks \subseteq Block
<1>1. CASE capacity = 0
  BY <1>1, StackAssumption DEF StackShape
<1>2. CASE capacity \in Capacities
  <2>1. capacity <= BASE /\ 2 * BASE < WORD /\ capacity \in Nat
    BY <1>2, StackAssumption
  <2> QED BY <2>1, StackAssumption DEF StackShape
<1> QED BY <1>1, <1>2 DEF StackShape

-----------------------------------------------------------------------------
LEMMA InitInv == StackInit => StackShape /\ StackInv
<1> SUFFICES ASSUME StackInit PROVE StackShape /\ StackInv
  OBVIOUS
<1>1. mem \in [0 .. capacity - 1 -> Nat]
  BY DEF StackInit
<1>2. StackShape
  BY <1>1, StackAssumption DEF StackInit, StackShape
<1>3. StackInv
  BY DEF StackInit, StackInv, BlocksOrdered, FreedInv
<1> QED BY <1>2, <1>3

LEMMA CreateInv ==
  ASSUME StackShape, StackInv, NEW c \in Capacities, stack_create(c)
  PROVE  StackShape' /\ StackInv'
<1>1. /\ capacity' = c /\ current_offset' = 0 /\ mem' = [a \in 0 .. c - 1 |-> 0]
      /\ blocks' = {} /\ freed' = {}
      /\ UNCHANGED <<stale, pushes, harm>>
  BY DEF stack_create, StackInv
<1>2. StackShape'
  BY <1>1, StackAssumption DEF StackShape
<1>3. 0 <= c
  BY StackAssumption
<1> QED BY <1>1, <1>2, <1>3 DEF StackInv, BlocksOrdered, FreedInv

LEMMA DestroyInv ==
  ASSUME StackShape, StackInv, stack_destroy
  PROVE  StackShape' /\ StackInv'
<1>1. /\ capacity' = 0 /\ current_offset' = 0 /\ mem' = [a \in {} |-> 0]
      /\ blocks' = {} /\ freed' = {} /\ stale' = {}
      /\ UNCHANGED <<pushes, harm>>
  BY DEF stack_destroy
<1>2. mem' \in [0 .. capacity' - 1 -> Nat]
  BY <1>1
<1>3. StackShape'
  BY <1>1, <1>2, StackAssumption DEF StackShape
<1> QED BY <1>1, <1>3 DEF StackInv, BlocksOrdered, FreedInv

(* The offset moves to any place inside the stack: down, or up again when   *)
(* a pop is repeated.                                                       *)
LEMMA MoveInv ==
  ASSUME StackShape, StackInv, NEW offset \in 0 .. WORD - 1, capacity # 0,
         MoveTo(offset),
         harm' = "none" => harm = "none" /\ offset <= capacity,
         harm' \in {"none", "stale_pop", "grown_below"} \cup Faults
  PROVE  StackShape' /\ StackInv'
<1>1. /\ current_offset' = offset
      /\ blocks' = {b \in blocks : ~(b.off + b.size > offset)}
      /\ freed' = freed \cup {b.off : b \in {d \in blocks : d.off + d.size > offset}}
      /\ UNCHANGED <<capacity, mem, stale, pushes>>
  BY DEF MoveTo
<1>2. blocks' \subseteq blocks
  BY <1>1
<1>3. \A b \in blocks : b \in Block /\ b.off \in Nat /\ b.size \in Nat /\ b.before \in Nat
  BY DEF StackShape, Block
<1>4. StackShape'
  <2>1. freed' \subseteq Nat
    BY <1>1, <1>3 DEF StackShape
  <2> QED BY <1>1, <1>2, <2>1 DEF StackShape
<1>5. ASSUME harm' = "none"
      PROVE  /\ current_offset' <= capacity'
             /\ \A b \in blocks' : BlockInv(b)'
             /\ BlocksOrdered' /\ FreedInv'
  <2>1. harm = "none" /\ current_offset <= capacity /\ BlocksOrdered /\ FreedInv
        /\ \A b \in blocks : BlockInv(b)
    BY <1>5 DEF StackInv
  <2>2. \A b \in blocks' : BlockInv(b)'
    <3> SUFFICES ASSUME NEW b \in blocks' PROVE BlockInv(b)'
      OBVIOUS
    <3>1. b.off + b.size <= offset
      BY <1>1, <1>3
    <3> QED BY <1>1, <1>2, <2>1, <3>1 DEF BlockInv
  <2>3. BlocksOrdered'
    BY <1>2, <2>1 DEF BlocksOrdered
  <2>4. FreedInv'
    <3> SUFFICES ASSUME NEW f \in freed'
                 PROVE  /\ SIZEOF_HEADER <= f /\ f <= capacity
                        /\ 0 <= f - mem[f - SIZEOF_HEADER]
                        /\ \A d \in blocks' : \/ f - SIZEOF_HEADER < d.off
                                              \/ d.off + d.size <= f - SIZEOF_HEADER
      BY <1>1 DEF FreedInv
    <3>1. CASE f \in freed
      BY <1>2, <2>1, <3>1 DEF FreedInv
    <3>2. ASSUME NEW b \in blocks, b.off + b.size > offset, f = b.off
          PROVE  /\ SIZEOF_HEADER <= f /\ f <= capacity
                 /\ 0 <= f - mem[f - SIZEOF_HEADER]
                 /\ \A d \in blocks' : \/ f - SIZEOF_HEADER < d.off
                                       \/ d.off + d.size <= f - SIZEOF_HEADER
      <4>1. /\ b.off \in Nat /\ b.size \in Nat /\ b.before \in Nat
            /\ SIZEOF_HEADER \in Nat /\ SIZEOF_HEADER > 0
            /\ current_offset \in Nat /\ capacity \in Nat
        BY <1>3, StackFacts
      <4>2. /\ b.before + SIZEOF_HEADER <= b.off /\ b.off + b.size <= current_offset
            /\ mem[b.off - SIZEOF_HEADER] = b.off - b.before
        BY <2>1 DEF BlockInv
      <4>3. \A d \in blocks' : \/ f - SIZEOF_HEADER < d.off
                               \/ d.off + d.size <= f - SIZEOF_HEADER
        <5> SUFFICES ASSUME NEW d \in blocks'
                     PROVE  f - SIZEOF_HEADER < d.off \/ d.off + d.size <= f - SIZEOF_HEADER
          OBVIOUS
        <5>1. d \in blocks /\ d # b /\ d.off \in Nat /\ d.size \in Nat
          BY <1>1, <1>3, <3>2
        <5>2. d.off # b.off /\ (d.off < b.off => d.off + d.size <= b.before)
          BY <2>1, <5>1 DEF BlocksOrdered
        <5> QED BY <3>2, <4>1, <4>2, <5>1, <5>2
      <4>4. f - mem[f - SIZEOF_HEADER] = b.before
        BY <3>2, <4>1, <4>2
      <4> QED BY <2>1, <3>2, <4>1, <4>2, <4>3, <4>4
    <3> QED BY <1>1, <3>1, <3>2
  <2> QED BY <1>1, <1>5, <2>1, <2>2, <2>3, <2>4
<1>6. StackInv'
  <2>1. \A b \in blocks' : SIZEOF_HEADER <= b.off
    BY <1>2 DEF StackInv
  <2> QED BY <1>1, <1>5, <2>1 DEF StackInv
<1> QED BY <1>4, <1>6

(* stack_pop of a block leads back to where the stack was before it. *)
LEMMA PoppedBlock ==
  ASSUME StackShape, StackInv, NEW b \in blocks
  PROVE  /\ Popped(b.off) \in 0 .. WORD - 1
         /\ harm = "none" => Popped(b.off) <= capacity
<1>1. /\ b.off \in Nat /\ b.before \in Nat /\ SIZEOF_HEADER <= b.off
  BY DEF StackShape, Block, StackInv
<1>2. CASE b.off < capacity
  <2>1. mem[b.off - SIZEOF_HEADER] \in Nat
    BY <1>1, <1>2, StackFacts
  <2>2. Popped(b.off) = (b.off - mem[b.off - SIZEOF_HEADER]) % WORD
    BY <1>1, <1>2, StackFacts DEF Popped
  <2>3. Popped(b.off) \in 0 .. WORD - 1
    <3>1. b.off - mem[b.off - SIZEOF_HEADER] \in Int /\ WORD \in Nat /\ WORD > 0
      BY <1>1, <2>1, StackFacts
    <3> QED BY <2>2, <3>1, RemainderBounds
  <2>4. ASSUME harm = "none" PROVE Popped(b.off) <= capacity
    <3>1. BlockInv(b)
      BY <2>4 DEF StackInv
    <3>2. b.off - mem[b.off - SIZEOF_HEADER] = b.before /\ b.before <= b.off
      BY <1>1, <3>1, StackFacts DEF BlockInv
    <3>3. WORD \in Nat /\ b.before < WORD /\ b.before <= capacity
      BY <1>1, <1>2, <3>2, StackFacts
    <3>4. b.before % WORD = b.before
      BY <1>1, <3>3, RemainderOfSmall
    <3> QED BY <2>2, <3>2, <3>3, <3>4
  <2> QED BY <2>3, <2>4
<1>3. CASE ~(b.off < capacity)
  BY <1>3 DEF Popped, StackInv, StackShape
<1> QED BY <1>2, <1>3

(* Popping a pointer once more before the next push *)
LEMMA PoppedAgain ==
  ASSUME StackShape, StackInv, NEW off \in freed \cup stale, SIZEOF_HEADER <= off
  PROVE  /\ Popped(off) \in 0 .. WORD - 1
         /\ harm = "none" /\ off \in freed => Popped(off) <= capacity
<1>1. off \in Nat
  BY DEF StackShape
<1>2. CASE off < capacity
  <2>1. mem[off - SIZEOF_HEADER] \in Nat
    BY <1>1, <1>2, StackFacts
  <2>2. Popped(off) = (off - mem[off - SIZEOF_HEADER]) % WORD
    BY <1>1, <1>2, StackFacts DEF Popped
  <2>3. Popped(off) \in 0 .. WORD - 1
    <3>1. off - mem[off - SIZEOF_HEADER] \in Int /\ WORD \in Nat /\ WORD > 0
      BY <1>1, <2>1, StackFacts
    <3> QED BY <2>2, <3>1, RemainderBounds
  <2>4. ASSUME harm = "none", off \in freed PROVE Popped(off) <= capacity
    <3> DEFINE back == off - mem[off - SIZEOF_HEADER]
    <3>1. back \in Nat /\ back <= off
      BY <1>1, <2>1, <2>4 DEF StackInv, FreedInv
    <3>2. Popped(off) = back % WORD
      BY <2>2
    <3> HIDE DEF back
    <3>3. WORD \in Nat /\ back < WORD /\ back <= capacity
      BY <1>1, <1>2, <3>1, StackFacts
    <3>4. back % WORD = back
      BY <3>1, <3>3, RemainderOfSmall
    <3> QED BY <3>2, <3>3, <3>4
  <2> QED BY <2>3, <2>4
<1>3. CASE ~(off < capacity)
  BY <1>3 DEF Popped, StackInv, StackShape
<1> QED BY <1>2, <1>3

-----------------------------------------------------------------------------
LEMMA BlockFacts ==
  ASSUME StackShape, NEW b \in blocks
  PROVE  /\ b \in Block
         /\ b.off \in Nat /\ b.size \in Nat /\ b.known \in Nat
         /\ b.holds \in Nat /\ b.before \in Nat /\ b.stamp \in Nat
  BY DEF StackShape, Block

(* The test of stack_push_align is exact unless its sum wraps around. *)
LEMMA FitsInside ==
  ASSUME StackShape, NEW size \in Nat, NEW alignment \in Alignments \cup {ARENA_ALIGN},
         Fits(size, alignment), current_offset + Padding(alignment) + size < WORD
  PROVE  current_offset + Padding(alignment) + size <= capacity
<1> DEFINE top == current_offset + Padding(alignment) + size
<1>1. top \in Nat /\ WORD \in Nat
  BY PaddingFacts, StackFacts
<1>2. top % WORD = top
  BY <1>1, RemainderOfSmall
<1> QED BY <1>2 DEF Fits

(* The memory with a header in front of size zeroes. *)
Written(off, size, p) ==
  [a \in 0 .. capacity - 1 |->
     IF off <= a /\ a < off + size THEN 0 ELSE IF a = off - SIZEOF_HEADER THEN p ELSE mem[a]]

(* Writing a header and zeroes changes no other byte. *)
LEMMA HeaderAndZeroes ==
  ASSUME StackShape, NEW off \in Nat, NEW size \in Nat, NEW p \in Nat,
         current_offset + SIZEOF_HEADER <= off, off + size <= capacity
  PROVE  /\ Written(off, size, p) \in [0 .. capacity - 1 -> Nat]
         /\ \A a \in 0 .. current_offset - 1 : Written(off, size, p)[a] = mem[a]
         /\ \A a \in 0 .. size - 1 : Written(off, size, p)[off + a] = 0
         /\ Written(off, size, p)[off - SIZEOF_HEADER] = p
<1> DEFINE g == Written(off, size, p)
<1>0. /\ current_offset \in Nat /\ capacity \in Nat
      /\ SIZEOF_HEADER \in Nat /\ SIZEOF_HEADER > 0
      /\ mem \in [0 .. capacity - 1 -> Nat]
  BY StackFacts
<1>1. g \in [0 .. capacity - 1 -> Nat]
  BY <1>0 DEF Written
<1>2. ASSUME NEW a \in 0 .. current_offset - 1 PROVE g[a] = mem[a]
  <2>1. a \in 0 .. capacity - 1 /\ ~(off <= a) /\ a # off - SIZEOF_HEADER
    BY <1>0
  <2> QED BY <2>1 DEF Written
<1>3. ASSUME NEW a \in 0 .. size - 1 PROVE g[off + a] = 0
  <2>1. off + a \in 0 .. capacity - 1 /\ off <= off + a /\ off + a < off + size
    BY <1>0
  <2> QED BY <2>1 DEF Written
<1>4. g[off - SIZEOF_HEADER] = p
  <2>1. off - SIZEOF_HEADER \in 0 .. capacity - 1 /\ ~(off <= off - SIZEOF_HEADER)
    BY <1>0
  <2> QED BY <2>1 DEF Written
<1> QED BY <1>1, <1>2, <1>3, <1>4

(* A push writes its header and its block, both above the old offset. *)
LEMMA PushedFacts ==
  ASSUME StackShape, NEW size \in Nat, NEW alignment \in Alignments \cup {ARENA_ALIGN},
         NEW off, off = current_offset + Padding(alignment), off + size <= capacity
  PROVE  /\ off \in Nat /\ current_offset + SIZEOF_HEADER <= off
         /\ Pushed(size, alignment) \in [0 .. capacity - 1 -> Nat]
         /\ \A a \in 0 .. current_offset - 1 : Pushed(size, alignment)[a] = mem[a]
         /\ \A a \in 0 .. size - 1 : Pushed(size, alignment)[off + a] = 0
         /\ Pushed(size, alignment)[off - SIZEOF_HEADER] = Padding(alignment)
<1>1. /\ Padding(alignment) \in Nat /\ Padding(alignment) >= SIZEOF_HEADER
      /\ current_offset \in Nat /\ SIZEOF_HEADER \in Nat
      /\ DOMAIN mem = 0 .. capacity - 1
  BY PaddingFacts, StackFacts
<1>2. off \in Nat /\ current_offset + SIZEOF_HEADER <= off
  BY <1>1
<1>3. Pushed(size, alignment) = Written(off, size, Padding(alignment))
  BY <1>1 DEF Pushed, Cleared, Written
<1>4. PICK p : p = Padding(alignment)
  OBVIOUS
<1>5. p \in Nat /\ Pushed(size, alignment) = Written(off, size, p)
  BY <1>1, <1>3, <1>4
<1>6. /\ Written(off, size, p) \in [0 .. capacity - 1 -> Nat]
      /\ \A a \in 0 .. current_offset - 1 : Written(off, size, p)[a] = mem[a]
      /\ \A a \in 0 .. size - 1 : Written(off, size, p)[off + a] = 0
      /\ Written(off, size, p)[off - SIZEOF_HEADER] = p
  BY <1>2, <1>5, HeaderAndZeroes, ZenonT(60)
<1> QED BY <1>2, <1>4, <1>5, <1>6, Zenon

(* A block keeps what it holds while only bytes above the offset change. *)
LEMMA BlockKept ==
  ASSUME StackShape, StackShape', NEW b \in blocks, BlockInv(b),
         current_offset <= current_offset', current_offset <= capacity,
         \A a \in 0 .. current_offset - 1 : mem'[a] = mem[a]
  PROVE  BlockInv(b)'
<1>1. /\ b.off \in Nat /\ b.size \in Nat /\ b.known \in Nat /\ b.before \in Nat
      /\ current_offset \in Nat /\ SIZEOF_HEADER \in Nat /\ SIZEOF_HEADER > 0
  BY BlockFacts, StackFacts
<1>2. current_offset' \in Nat
  BY StackAssumption DEF StackShape
<1>3. /\ b.before + SIZEOF_HEADER <= b.off /\ b.off + b.size <= current_offset
      /\ b.known <= b.size
      /\ \A i \in 0 .. b.known - 1 : mem[b.off + i] = b.holds
      /\ mem[b.off - SIZEOF_HEADER] = b.off - b.before
  BY DEF BlockInv
<1>4. \A i \in 0 .. b.known - 1 : mem'[b.off + i] = b.holds
  BY <1>1, <1>3
<1>5. mem'[b.off - SIZEOF_HEADER] = b.off - b.before
  BY <1>1, <1>3
<1> QED BY <1>1, <1>2, <1>3, <1>4, <1>5 DEF BlockInv

LEMMA PushFaultsInv ==
  ASSUME StackShape, StackInv, NEW size, NEW alignment, PushFaults(size, alignment)
  PROVE  StackShape' /\ StackInv'
<1>1. /\ harm' \in {"wrapped", "fault"}
      /\ UNCHANGED <<capacity, current_offset, mem, blocks, freed, stale, pushes>>
  BY DEF PushFaults
<1>2. StackShape'
  BY <1>1 DEF StackShape, Faults
<1>3. StackInv'
  BY <1>1 DEF StackInv
<1> QED BY <1>2, <1>3

LEMMA PushInv ==
  ASSUME StackShape, StackInv, NEW size \in Nat,
         NEW alignment \in Alignments \cup {ARENA_ALIGN},
         stack_push_align(size, alignment)
  PROVE  StackShape' /\ StackInv'
<1>1. CASE PushFaults(size, alignment)
  BY <1>1, PushFaultsInv
<1>2. CASE ~PushFaults(size, alignment)
  <2>0. PICK off, n : /\ off = current_offset + Padding(alignment)
                      /\ n = [off |-> off, size |-> size, known |-> size, holds |-> 0,
                              before |-> current_offset, stamp |-> pushes + 1]
    OBVIOUS
  <2>1. /\ capacity # 0 /\ capacity' = capacity
        /\ off + size <= capacity /\ current_offset' = off + size
        /\ pushes < MaxPushes /\ pushes' = pushes + 1
        /\ freed' = {} /\ stale' = stale \cup freed
        /\ mem' = Pushed(size, alignment)
        /\ blocks' = blocks \cup {n}
        /\ harm' = harm
    BY <1>2, <2>0 DEF stack_push_align, Running, Grow
  <2>2. /\ capacity \in Nat /\ capacity < WORD /\ WORD \in Nat
        /\ current_offset \in Nat /\ pushes \in Nat
        /\ SIZEOF_HEADER \in Nat /\ SIZEOF_HEADER > 0
        /\ Padding(alignment) \in Nat
    BY StackFacts, PaddingFacts
  <2>3. /\ off \in Nat /\ current_offset + SIZEOF_HEADER <= off
        /\ mem' \in [0 .. capacity - 1 -> Nat]
        /\ \A a \in 0 .. current_offset - 1 : mem'[a] = mem[a]
        /\ \A a \in 0 .. size - 1 : mem'[off + a] = 0
        /\ mem'[off - SIZEOF_HEADER] = Padding(alignment)
    BY <2>0, <2>1, PushedFacts
  <2>4. n \in Block /\ n.off = off /\ n.size = size /\ n.known = size /\ n.holds = 0
        /\ n.before = current_offset
    BY <2>0, <2>2, <2>3 DEF Block
  <2>5. off = current_offset + Padding(alignment)
    BY <2>0
  <2>6. StackShape'
    <3>1. current_offset' \in 0 .. WORD - 1
      BY <2>1, <2>2, <2>3
    <3>2. blocks' \subseteq Block
      BY <2>1, <2>4 DEF StackShape
    <3>3. pushes' \in 0 .. MaxPushes
      BY <2>1, <2>2, StackAssumption
    <3> QED BY <2>1, <2>3, <3>1, <3>2, <3>3 DEF StackShape
  <2>7. ASSUME harm' = "none"
        PROVE  /\ current_offset' <= capacity'
               /\ \A b \in blocks' : BlockInv(b)'
               /\ BlocksOrdered' /\ FreedInv'
    <3>1. harm = "none" /\ current_offset <= capacity /\ BlocksOrdered
          /\ \A b \in blocks : BlockInv(b)
      BY <2>1, <2>7 DEF StackInv
    <3>2. BlockInv(n)'
      <4>1. mem'[n.off - SIZEOF_HEADER] = n.off - n.before
        BY <2>2, <2>3, <2>4, <2>5
      <4>2. \A i \in 0 .. n.known - 1 : mem'[n.off + i] = n.holds
        BY <2>3, <2>4
      <4> QED BY <2>1, <2>2, <2>3, <2>4, <4>1, <4>2 DEF BlockInv
    <3>3. \A b \in blocks : BlockInv(b)'
      <4>1. current_offset <= current_offset'
        BY <2>1, <2>2, <2>3
      <4> QED BY <2>3, <2>6, <3>1, <4>1, BlockKept
    <3>4. BlocksOrdered'
      <4>1. \A b \in blocks : b.off < n.off /\ b.off + b.size <= n.before
        BY <2>2, <2>3, <2>4, <3>1, BlockFacts DEF BlockInv
      <4>2. \A b \in blocks : b.off \in Nat
        BY BlockFacts
      <4> SUFFICES ASSUME NEW b \in blocks', NEW d \in blocks', b # d
                   PROVE  b.off # d.off /\ (b.off < d.off => b.off + b.size <= d.before)
        BY DEF BlocksOrdered
      <4>3. CASE b \in blocks /\ d \in blocks
        BY <3>1, <4>3 DEF BlocksOrdered
      <4>4. CASE b \in blocks /\ d = n
        BY <2>3, <2>4, <4>1, <4>2, <4>4
      <4>5. CASE b = n /\ d \in blocks
        BY <2>3, <2>4, <4>1, <4>2, <4>5
      <4> QED BY <2>1, <4>3, <4>4, <4>5
    <3>5. FreedInv'
      BY <2>1 DEF FreedInv
    <3> QED BY <2>1, <3>2, <3>3, <3>4, <3>5
  <2>8. \A b \in blocks' : SIZEOF_HEADER <= b.off
    BY <2>1, <2>2, <2>3, <2>4 DEF StackInv
  <2>9. StackInv'
    BY <2>1, <2>7, <2>8 DEF StackInv
  <2> QED BY <2>6, <2>9
<1> QED BY <1>1, <1>2

-----------------------------------------------------------------------------
(* Replacing a block by one of another size *)
LEMMA ReplacedOrdered ==
  ASSUME StackShape, BlocksOrdered, NEW b \in blocks, NEW n \in Block,
         n.off = b.off, n.before = b.before,
         blocks' = (blocks \ {b}) \cup {n},
         \A d \in blocks : b.off < d.off => b.off + n.size <= d.before
  PROVE  BlocksOrdered'
<1> SUFFICES ASSUME NEW x \in blocks', NEW y \in blocks', x # y
             PROVE  x.off # y.off /\ (x.off < y.off => x.off + x.size <= y.before)
  BY DEF BlocksOrdered
<1>1. CASE x \in blocks /\ y \in blocks
  <2>1. CASE x = n
    BY <1>1, <2>1 DEF BlocksOrdered
  <2>2. CASE x # n
    BY <1>1, <2>2 DEF BlocksOrdered
  <2> QED BY <2>1, <2>2
<1>2. CASE x = n /\ y \in blocks
  BY <1>2 DEF BlocksOrdered
<1>3. CASE x \in blocks /\ y = n
  BY <1>3 DEF BlocksOrdered
<1> QED BY <1>1, <1>2, <1>3

(* A client writes its own block: neither another block nor a header, of a  *)
(* live block or of one that was given back, is in it.                      *)
LEMMA WriteInv ==
  ASSUME StackShape, StackInv, NEW b \in blocks, ClientWrite(b)
  PROVE  StackShape' /\ StackInv'
<1>1. PICK n : n = [b EXCEPT !.holds = DATA + b.stamp, !.known = b.size]
  OBVIOUS
<1>2. /\ capacity # 0
      /\ mem' = [a \in DOMAIN mem |->
                   IF b.off <= a /\ a < b.off + b.size THEN DATA + b.stamp ELSE mem[a]]
      /\ blocks' = (blocks \ {b}) \cup {n}
      /\ UNCHANGED <<capacity, current_offset, freed, stale, pushes, harm>>
  BY <1>1 DEF ClientWrite, Running
<1>3. /\ b.off \in Nat /\ b.size \in Nat /\ b.before \in Nat /\ b.stamp \in Nat
      /\ SIZEOF_HEADER \in Nat /\ SIZEOF_HEADER > 0 /\ current_offset \in Nat
      /\ capacity \in Nat
  BY BlockFacts, StackFacts
<1>mem. mem \in [0 .. capacity - 1 -> Nat] /\ DOMAIN mem = 0 .. capacity - 1
  BY StackFacts
<1>5. DATA + b.stamp \in Nat
  BY <1>3 DEF DATA
<1>4. /\ n \in Block /\ n.off = b.off /\ n.size = b.size /\ n.known = b.size
      /\ n.holds = DATA + b.stamp /\ n.before = b.before
  <2>1. b \in Block
    BY BlockFacts
  <2> QED BY <1>1, <1>3, <1>5, <2>1 DEF Block
<1>6. StackShape'
  <2>1. mem' \in [0 .. capacity - 1 -> Nat]
    BY <1>2, <1>mem, <1>5
  <2>2. blocks' \subseteq Block
    BY <1>2, <1>4 DEF StackShape
  <2> QED BY <1>2, <2>1, <2>2 DEF StackShape
<1>7. ASSUME harm' = "none"
      PROVE  /\ current_offset' <= capacity'
             /\ \A d \in blocks' : BlockInv(d)'
             /\ BlocksOrdered' /\ FreedInv'
  <2>0. current_offset <= capacity
    BY <1>2, <1>7 DEF StackInv
  <2>1. BlocksOrdered /\ FreedInv /\ \A d \in blocks : BlockInv(d)
    BY <1>2, <1>7 DEF StackInv
  <2>2. b.before + SIZEOF_HEADER <= b.off /\ b.off + b.size <= current_offset
    BY <2>1 DEF BlockInv
  <2>header. mem[b.off - SIZEOF_HEADER] = b.off - b.before
    BY <2>1 DEF BlockInv
  <2>3. \A a \in 0 .. capacity - 1 : ~(b.off <= a /\ a < b.off + b.size) => mem'[a] = mem[a]
    BY <1>2, <1>mem
  <2>4. BlockInv(n)'
    <3>1. \A i \in 0 .. n.known - 1 : mem'[n.off + i] = n.holds
      <4> SUFFICES ASSUME NEW i \in 0 .. b.size - 1 PROVE mem'[b.off + i] = DATA + b.stamp
        BY <1>4
      <4>1. b.off + i \in 0 .. capacity - 1 /\ b.off <= b.off + i /\ b.off + i < b.off + b.size
        BY <1>3, <2>0, <2>2
      <4> QED BY <1>2, <1>mem, <4>1
    <3>2. mem'[n.off - SIZEOF_HEADER] = n.off - n.before
      <4>1. b.off - SIZEOF_HEADER \in 0 .. capacity - 1 /\ ~(b.off <= b.off - SIZEOF_HEADER)
        BY <1>3, <2>0, <2>2
      <4> QED BY <1>4, <2>header, <2>3, <4>1
    <3> QED BY <1>2, <1>3, <1>4, <2>2, <3>1, <3>2 DEF BlockInv
  <2>5. ASSUME NEW d \in blocks, d # b PROVE BlockInv(d)'
    <3>1. d.off \in Nat /\ d.size \in Nat /\ d.known \in Nat /\ d.before \in Nat
      BY BlockFacts
    <3>2. /\ d.before + SIZEOF_HEADER <= d.off /\ d.off + d.size <= current_offset
          /\ d.known <= d.size
      BY <2>1 DEF BlockInv
    <3>bytes. /\ \A i \in 0 .. d.known - 1 : mem[d.off + i] = d.holds
          /\ mem[d.off - SIZEOF_HEADER] = d.off - d.before
      BY <2>1 DEF BlockInv
    <3>3. /\ b.off # d.off
          /\ b.off < d.off => b.off + b.size <= d.before
          /\ d.off < b.off => d.off + d.size <= b.before
      BY <2>1, <2>5 DEF BlocksOrdered
    <3>4. ASSUME NEW i \in 0 .. d.known - 1 PROVE mem'[d.off + i] = d.holds
      <4>1. /\ d.off + i \in 0 .. capacity - 1
            /\ ~(b.off <= d.off + i /\ d.off + i < b.off + b.size)
        BY <1>3, <2>0, <2>2, <3>1, <3>2, <3>3
      <4> QED BY <2>3, <3>bytes, <4>1
    <3>5. mem'[d.off - SIZEOF_HEADER] = d.off - d.before
      <4>1. /\ d.off - SIZEOF_HEADER \in 0 .. capacity - 1
            /\ ~(b.off <= d.off - SIZEOF_HEADER /\ d.off - SIZEOF_HEADER < b.off + b.size)
        BY <1>3, <2>0, <2>2, <3>1, <3>2, <3>3
      <4> QED BY <2>3, <3>bytes, <4>1
    <3> QED BY <1>2, <3>2, <3>4, <3>5 DEF BlockInv
  <2>6. BlocksOrdered'
    <3>1. \A d \in blocks : b.off < d.off => b.off + n.size <= d.before
      BY <1>3, <1>4, <2>1 DEF BlocksOrdered
    <3> QED BY <1>2, <1>4, <2>1, <3>1, ReplacedOrdered
  <2>7. FreedInv'
    <3> SUFFICES ASSUME NEW f \in freed
                 PROVE  /\ SIZEOF_HEADER <= f /\ f <= capacity
                        /\ 0 <= f - mem'[f - SIZEOF_HEADER]
                        /\ \A d \in blocks' : \/ f - SIZEOF_HEADER < d.off
                                              \/ d.off + d.size <= f - SIZEOF_HEADER
      BY <1>2 DEF FreedInv
    <3>1. /\ SIZEOF_HEADER <= f /\ f <= capacity /\ f \in Nat
          /\ 0 <= f - mem[f - SIZEOF_HEADER]
          /\ \A d \in blocks : \/ f - SIZEOF_HEADER < d.off
                               \/ d.off + d.size <= f - SIZEOF_HEADER
      BY <2>1 DEF FreedInv, StackShape
    <3>2. f - SIZEOF_HEADER < b.off \/ b.off + b.size <= f - SIZEOF_HEADER
      BY <3>1
    <3>3. /\ f - SIZEOF_HEADER \in 0 .. capacity - 1
          /\ ~(b.off <= f - SIZEOF_HEADER /\ f - SIZEOF_HEADER < b.off + b.size)
      BY <1>3, <3>1, <3>2
    <3>4. mem'[f - SIZEOF_HEADER] = mem[f - SIZEOF_HEADER]
      BY <2>3, <3>3
    <3>5. \A d \in blocks' : \/ f - SIZEOF_HEADER < d.off
                             \/ d.off + d.size <= f - SIZEOF_HEADER
      BY <1>2, <1>4, <3>1, <3>2
    <3> QED BY <3>1, <3>4, <3>5
  <2>8. \A d \in blocks' : BlockInv(d)'
    BY <1>2, <2>4, <2>5
  <2> QED BY <1>2, <2>0, <2>6, <2>7, <2>8
<1>8. \A d \in blocks' : SIZEOF_HEADER <= d.off
  BY <1>2, <1>4 DEF StackInv
<1>9. StackInv'
  BY <1>2, <1>7, <1>8 DEF StackInv
<1> QED BY <1>6, <1>9

(* The second block of a resize and the copy into it lie above the offset.  *)
LEMMA ResizeByPushInv ==
  ASSUME StackShape, StackInv, NEW b \in blocks, NEW new_size \in Nat,
         NEW alignment \in Alignments \cup {ARENA_ALIGN},
         capacity # 0, current_offset > b.off,
         ResizeByPush(b, new_size, alignment)
  PROVE  StackShape' /\ StackInv'
<1>1. PICK off, min_size, pushed, n :
        /\ off = current_offset + Padding(alignment)
        /\ min_size = Min2(b.size, new_size)
        /\ pushed = Pushed(new_size, alignment)
        /\ n = [b EXCEPT !.size = new_size, !.known = Min2(b.known, min_size)]
  OBVIOUS
<1>2. /\ capacity' = capacity
      /\ off + new_size <= capacity /\ current_offset' = off + new_size
      /\ pushes < MaxPushes /\ pushes' = pushes + 1
      /\ freed' = {} /\ stale' = stale \cup freed
      /\ mem' = [a \in DOMAIN mem |->
                   IF off <= a /\ a < off + min_size THEN pushed[b.off + (a - off)] ELSE pushed[a]]
      /\ blocks' = (blocks \ {b}) \cup {n}
      /\ IF new_size > b.size /\ (\E d \in blocks : d.off > b.off)
         THEN Harmed("grown_below") ELSE UNCHANGED harm
  BY <1>1 DEF ResizeByPush, Grow
<1>3. /\ b.off \in Nat /\ b.size \in Nat /\ b.before \in Nat /\ b.known \in Nat
      /\ SIZEOF_HEADER \in Nat /\ SIZEOF_HEADER > 0 /\ current_offset \in Nat
      /\ capacity \in Nat /\ capacity < WORD /\ WORD \in Nat /\ pushes \in Nat
  BY BlockFacts, StackFacts
<1>4. DOMAIN mem = 0 .. capacity - 1
  BY StackFacts
<1>5. off \in Nat /\ current_offset + SIZEOF_HEADER <= off
  BY <1>1, <1>2, PushedFacts
<1>6. /\ pushed \in [0 .. capacity - 1 -> Nat]
      /\ \A a \in 0 .. current_offset - 1 : pushed[a] = mem[a]
  BY <1>1, <1>2, PushedFacts
<1>7. min_size \in Nat /\ min_size <= new_size /\ min_size <= b.size
  BY <1>1, <1>3 DEF Min2
<1>8. /\ n \in Block /\ n.off = b.off /\ n.size = new_size /\ n.before = b.before
      /\ n.holds = b.holds
      /\ n.known \in Nat /\ n.known <= b.known /\ n.known <= min_size
  <2>1. b \in Block
    BY BlockFacts
  <2>2. PICK k : k = Min2(b.known, min_size)
    OBVIOUS
  <2>3. k \in Nat /\ k <= b.known /\ k <= min_size
    BY <1>3, <1>7, <2>2 DEF Min2
  <2>4. n = [b EXCEPT !.size = new_size, !.known = k]
    BY <1>1, <2>2
  <2> QED BY <2>1, <2>3, <2>4 DEF Block
<1>9. mem' \in [0 .. capacity - 1 -> Nat]
  <2>1. ASSUME NEW a \in 0 .. capacity - 1
        PROVE  (IF off <= a /\ a < off + min_size THEN pushed[b.off + (a - off)] ELSE pushed[a]) \in Nat
    <3>1. CASE off <= a /\ a < off + min_size
      <4>1. b.off + (a - off) \in 0 .. capacity - 1
        BY <1>2, <1>3, <1>5, <1>7, <3>1
      <4> QED BY <1>6, <3>1, <4>1
    <3>2. CASE ~(off <= a /\ a < off + min_size)
      BY <1>6, <3>2
    <3> QED BY <3>1, <3>2
  <2> QED BY <1>2, <1>4, <2>1
<1>10. StackShape'
  <2>1. current_offset' \in 0 .. WORD - 1
    BY <1>2, <1>3, <1>5
  <2>2. blocks' \subseteq Block
    BY <1>2, <1>8 DEF StackShape
  <2>3. pushes' \in 0 .. MaxPushes
    BY <1>2, <1>3, StackAssumption
  <2>4. harm' \in {"none", "stale_pop", "grown_below"} \cup Faults
    BY <1>2 DEF Harmed, StackShape
  <2>5. stale' \subseteq Nat
    BY <1>2 DEF StackShape
  <2> QED BY <1>2, <1>9, <2>1, <2>2, <2>3, <2>4, <2>5 DEF StackShape
<1>11. ASSUME harm' = "none"
       PROVE  /\ current_offset' <= capacity'
              /\ \A d \in blocks' : BlockInv(d)'
              /\ BlocksOrdered' /\ FreedInv'
  <2>1. harm = "none" /\ (new_size > b.size => ~\E d \in blocks : d.off > b.off)
    BY <1>2, <1>11 DEF Harmed
  <2>2. current_offset <= capacity
    BY <2>1 DEF StackInv
  <2>3. BlocksOrdered /\ \A d \in blocks : BlockInv(d)
    BY <2>1 DEF StackInv
  <2>4. ASSUME NEW a \in 0 .. current_offset - 1 PROVE mem'[a] = mem[a]
    <3>1. a \in 0 .. capacity - 1 /\ ~(off <= a)
      BY <1>3, <1>5, <2>2
    <3> QED BY <1>2, <1>4, <1>6, <3>1
  <2>5. current_offset <= current_offset'
    BY <1>2, <1>3, <1>5
  <2>6. \A d \in blocks : BlockInv(d)'
    BY <1>10, <2>2, <2>3, <2>4, <2>5, BlockKept
  <2>7. BlockInv(n)'
    <3>1. /\ b.before + SIZEOF_HEADER <= b.off
          /\ \A i \in 0 .. b.known - 1 : mem'[b.off + i] = b.holds
          /\ mem'[b.off - SIZEOF_HEADER] = b.off - b.before
      BY <2>6 DEF BlockInv
    <3>2. n.off + n.size <= current_offset'
      BY <1>2, <1>3, <1>5, <1>8
    <3>3. \A i \in 0 .. n.known - 1 : mem'[n.off + i] = n.holds
      BY <1>3, <1>8, <3>1
    <3>4. n.known <= n.size
      BY <1>7, <1>8
    <3> QED BY <1>8, <3>1, <3>2, <3>3, <3>4 DEF BlockInv
  <2>8. BlocksOrdered'
    <3>1. ASSUME NEW d \in blocks, b.off < d.off PROVE b.off + n.size <= d.before
      <4>1. d.before \in Nat /\ d.off \in Nat
        BY BlockFacts
      <4>2. new_size <= b.size
        BY <1>3, <2>1, <3>1, <4>1
      <4>3. b.off + b.size <= d.before
        BY <1>3, <2>3, <3>1 DEF BlocksOrdered
      <4> QED BY <1>3, <1>8, <4>1, <4>2, <4>3
    <3> QED BY <1>2, <1>8, <2>3, <3>1, ReplacedOrdered
  <2>9. FreedInv'
    BY <1>2 DEF FreedInv
  <2>10. current_offset' <= capacity'
    BY <1>2
  <2>11. \A d \in blocks' : BlockInv(d)'
    BY <1>2, <2>6, <2>7
  <2> QED BY <2>8, <2>9, <2>10, <2>11
<1>12. \A d \in blocks' : SIZEOF_HEADER <= d.off
  BY <1>2, <1>8 DEF StackInv
<1>13. StackInv'
  BY <1>2, <1>11, <1>12 DEF StackInv
<1> QED BY <1>10, <1>13

LEMMA ResizeWithoutRoomInv ==
  ASSUME StackShape, StackInv, NEW b \in blocks, NEW new_size \in Nat, NEW alignment,
         capacity # 0, ResizeWithoutRoom(b, new_size, alignment)
  PROVE  StackShape' /\ StackInv'
<1>1. PICK n : n = [b EXCEPT !.size = new_size]
  OBVIOUS
<1>2. /\ harm' # "none" /\ harm' \in {"stale_pop", "grown_below"} \cup Faults
      /\ blocks' = blocks \/ blocks' = (blocks \ {b}) \cup {n}
      /\ UNCHANGED <<capacity, current_offset, mem, freed, stale, pushes>>
  BY <1>1 DEF ResizeWithoutRoom, Harmed, StackShape, Faults
<1>3. n \in Block /\ n.off = b.off
  <2>1. b \in Block
    BY BlockFacts
  <2> QED BY <1>1, <2>1 DEF Block
<1>4. StackShape'
  <2>1. blocks' \subseteq Block
    BY <1>2, <1>3 DEF StackShape
  <2> QED BY <1>2, <2>1 DEF StackShape
<1>5. \A d \in blocks' : SIZEOF_HEADER <= d.off
  BY <1>2, <1>3 DEF StackInv
<1>6. StackInv'
  BY <1>2, <1>5 DEF StackInv
<1> QED BY <1>4, <1>6

LEMMA PopInv ==
  ASSUME StackShape, StackInv, NEW b \in blocks, capacity # 0,
         MoveTo(Popped(b.off)), UNCHANGED harm
  PROVE  StackShape' /\ StackInv'
<1>1. PICK offset : offset = Popped(b.off)
  OBVIOUS
<1>2. offset \in 0 .. WORD - 1 /\ (harm = "none" => offset <= capacity)
  BY <1>1, PoppedBlock
<1>3. harm' = harm /\ harm' \in {"none", "stale_pop", "grown_below"} \cup Faults
  BY DEF StackShape
<1> QED BY <1>1, <1>2, <1>3, MoveInv

LEMMA PopAgainInv ==
  ASSUME StackShape, StackInv, NEW off \in freed \cup stale, PopAgain(off)
  PROVE  StackShape' /\ StackInv'
<1>1. PICK offset : offset = Popped(off)
  OBVIOUS
<1>2. /\ capacity # 0 /\ SIZEOF_HEADER <= off /\ MoveTo(offset)
      /\ IF off \in stale THEN Harmed("stale_pop") ELSE UNCHANGED harm
  BY <1>1 DEF PopAgain, Running
<1>3. offset \in 0 .. WORD - 1 /\ (harm = "none" /\ off \in freed => offset <= capacity)
  BY <1>1, <1>2, PoppedAgain
<1>4. harm' \in {"none", "stale_pop", "grown_below"} \cup Faults
      /\ (harm' = "none" => harm = "none" /\ off \in freed)
  BY <1>2 DEF Harmed, StackShape
<1> QED BY <1>2, <1>3, <1>4, MoveInv

LEMMA PopAllInv ==
  ASSUME StackShape, StackInv, stack_pop_all
  PROVE  StackShape' /\ StackInv'
<1>1. capacity # 0 /\ MoveTo(0) /\ harm' = harm
  BY DEF stack_pop_all, Running
<1>2. 0 \in 0 .. WORD - 1 /\ 0 <= capacity
  BY StackFacts
<1>3. harm' \in {"none", "stale_pop", "grown_below"} \cup Faults
  BY <1>1 DEF StackShape
<1> QED BY <1>1, <1>2, <1>3, MoveInv

LEMMA ResizeInv ==
  ASSUME StackShape, StackInv, NEW b \in blocks, NEW new_size \in Nat,
         NEW alignment \in Alignments \cup {ARENA_ALIGN},
         stack_resize_align(b, new_size, alignment)
  PROVE  StackShape' /\ StackInv'
<1>1. capacity # 0
  BY DEF stack_resize_align, Running
<1>2. CASE MoveTo(Popped(b.off)) /\ UNCHANGED harm
  BY <1>1, <1>2, PopInv
<1>3. CASE current_offset > b.off /\ ResizeByPush(b, new_size, alignment)
  BY <1>1, <1>3, ResizeByPushInv
<1>4. CASE ResizeWithoutRoom(b, new_size, alignment)
  BY <1>1, <1>4, ResizeWithoutRoomInv
<1>5. CASE PushFaults(new_size, alignment)
  BY <1>5, PushFaultsInv
<1> QED BY <1>2, <1>3, <1>4, <1>5 DEF stack_resize_align

LEMMA NextInv ==
  ASSUME StackShape, StackInv, [StackNext]_stackVars
  PROVE  StackShape' /\ StackInv'
<1>1. ASSUME NEW c \in Capacities, stack_create(c) PROVE StackShape' /\ StackInv'
  BY <1>1, CreateInv
<1>2. CASE stack_destroy
  BY <1>2, DestroyInv
<1>3. ASSUME NEW s \in Sizes, NEW a \in Alignments, stack_push_align(s, a)
      PROVE  StackShape' /\ StackInv'
  <2>1. s \in Nat
    BY StackAssumption
  <2> QED BY <1>3, <2>1, PushInv
<1>4. ASSUME NEW s \in Sizes, stack_push(s) PROVE StackShape' /\ StackInv'
  <2>1. s \in Nat
    BY StackAssumption
  <2> QED BY <1>4, <2>1, PushInv DEF stack_push
<1>5. ASSUME NEW b \in blocks, ClientWrite(b) PROVE StackShape' /\ StackInv'
  BY <1>5, WriteInv
<1>6. ASSUME NEW b \in blocks, stack_pop(b) PROVE StackShape' /\ StackInv'
  BY <1>6, PopInv DEF stack_pop, Running
<1>7. ASSUME NEW off \in freed \cup stale, PopAgain(off) PROVE StackShape' /\ StackInv'
  BY <1>7, PopAgainInv
<1>8. CASE stack_pop_all
  BY <1>8, PopAllInv
<1>9. ASSUME NEW b \in blocks, NEW s \in Sizes, NEW a \in Alignments,
             stack_resize_align(b, s, a)
      PROVE  StackShape' /\ StackInv'
  <2>1. s \in Nat
    BY StackAssumption
  <2> QED BY <1>9, <2>1, ResizeInv
<1>10. CASE UNCHANGED stackVars
  <2>1. /\ capacity' = capacity /\ current_offset' = current_offset /\ mem' = mem
        /\ blocks' = blocks /\ freed' = freed /\ stale' = stale
        /\ pushes' = pushes /\ harm' = harm
    BY <1>10 DEF stackVars
  <2>2. StackShape'
    BY <2>1 DEF StackShape
  <2>3. StackInv'
    BY <2>1 DEF StackInv, BlockInv, BlocksOrdered, FreedInv
  <2> QED BY <2>2, <2>3
<1> QED BY <1>1, <1>2, <1>3, <1>4, <1>5, <1>6, <1>7, <1>8, <1>9, <1>10 DEF StackNext

-----------------------------------------------------------------------------
(* The inductive invariant: as long as no client popped a pointer from      *)
(* before the last push or grew a covered block, every header of a live or  *)
(* just freed block is intact and the blocks are stacked.                   *)
THEOREM StackInvariance == StackSpec => [](StackShape /\ StackInv)
<1>1. StackInit => StackShape /\ StackInv
  BY InitInv
<1>2. (StackShape /\ StackInv) /\ [StackNext]_stackVars => (StackShape /\ StackInv)'
  BY NextInv
<1> QED BY <1>1, <1>2, PTL DEF StackSpec

(* The memory stays as long as the capacity and the offset a word through   *)
(* every call, and until a client misuses the stack the offset stays within *)
(* the capacity.                                                            *)
THEOREM StackTypes == StackSpec => []StackTypeOK
<1>1. StackShape /\ StackInv => StackTypeOK
  BY DEF StackInv, StackTypeOK
<1> QED BY <1>1, StackInvariance, PTL

(* Live blocks are disjoint, lie inside the stack, keep what their clients  *)
(* wrote and can be popped to where the stack was, until a client pops a    *)
(* pointer from before the last push or grows a block below another one.    *)
THEOREM StackSound == StackSpec => []SoundUntilMisused
<1>1. StackShape /\ StackInv => SoundUntilMisused
  <2> SUFFICES ASSUME StackShape, StackInv, harm = "none"
               PROVE  /\ \A b, d \in blocks :
                           b # d => b.off + b.size <= d.off \/ d.off + d.size <= b.off
                      /\ \A b \in blocks :
                           /\ b.off + b.size <= current_offset
                           /\ \A i \in 0 .. b.known - 1 : mem[b.off + i] = b.holds
                           /\ b.off - mem[b.off - SIZEOF_HEADER] = b.before
    BY DEF SoundUntilMisused
  <2>1. current_offset <= capacity /\ BlocksOrdered /\ \A b \in blocks : BlockInv(b)
    BY DEF StackInv
  <2>2. ASSUME NEW b \in blocks, NEW d \in blocks, b # d
        PROVE  b.off + b.size <= d.off \/ d.off + d.size <= b.off
    <3>1. /\ b.off \in Nat /\ b.size \in Nat /\ b.before \in Nat
          /\ d.off \in Nat /\ d.size \in Nat /\ d.before \in Nat
          /\ SIZEOF_HEADER \in Nat
      BY BlockFacts, StackFacts
    <3>2. /\ b.off # d.off
          /\ b.off < d.off => b.off + b.size <= d.before
          /\ d.off < b.off => d.off + d.size <= b.before
      BY <2>1, <2>2 DEF BlocksOrdered
    <3>3. b.before + SIZEOF_HEADER <= b.off /\ d.before + SIZEOF_HEADER <= d.off
      BY <2>1 DEF BlockInv
    <3>4. CASE b.off < d.off
      BY <3>1, <3>2, <3>3, <3>4
    <3>5. CASE d.off < b.off
      BY <3>1, <3>2, <3>3, <3>5
    <3> QED BY <3>1, <3>2, <3>4, <3>5
  <2>3. ASSUME NEW b \in blocks
        PROVE  /\ b.off + b.size <= current_offset
               /\ \A i \in 0 .. b.known - 1 : mem[b.off + i] = b.holds
               /\ b.off - mem[b.off - SIZEOF_HEADER] = b.before
    <3>1. b.off \in Nat /\ b.before \in Nat
      BY BlockFacts
    <3>2. BlockInv(b)
      BY <2>1
    <3> QED BY <3>1, <3>2 DEF BlockInv
  <2> QED BY <2>1, <2>2, <2>3
<1> QED BY <1>1, StackInvariance, PTL

(* stack_push_align writes outside of the stack only when the sum in its    *)
(* test of the capacity wraps around.                                       *)
THEOREM PushInside == StackSpec => PushStaysInside
<1>1. ASSUME StackShape, NEW size \in Nat, NEW alignment \in Alignments \cup {ARENA_ALIGN},
             PushFaults(size, alignment)
      PROVE  harm' # "fault"
  <2>1. PICK off : off = current_offset + Padding(alignment)
    OBVIOUS
  <2>2. /\ off \in Nat /\ SIZEOF_HEADER <= off
        /\ capacity \in Nat /\ WORD \in Nat
    BY <1>1, <2>1, PaddingFacts, StackFacts
  <2>3. Fits(size, alignment) /\ (off < SIZEOF_HEADER \/ off + size > capacity)
        /\ harm' = IF off + size >= WORD THEN "wrapped" ELSE "fault"
    BY <2>1, <1>1 DEF PushFaults, Granted
  <2>4. SIZEOF_HEADER \in Nat
    BY StackAssumption
  <2>5. off + size < WORD => off + size <= capacity
    BY <1>1, <2>1, <2>3, FitsInside
  <2>6. off + size >= WORD
    BY <2>2, <2>3, <2>4, <2>5
  <2> QED BY <2>3, <2>6
<1>2. StackShape /\ [StackNext]_stackVars => (harm = "none" => harm' # "fault")
  <2> SUFFICES ASSUME StackShape, [StackNext]_stackVars, harm = "none", harm' = "fault"
               PROVE  FALSE
    OBVIOUS
  <2>1. Sizes \subseteq Nat
    BY StackAssumption
  <2>2. \A s \in Sizes, a \in Alignments \cup {ARENA_ALIGN} : ~PushFaults(s, a)
    BY <1>1, <2>1
  <2>3. \A s \in Sizes, a \in Alignments \cup {ARENA_ALIGN} : ~stack_push_align(s, a)
    BY <2>2 DEF stack_push_align
  <2>4. \A b \in blocks, s \in Sizes, a \in Alignments : ~stack_resize_align(b, s, a)
    BY <2>2 DEF stack_resize_align, ResizeByPush, ResizeWithoutRoom, Harmed
  <2> QED BY <2>3, <2>4 DEF StackNext, stackVars, stack_create, stack_destroy, stack_push,
             ClientWrite, stack_pop, PopAgain, stack_pop_all, Harmed
<1> QED BY <1>2, StackInvariance, PTL DEF StackSpec, PushStaysInside

=============================================================================
