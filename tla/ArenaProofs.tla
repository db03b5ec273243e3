----------------------------- MODULE ArenaProofs -----------------------------
(***************************************************************************)
(* Theorems about Arena for every capacity, size, number of marks and      *)
(* word width that the assumptions of Arena admit, and about the arena     *)
(* with arena_resize for every new size that ArenaResize admits.           *)
(***************************************************************************)
EXTENDS ArenaResize, TLAPS

LEMMA ModSmall ==
  ASSUME NEW x \in Nat, NEW m \in Nat, x < m
  PROVE  x % m = x
  OBVIOUS

(* ARENA_ALIGN is a power of two, so Align is the identity in arena_alloc,  *)
(* and a request at a position inside the arena does not wrap around.       *)
LEMMA AllocPosition ==
  ASSUME TypeOK, NEW s \in Sizes, current_position <= capacity
  PROVE  /\ align(current_position, ARENA_ALIGN) = current_position
         /\ (current_position + s) % WORD = current_position + s
         /\ s \in Nat
<1>1. align(current_position, ARENA_ALIGN) = current_position
  BY AlignAssumption DEF align
<1>2. /\ current_position \in Nat /\ current_position <= MaxCapacity
      /\ s \in Nat /\ MaxCapacity \in Nat /\ MaxCapacity + s < WORD
      /\ WORD \in Nat
  BY SizeAssumption, WordAssumption DEF TypeOK
<1>3. current_position + s \in Nat /\ current_position + s < WORD
  BY <1>2
<1>4. (current_position + s) % WORD = current_position + s
  BY <1>2, <1>3, ModSmall
<1> QED BY <1>1, <1>2, <1>4

LEMMA FillType ==
  ASSUME NEW m \in [Addr -> Nat], NEW off, NEW size, NEW v \in Nat
  PROVE  Fill(m, off, size, v) \in [Addr -> Nat]
  BY DEF Fill

-----------------------------------------------------------------------------
LEMMA InitIInv == Init => IInv
<1> SUFFICES ASSUME Init PROVE IInv
  OBVIOUS
<1>1. TypeOK
  <2>1. marks \in [Marks -> [start_position : Nat, stamp : Nat] \cup {NoMark}]
    BY DEF Init
  <2>2. mapped \in Nat /\ capacity \in 0 .. MaxCapacity /\ clock \in Nat
        /\ current_position \in Nat /\ previous_position \in Nat /\ mem \in [Addr -> Nat]
    BY SizeAssumption DEF Init
  <2>3. blocks \subseteq Block /\ fault \in BOOLEAN /\ leaked \in BOOLEAN
    BY DEF Init
  <2> QED BY <2>1, <2>2, <2>3 DEF TypeOK
<1> QED
  BY <1>1 DEF Init, IInv, NoFault, NothingLeaked, BlocksInBounds, BlocksDisjoint,
     ContentsIntact, StampsOrdered, MarksInBounds, UnmappedIsEmpty

LEMMA CreateIInv ==
  ASSUME IInv, NEW c \in Capacities, arena_create(c)
  PROVE  IInv'
<1> USE DEF IInv, arena_create, MapLength
<1>1. c \in 0 .. MaxCapacity /\ SIZEOF_ARENA \in Nat \ {0} /\ MaxCapacity \in Nat
  BY SizeAssumption, WordAssumption
<1>2. blocks = {} /\ \A k \in Marks : marks[k] = NoMark
  BY DEF UnmappedIsEmpty
<1>3. TypeOK'
  BY <1>1 DEF TypeOK, Addr
<1>4. NoFault' /\ NothingLeaked'
  BY DEF NoFault, NothingLeaked
<1>5. BlocksInBounds'
  BY <1>1, <1>2 DEF BlocksInBounds
<1>6. BlocksDisjoint' /\ ContentsIntact' /\ StampsOrdered' /\ MarksInBounds' /\ UnmappedIsEmpty'
  BY <1>2 DEF BlocksDisjoint, ContentsIntact, StampsOrdered, MarksInBounds, UnmappedIsEmpty
<1> QED BY <1>3, <1>4, <1>5, <1>6

LEMMA DestroyIInv ==
  ASSUME IInv, arena_destroy
  PROVE  IInv'
<1> USE DEF IInv, arena_destroy, Unmap
<1>1. TypeOK'
  <2>1. marks' \in [Marks -> [start_position : Nat, stamp : Nat] \cup {NoMark}]
    OBVIOUS
  <2>2. capacity' \in 0 .. MaxCapacity /\ current_position' \in Nat /\ previous_position' \in Nat
        /\ mapped' \in Nat /\ mem' \in [Addr -> Nat]
    BY SizeAssumption
  <2>3. leaked' \in BOOLEAN /\ fault' \in BOOLEAN /\ clock' \in Nat /\ blocks' \subseteq Block
    BY DEF TypeOK
  <2> QED BY <2>1, <2>2, <2>3 DEF TypeOK
<1>2. NoFault' /\ NothingLeaked'
  <2>1. mapped = capacity + SIZEOF_ARENA
    BY DEF BlocksInBounds, Running
  <2>2. ~(capacity + SIZEOF_ARENA < mapped)
    BY <2>1, WordAssumption, SizeAssumption DEF TypeOK
  <2> QED BY <2>2 DEF NoFault, NothingLeaked
<1>3. BlocksInBounds' /\ BlocksDisjoint' /\ ContentsIntact' /\ StampsOrdered'
  BY DEF BlocksInBounds, BlocksDisjoint, ContentsIntact, StampsOrdered
<1>4. MarksInBounds' /\ UnmappedIsEmpty'
  BY DEF MarksInBounds, UnmappedIsEmpty
<1> QED BY <1>1, <1>2, <1>3, <1>4

(* A zeroed block of s bytes is put at current_position, and of the blocks  *)
(* there were the kept ones stay with their clients.                        *)
LEMMA PlaceIInv ==
  ASSUME IInv, NEW s \in Nat, NEW kept \in SUBSET blocks,
         Running, current_position + s <= capacity,
         previous_position' = current_position,
         current_position' = current_position + s,
         clock' = clock + 1,
         fault' = ~InMapping(current_position, s),
         mem' = Fill(mem, current_position, s, 0),
         blocks' = kept \cup
           {[off |-> current_position, size |-> s, stamp |-> clock + 1, holds |-> 0]},
         UNCHANGED <<mapped, capacity, marks, leaked>>
  PROVE  IInv'
<1> DEFINE new == [off |-> current_position, size |-> s, stamp |-> clock + 1, holds |-> 0]
<1>1. /\ TypeOK /\ NoFault /\ NothingLeaked /\ BlocksInBounds /\ BlocksDisjoint
      /\ ContentsIntact /\ StampsOrdered /\ MarksInBounds /\ UnmappedIsEmpty
  BY DEF IInv
<1>2. mapped # 0 /\ current_position <= capacity /\ mapped = capacity + SIZEOF_ARENA
  BY <1>1 DEF Running, BlocksInBounds
<1>3. s \in Nat
  OBVIOUS
<1>4. /\ current_position + s <= capacity
      /\ previous_position' = current_position
      /\ current_position' = current_position + s
      /\ clock' = clock + 1
      /\ fault' = ~InMapping(current_position, s)
      /\ mem' = Fill(mem, current_position, s, 0)
      /\ blocks' = kept \cup {new} /\ kept \subseteq blocks
      /\ UNCHANGED <<mapped, capacity, marks, leaked>>
  OBVIOUS
<1>5. /\ current_position \in Nat /\ capacity \in Nat /\ clock \in Nat /\ capacity <= MaxCapacity
      /\ mem \in [Addr -> Nat] /\ MaxCapacity \in Nat /\ SIZEOF_ARENA \in Nat
      /\ new \in Block /\ blocks \subseteq Block
  BY <1>1, <1>3, SizeAssumption, WordAssumption DEF TypeOK, Block
<1>6. \A b \in blocks : /\ b \in Block
                        /\ b.off + b.size <= current_position
                        /\ b.stamp <= clock
                        /\ b.stamp # new.stamp
  BY <1>1, <1>2, <1>5 DEF BlocksInBounds, StampsOrdered, Block
<1> HIDE DEF new
<1>7. new.off = current_position /\ new.size = s /\ new.stamp = clock + 1 /\ new.holds = 0
  BY DEF new
<1>8. TypeOK'
  <2>1. mem' \in [Addr -> Nat]
    BY <1>4, <1>5, FillType
  <2>2. fault' \in BOOLEAN /\ leaked' \in BOOLEAN
    BY <1>1, <1>4 DEF TypeOK, InMapping
  <2>3. capacity' \in 0 .. MaxCapacity /\ mapped' \in Nat
    BY <1>1, <1>4 DEF TypeOK
  <2>4. current_position' \in Nat /\ previous_position' \in Nat /\ clock' \in Nat
    BY <1>3, <1>4, <1>5
  <2>5. blocks' \subseteq Block
    BY <1>4, <1>5
  <2> QED BY <1>1, <1>4, <2>1, <2>2, <2>3, <2>4, <2>5 DEF TypeOK
<1>9. NoFault' /\ NothingLeaked'
  <2>1. InMapping(current_position, s)
    BY <1>2, <1>3, <1>4, <1>5 DEF InMapping
  <2>2. ~fault'
    BY <2>1, Zenon
  <2> QED BY <1>1, <1>4, <2>2 DEF NoFault, NothingLeaked
<1>10. BlocksInBounds'
  BY <1>2, <1>3, <1>4, <1>5, <1>6, <1>7 DEF BlocksInBounds, Block
<1>11. BlocksDisjoint'
  BY <1>1, <1>3, <1>4, <1>5, <1>6, <1>7 DEF BlocksDisjoint, Block
<1>12. ContentsIntact'
  <2> SUFFICES ASSUME NEW b \in blocks', NEW a \in Bytes(b)
               PROVE  mem'[a] = b.holds
    BY DEF ContentsIntact, Bytes
  <2>1. CASE b \in blocks
    <3>1. b \in Block /\ b.off + b.size <= current_position
      BY <2>1, <1>6
    <3>2. a \in Addr /\ a < current_position
      BY <3>1, <1>2, <1>5 DEF Bytes, Addr, Block
    <3>3. mem'[a] = mem[a]
      BY <3>2, <1>3, <1>4, <1>5 DEF Fill, Addr
    <3> QED BY <2>1, <3>3, <1>1 DEF ContentsIntact
  <2>2. CASE b = new
    <3>1. a \in Addr /\ current_position <= a /\ a < current_position + s
      BY <2>2, <1>3, <1>4, <1>5, <1>7 DEF Bytes, Addr
    <3> QED BY <2>2, <3>1, <1>4, <1>5, <1>7 DEF Fill
  <2> QED BY <2>1, <2>2, <1>4
<1>13. StampsOrdered'
  BY <1>1, <1>4, <1>5, <1>6, <1>7 DEF StampsOrdered, Block
<1>14. MarksInBounds'
  <2> SUFFICES ASSUME NEW k \in Marks, marks[k] # NoMark
               PROVE  /\ marks[k].start_position <= capacity
                      /\ marks[k].stamp <= clock + 1
                      /\ \A b \in blocks \cup {new} :
                           b.stamp <= marks[k].stamp => b.off + b.size <= marks[k].start_position
    BY <1>4 DEF MarksInBounds
  <2>1. marks[k] \in [start_position : Nat, stamp : Nat]
    BY <1>1 DEF TypeOK
  <2>2. marks[k].start_position <= capacity /\ marks[k].stamp <= clock
    BY <1>1 DEF MarksInBounds
  <2>3. ~(new.stamp <= marks[k].stamp)
    BY <2>1, <2>2, <1>5, <1>7
  <2> QED BY <2>1, <2>2, <2>3, <1>1, <1>5 DEF MarksInBounds
<1>15. UnmappedIsEmpty'
  BY <1>2, <1>4 DEF UnmappedIsEmpty
<1> QED
  BY <1>8, <1>9, <1>10, <1>11, <1>12, <1>13, <1>14, <1>15 DEF IInv

LEMMA AllocIInv ==
  ASSUME IInv, NEW s \in Sizes, arena_alloc(s)
  PROVE  IInv'
<1>1. mapped # 0 /\ current_position <= capacity
  BY DEF arena_alloc, Running, IInv, BlocksInBounds
<1>2. /\ align(current_position, ARENA_ALIGN) = current_position
      /\ (current_position + s) % WORD = current_position + s
      /\ s \in Nat
  BY <1>1, AllocPosition DEF IInv
<1> QED BY <1>2, PlaceIInv DEF arena_alloc, HasRoom, Out, Zeroed

LEMMA WriteIInv ==
  ASSUME IInv, NEW b \in blocks, ClientWrite(b)
  PROVE  IInv'
<1> DEFINE new == [b EXCEPT !.holds = b.stamp]
<1>1. /\ TypeOK /\ NoFault /\ NothingLeaked /\ BlocksInBounds /\ BlocksDisjoint
      /\ ContentsIntact /\ StampsOrdered /\ MarksInBounds /\ UnmappedIsEmpty
  BY DEF IInv
<1>2. /\ mem' = Fill(mem, b.off, b.size, b.stamp)
      /\ blocks' = (blocks \ {b}) \cup {new}
      /\ fault' = ~InMapping(b.off, b.size)
      /\ UNCHANGED <<mapped, capacity, current_position, previous_position, marks, clock, leaked>>
  BY DEF ClientWrite, header
<1>3. /\ mapped # 0 /\ current_position <= capacity /\ mapped = capacity + SIZEOF_ARENA
      /\ \A d \in blocks : d.off + d.size <= current_position
  BY <1>1 DEF ClientWrite, Running, BlocksInBounds
<1>4. /\ current_position \in Nat /\ capacity \in Nat /\ clock \in Nat /\ capacity <= MaxCapacity
      /\ mem \in [Addr -> Nat] /\ MaxCapacity \in Nat /\ SIZEOF_ARENA \in Nat
      /\ b \in Block /\ blocks \subseteq Block
  BY <1>1, SizeAssumption, WordAssumption DEF TypeOK
<1>5. /\ new \in Block /\ new.off = b.off /\ new.size = b.size
      /\ new.stamp = b.stamp /\ new.holds = b.stamp
  BY <1>4 DEF Block
<1>6. \A d \in blocks \ {b} :
        d.stamp # b.stamp /\ (b.off + b.size <= d.off \/ d.off + d.size <= b.off)
  BY <1>1 DEF StampsOrdered, BlocksDisjoint
<1> HIDE DEF new
<1>7. TypeOK'
  <2>1. mem' \in [Addr -> Nat]
    BY <1>2, <1>4, FillType DEF Block
  <2>2. fault' \in BOOLEAN /\ leaked' \in BOOLEAN
    BY <1>1, <1>2 DEF TypeOK, InMapping
  <2>3. blocks' \subseteq Block
    BY <1>2, <1>4, <1>5
  <2> QED BY <1>1, <1>2, <2>1, <2>2, <2>3 DEF TypeOK
<1>8. NoFault' /\ NothingLeaked'
  <2>1. InMapping(b.off, b.size)
    BY <1>3, <1>4 DEF InMapping, Block
  <2> QED BY <1>1, <1>2, <2>1 DEF NoFault, NothingLeaked
<1>9. BlocksInBounds'
  BY <1>2, <1>3, <1>5 DEF BlocksInBounds
<1>10. BlocksDisjoint'
  BY <1>1, <1>2, <1>5, <1>6 DEF BlocksDisjoint
<1>11. ContentsIntact'
  <2> SUFFICES ASSUME NEW d \in blocks', NEW a \in Bytes(d)
               PROVE  mem'[a] = d.holds
    BY DEF ContentsIntact, Bytes
  <2>1. d \in Block /\ d.off + d.size <= MaxCapacity
    BY <1>2, <1>3, <1>4, <1>5 DEF Block
  <2>2. a \in Addr /\ d.off <= a /\ a < d.off + d.size
    BY <2>1, <1>4 DEF Bytes, Addr, Block
  <2>3. CASE d \in blocks \ {b}
    <3>1. b.off + b.size <= d.off \/ d.off + d.size <= b.off
      BY <2>3, <1>6
    <3>2. /\ a \in Int /\ b.off \in Nat /\ b.size \in Nat
          /\ d.off \in Nat /\ d.size \in Nat
      BY <2>1, <2>2, <1>4 DEF Block, Addr
    <3>3. ~(b.off <= a /\ a < b.off + b.size)
      BY <2>2, <3>1, <3>2
    <3>4. mem'[a] = mem[a]
      BY <3>3, <2>2, <1>2, <1>4 DEF Fill
    <3> QED BY <2>3, <3>4, <1>1 DEF ContentsIntact
  <2>4. CASE d = new
    <3>1. a \in Addr /\ b.off <= a /\ a < b.off + b.size
      BY <2>2, <2>4, <1>5
    <3>2. mem'[a] = b.stamp
      BY <3>1, <1>2, <1>4 DEF Fill
    <3> QED BY <2>4, <3>2, <1>5
  <2> QED BY <2>3, <2>4, <1>2
<1>12. StampsOrdered'
  BY <1>1, <1>2, <1>5, <1>6 DEF StampsOrdered
<1>13. MarksInBounds'
  BY <1>1, <1>2, <1>5 DEF MarksInBounds
<1>14. UnmappedIsEmpty'
  BY <1>2, <1>3 DEF UnmappedIsEmpty
<1> QED
  BY <1>7, <1>8, <1>9, <1>10, <1>11, <1>12, <1>13, <1>14 DEF IInv

(* Moving current_position anywhere inside the arena keeps the invariant:   *)
(* up, as temp_arena_end may after arena_clear, as well as down.            *)
LEMMA MoveIInv ==
  ASSUME IInv, NEW pos \in Nat, pos <= capacity, MoveTo(pos)
  PROVE  IInv'
<1>1. /\ TypeOK /\ NoFault /\ NothingLeaked /\ BlocksInBounds /\ BlocksDisjoint
      /\ ContentsIntact /\ StampsOrdered /\ MarksInBounds /\ UnmappedIsEmpty
  BY DEF IInv
<1>2. /\ current_position' = pos
      /\ blocks' = {b \in blocks : b.off + b.size <= pos}
      /\ UNCHANGED <<mapped, capacity, previous_position, mem, marks, clock, fault, leaked>>
      /\ mapped # 0
  BY DEF MoveTo, Below, Running
<1>3. TypeOK'
  BY <1>1, <1>2 DEF TypeOK
<1>4. NoFault' /\ NothingLeaked'
  BY <1>1, <1>2 DEF NoFault, NothingLeaked
<1>5. BlocksInBounds'
  BY <1>1, <1>2 DEF BlocksInBounds
<1>6. BlocksDisjoint' /\ StampsOrdered'
  BY <1>1, <1>2 DEF BlocksDisjoint, StampsOrdered
<1>7. ContentsIntact'
  BY <1>1, <1>2 DEF ContentsIntact, Bytes
<1>8. MarksInBounds'
  BY <1>1, <1>2 DEF MarksInBounds
<1>9. UnmappedIsEmpty'
  BY <1>2 DEF UnmappedIsEmpty
<1> QED BY <1>3, <1>4, <1>5, <1>6, <1>7, <1>8, <1>9 DEF IInv

LEMMA BeginIInv ==
  ASSUME IInv, NEW k \in Marks, temp_arena_begin(k)
  PROVE  IInv'
<1> DEFINE mark == [start_position |-> current_position, stamp |-> clock]
<1>1. /\ TypeOK /\ NoFault /\ NothingLeaked /\ BlocksInBounds /\ BlocksDisjoint
      /\ ContentsIntact /\ StampsOrdered /\ MarksInBounds /\ UnmappedIsEmpty
  BY DEF IInv
<1>2. /\ marks' = [marks EXCEPT ![k] = mark]
      /\ UNCHANGED <<mapped, capacity, current_position, previous_position, mem, blocks,
                     clock, fault, leaked>>
      /\ mapped # 0
  BY DEF temp_arena_begin, MarkHere, header, Running
<1>3. /\ mark \in [start_position : Nat, stamp : Nat]
      /\ mark.start_position = current_position /\ mark.stamp = clock
  BY <1>1 DEF TypeOK
<1>4. DOMAIN marks = Marks
  BY <1>1 DEF TypeOK
<1> HIDE DEF mark
<1>5. TypeOK'
  BY <1>1, <1>2, <1>3 DEF TypeOK
<1>6. NoFault' /\ NothingLeaked' /\ BlocksInBounds' /\ BlocksDisjoint' /\ StampsOrdered'
  BY <1>1, <1>2 DEF NoFault, NothingLeaked, BlocksInBounds, BlocksDisjoint, StampsOrdered
<1>7. ContentsIntact'
  BY <1>1, <1>2 DEF ContentsIntact, Bytes
<1>8. MarksInBounds'
  <2> SUFFICES ASSUME NEW j \in Marks, marks'[j] # NoMark
               PROVE  /\ marks'[j].start_position <= capacity
                      /\ marks'[j].stamp <= clock
                      /\ \A b \in blocks :
                           b.stamp <= marks'[j].stamp => b.off + b.size <= marks'[j].start_position
    BY <1>2 DEF MarksInBounds
  <2>1. CASE j = k
    <3>1. marks'[j] = mark
      BY <2>1, <1>2, <1>4
    <3>2. current_position <= capacity /\ \A b \in blocks : b.off + b.size <= current_position
      BY <1>1, <1>2 DEF BlocksInBounds
    <3>3. clock <= clock
      BY <1>1 DEF TypeOK
    <3> QED BY <3>1, <3>2, <3>3, <1>3
  <2>2. CASE j # k
    <3>1. marks'[j] = marks[j]
      BY <2>2, <1>2, <1>4
    <3> QED BY <3>1, <1>1 DEF MarksInBounds
  <2> QED BY <2>1, <2>2
<1>9. UnmappedIsEmpty'
  BY <1>2 DEF UnmappedIsEmpty
<1> QED BY <1>5, <1>6, <1>7, <1>8, <1>9 DEF IInv

(* The mark that temp_arena_end returns to lies inside the arena. *)
LEMMA MarkPosition ==
  ASSUME IInv, NEW k \in Marks, marks[k] # NoMark
  PROVE  /\ marks[k].start_position \in Nat
         /\ marks[k].start_position <= capacity
<1>1. marks[k] \in [start_position : Nat, stamp : Nat]
  BY DEF IInv, TypeOK
<1> QED BY <1>1 DEF IInv, MarksInBounds

LEMMA NextIInv ==
  ASSUME IInv, [Next]_vars
  PROVE  IInv'
<1>1. current_position \in Nat /\ capacity \in Nat
  BY SizeAssumption DEF IInv, TypeOK
<1>2. mapped # 0 => current_position <= capacity
  BY DEF IInv, BlocksInBounds
<1>3. ASSUME NEW c \in Capacities, arena_create(c) PROVE IInv'
  BY <1>3, CreateIInv
<1>4. CASE arena_destroy
  BY <1>4, DestroyIInv
<1>5. ASSUME NEW s \in Sizes, arena_alloc(s) PROVE IInv'
  BY <1>5, AllocIInv
<1>6. ASSUME NEW b \in blocks, ClientWrite(b) PROVE IInv'
  BY <1>6, WriteIInv
<1>7. ASSUME NEW s \in Sizes, arena_pop(s) PROVE IInv'
  <2> DEFINE pos == current_position - (IF s < current_position THEN s ELSE current_position)
  <2>1. MoveTo(pos)
    BY <1>7 DEF arena_pop
  <2>2. s \in Nat
    BY SizeAssumption
  <2>3. pos \in Nat /\ pos <= current_position
    BY <1>1, <2>2
  <2>4. pos <= capacity
    BY <1>1, <1>2, <2>1, <2>3 DEF MoveTo, Running
  <2> QED BY <2>1, <2>3, <2>4, MoveIInv
<1>8. ASSUME NEW p \in 0 .. MaxCapacity, arena_pop_to(p) PROVE IInv'
  <2>1. MoveTo(p) /\ p \in Nat /\ p < current_position /\ mapped # 0
    BY <1>8 DEF arena_pop_to, MoveTo, Running
  <2>2. p <= capacity
    BY <1>1, <1>2, <2>1
  <2> QED BY <2>1, <2>2, MoveIInv
<1>9. CASE arena_clear
  <2>1. 0 <= capacity
    BY <1>1
  <2> QED BY <1>9, <2>1, MoveIInv DEF arena_clear
<1>10. ASSUME NEW k \in Marks, temp_arena_begin(k) PROVE IInv'
  BY <1>10, BeginIInv
<1>11. ASSUME NEW k \in Marks, temp_arena_end(k) PROVE IInv'
  BY <1>11, MarkPosition, MoveIInv DEF temp_arena_end
<1>12. CASE UNCHANGED vars
  BY <1>12 DEF vars, header, IInv, TypeOK, NoFault, NothingLeaked, BlocksInBounds,
     BlocksDisjoint, ContentsIntact, Bytes, StampsOrdered, MarksInBounds, UnmappedIsEmpty
<1> QED
  BY <1>3, <1>4, <1>5, <1>6, <1>7, <1>8, <1>9, <1>10, <1>11, <1>12 DEF Next

(* Whatever clients do with the arena, the inductive invariant holds.       *)
THEOREM Invariance == Spec => []IInv
<1>1. Init => IInv
  BY InitIInv
<1>2. IInv /\ [Next]_vars => IInv'
  BY NextIInv
<1> QED BY <1>1, <1>2, PTL DEF Spec

PositionInCapacity == mapped # 0 => current_position <= capacity

(* Every field of mem_arena and temp_arena keeps its type, and              *)
(* current_position stays within the capacity of a mapped arena.            *)
THEOREM TypeCorrect == Spec => [](TypeOK /\ PositionInCapacity)
<1>1. IInv => TypeOK /\ PositionInCapacity
  BY DEF IInv, BlocksInBounds, PositionInCapacity
<1> QED BY <1>1, Invariance, PTL

(* No MemSet of arena_alloc and no client access to its own block leaves    *)
(* the mapping.                                                             *)
THEOREM MemorySafe == Spec => []NoFault
  BY Invariance, PTL DEF IInv

(* current_position stays within the capacity and above every block.        *)
THEOREM InBounds == Spec => []BlocksInBounds
  BY Invariance, PTL DEF IInv

(* Blocks held at the same time are disjoint and keep what was written.     *)
THEOREM Isolation == Spec => [](BlocksDisjoint /\ ContentsIntact)
  BY Invariance, PTL DEF IInv

(* arena_destroy gives back the whole mapping. *)
THEOREM NoLeak == Spec => []NothingLeaked
  BY Invariance, PTL DEF IInv

-----------------------------------------------------------------------------
(* temp_arena_end never takes back a block that is older than its mark:     *)
(* MarksInBounds says such a block ends at or below the mark.               *)
THEOREM ScopesKeepOlderBlocks == Spec => EndKeepsOlderBlocks
<1>1. ASSUME IInv, NEW k \in Marks, temp_arena_end(k),
             NEW b \in blocks, b.stamp <= marks[k].stamp
      PROVE  b \in blocks'
  <2>1. b.off + b.size <= marks[k].start_position
    BY <1>1 DEF IInv, MarksInBounds, temp_arena_end
  <2> QED BY <1>1, <2>1 DEF temp_arena_end, MoveTo, Below
<1>2. IInv => [\A k \in Marks :
                 temp_arena_end(k) =>
                   \A b \in blocks : b.stamp <= marks[k].stamp => b \in blocks']_vars
  BY <1>1
<1> QED BY <1>2, Invariance, PTL DEF EndKeepsOlderBlocks

-----------------------------------------------------------------------------
(* Refinement.  Under ContentsIntact what is read from a block is what its  *)
(* client left in it, so the regions are a function of the blocks alone.    *)
View(b) == [off |-> b.off, size |-> b.size, stamp |-> b.stamp,
            value |-> {b.holds : a \in Bytes(b)}]

LEMMA RegionIsView ==
  ASSUME NEW b, NEW m, \A a \in Bytes(b) : m[a] = b.holds
  PROVE  RegionOf(m, b) = View(b)
<1>1. {m[a] : a \in Bytes(b)} = {b.holds : a \in Bytes(b)}
  OBVIOUS
<1> QED BY <1>1 DEF RegionOf, View

LEMMA StepRefines ==
  ASSUME IInv, IInv', [Next]_vars
  PROVE  [Contract!Next]_Regions
<1>1. Regions = {View(b) : b \in blocks}
  <2>1. \A b \in blocks : RegionOf(mem, b) = View(b)
    BY RegionIsView DEF IInv, ContentsIntact
  <2> QED BY <2>1 DEF Regions
<1>2. Regions' = {View(b) : b \in blocks'}
  <2>1. \A b \in blocks' : \A a \in Bytes(b) : mem'[a] = b.holds
    BY DEF IInv, ContentsIntact, Bytes
  <2>2. \A b \in blocks' : RegionOf(mem', b) = View(b)
    BY <2>1, RegionIsView
  <2>3. Regions' = {RegionOf(mem', b) : b \in blocks'}
    BY DEF Regions, RegionOf, Bytes
  <2> QED BY <2>2, <2>3
<1>3. blocks' \subseteq blocks => Contract!Next
  <2>1. blocks' \subseteq blocks => Regions' \subseteq Regions
    BY <1>1, <1>2, Zenon
  <2> QED BY <2>1 DEF Contract!Next, Contract!Release
<1>4. ASSUME NEW c \in Capacities, arena_create(c) PROVE Contract!Next
  BY <1>3, <1>4 DEF arena_create, MapLength
<1>5. CASE arena_destroy
  BY <1>3, <1>5 DEF arena_destroy, Unmap
<1>6. ASSUME NEW pos, MoveTo(pos) PROVE Contract!Next
  BY <1>3, <1>6 DEF MoveTo, Below
<1>7. ASSUME NEW s \in Sizes, arena_alloc(s) PROVE Contract!Next
  <2> DEFINE new == [off |-> current_position, size |-> s, stamp |-> clock + 1, holds |-> 0]
  <2>1. mapped # 0 /\ current_position <= capacity
        /\ \A b \in blocks : b.off + b.size <= current_position
    BY <1>7 DEF arena_alloc, HasRoom, Out, Zeroed, Running, IInv, BlocksInBounds
  <2>2. blocks' = blocks \cup {new}
    BY <1>7, <2>1, AllocPosition DEF arena_alloc, HasRoom, Out, Zeroed, IInv
  <2>3. View(new) \in Regions' /\ Regions' = Regions \cup {View(new)}
    BY <1>1, <1>2, <2>2, Zenon
  <2>4. \A r \in Regions : Contract!Apart(View(new), r)
    <3> SUFFICES ASSUME NEW b \in blocks PROVE Contract!Apart(View(new), View(b))
      BY <1>1
    <3>1. View(b).off = b.off /\ View(b).size = b.size /\ View(new).off = current_position
      BY DEF View
    <3> QED BY <2>1, <3>1 DEF Contract!Apart
  <2>5. View(new).value = Contract!Filled(View(new), 0)
    BY DEF View, Contract!Filled, Contract!Cells, Bytes
  <2> QED BY <2>3, <2>4, <2>5 DEF Contract!Next, Contract!Acquire
<1>8. ASSUME NEW b \in blocks, ClientWrite(b) PROVE Contract!Next
  <2> DEFINE new == [b EXCEPT !.holds = b.stamp]
  <2>1. b \in Block /\ blocks' = (blocks \ {b}) \cup {new}
    BY <1>8 DEF ClientWrite, IInv, TypeOK
  <2>2. View(new) = [View(b) EXCEPT !.value = Contract!Filled(View(b), View(b).stamp)]
    <3>1. /\ new.off = b.off /\ new.size = b.size
          /\ new.stamp = b.stamp /\ new.holds = b.stamp
      BY <2>1 DEF Block
    <3>2. Bytes(new) = Bytes(b) /\ Contract!Cells(View(b)) = Bytes(b) /\ View(b).stamp = b.stamp
      BY <3>1 DEF Bytes, Contract!Cells, View
    <3>3. {new.holds : a \in Bytes(new)} = Contract!Filled(View(b), View(b).stamp)
      BY <3>1, <3>2 DEF Contract!Filled
    <3> HIDE DEF new
    <3> QED BY <3>1, <3>3 DEF View
  <2>3. \A d \in blocks : d # b => View(d) # View(b)
    <3>1. \A d \in blocks : View(d).stamp = d.stamp
      BY DEF View
    <3> QED BY <3>1 DEF IInv, StampsOrdered
  <2>4. Regions' = (Regions \ {View(b)}) \cup {View(new)}
    BY <1>1, <1>2, <2>1, <2>3, Zenon
  <2>5. View(b) \in Regions
    BY <1>1
  <2> QED BY <2>2, <2>4, <2>5 DEF Contract!Next, Contract!Store
<1>9. ASSUME NEW k \in Marks, temp_arena_begin(k) PROVE Contract!Next
  BY <1>3, <1>9 DEF temp_arena_begin, MarkHere
<1>10. CASE UNCHANGED vars
  BY <1>1, <1>2, <1>10 DEF vars
<1> QED
  BY <1>4, <1>5, <1>6, <1>7, <1>8, <1>9, <1>10
  DEF Next, arena_pop, arena_pop_to, arena_clear, temp_arena_end

(* The arena implements Region: it hands out zeroed regions apart from all  *)
(* the held ones, and between its client's stores a region neither moves    *)
(* nor changes.                                                             *)
THEOREM Refinement == Spec => ImplementsRegion
<1>1. Init => Contract!Init
  BY DEF Init, Contract!Init, Regions
<1>2. IInv /\ IInv' /\ [Next]_vars => [Contract!Next]_Regions
  BY StepRefines
<1> QED
  BY <1>1, <1>2, Invariance, PTL DEF Spec, ImplementsRegion, Contract!Spec

-----------------------------------------------------------------------------
(* arena_resize *)

(* As AllocPosition, for the sizes of a resize. *)
LEMMA ResizePosition ==
  ASSUME NEW x \in Nat, x <= MaxCapacity, NEW n \in NewSizes
  PROVE  n \in Nat /\ (x + n) % WORD = x + n
<1>1. n \in Nat /\ MaxCapacity \in Nat /\ MaxCapacity + n + n < WORD /\ WORD \in Nat
  BY SizeAssumption, WordAssumption, NewSizesAssumption
<1>2. x + n \in Nat /\ x + n < WORD
  BY <1>1
<1> QED BY <1>1, <1>2, ModSmall

(* What IInv says of the positions while the process runs *)
LEMMA PositionFacts ==
  ASSUME IInv, Running
  PROVE  /\ current_position \in Nat /\ previous_position \in Nat /\ capacity \in Nat
         /\ MaxCapacity \in Nat /\ SIZEOF_ARENA \in Nat
         /\ mapped # 0 /\ mapped = capacity + SIZEOF_ARENA
         /\ current_position <= capacity /\ capacity <= MaxCapacity
         /\ align(current_position, ARENA_ALIGN) = current_position
         /\ \A b \in blocks : b \in Block /\ b.off + b.size <= current_position
<1>1. TypeOK /\ BlocksInBounds
  BY DEF IInv
<1>2. align(current_position, ARENA_ALIGN) = current_position
  BY AlignAssumption DEF align
<1> QED BY <1>1, <1>2, SizeAssumption, WordAssumption DEF TypeOK, BlocksInBounds, Running

-----------------------------------------------------------------------------
(* The operations of Arena keep LastBlock. *)

LEMMA LastStep ==
  ASSUME IInv, LastBlock, Next
  PROVE  LastBlock'
<1> USE DEF LastBlock
<1>1. ASSUME blocks' \subseteq blocks, previous_position' = previous_position PROVE LastBlock'
  BY <1>1
<1>2. ASSUME NEW c \in Capacities, arena_create(c) PROVE LastBlock'
  BY <1>2 DEF arena_create, IInv, UnmappedIsEmpty
<1>3. CASE arena_destroy
  BY <1>3 DEF arena_destroy, Unmap
<1>4. ASSUME NEW s \in Sizes, arena_alloc(s) PROVE LastBlock'
  <2>1. /\ \A b \in blocks : b \in Block /\ b.off + b.size <= current_position
        /\ current_position \in Nat /\ align(current_position, ARENA_ALIGN) = current_position
    BY <1>4, PositionFacts DEF arena_alloc
  <2>2. /\ previous_position' = current_position
        /\ blocks' = blocks \cup
             {[off |-> current_position, size |-> s, stamp |-> clock + 1, holds |-> 0]}
    BY <1>4, <2>1 DEF arena_alloc, Out
  <2> QED BY <2>1, <2>2 DEF Block
<1>5. ASSUME NEW b \in blocks, ClientWrite(b) PROVE LastBlock'
  <2>1. b \in Block
    BY DEF IInv, TypeOK
  <2> QED BY <1>5, <2>1 DEF ClientWrite, header, Block
<1>6. ASSUME NEW pos, MoveTo(pos) PROVE LastBlock'
  BY <1>1, <1>6 DEF MoveTo, Below
<1>7. ASSUME NEW k \in Marks, temp_arena_begin(k) PROVE LastBlock'
  BY <1>1, <1>7 DEF temp_arena_begin, header
<1> QED
  BY <1>2, <1>3, <1>4, <1>5, <1>6, <1>7
  DEF Next, arena_pop, arena_pop_to, arena_clear, temp_arena_end

-----------------------------------------------------------------------------
(* The last block shrinks.  LastBlock keeps every other one out of the      *)
(* bytes that are given back.                                               *)
LEMMA ShrinkSound ==
  ASSUME IInv, LastBlock, NEW b \in blocks, NEW n \in NewSizes,
         ResizeInPlace(b, n), ~(n > b.size)
  PROVE  IInv' /\ LastBlock'
<1> DEFINE new == [b EXCEPT !.size = n]
<1>1. /\ TypeOK /\ NoFault /\ NothingLeaked /\ BlocksInBounds /\ BlocksDisjoint
      /\ ContentsIntact /\ StampsOrdered /\ MarksInBounds /\ UnmappedIsEmpty
  BY DEF IInv
<1>2. /\ current_position' = (previous_position + n) % WORD
      /\ b.off = previous_position /\ b.size # 0
      /\ blocks' = (blocks \ {b}) \cup {new}
      /\ UNCHANGED <<previous_position, capacity, mem, fault, mapped, marks, clock, leaked>>
  BY DEF ResizeInPlace, IsLast, Resized
<1>3. /\ current_position \in Nat /\ previous_position \in Nat /\ capacity \in Nat
      /\ MaxCapacity \in Nat /\ mapped # 0 /\ mapped = capacity + SIZEOF_ARENA
      /\ current_position <= capacity /\ capacity <= MaxCapacity
      /\ \A d \in blocks : d \in Block /\ d.off + d.size <= current_position
  BY PositionFacts DEF ResizeInPlace
<1>4. n \in Nat /\ b.size \in Nat /\ n <= b.size /\ previous_position + b.size <= current_position
  BY <1>2, <1>3, NewSizesAssumption DEF Block
<1>5. current_position' = previous_position + n /\ current_position' <= current_position
  BY <1>2, <1>3, <1>4, ResizePosition
<1>6. /\ new \in Block /\ new.off = previous_position /\ new.size = n
      /\ new.stamp = b.stamp /\ new.holds = b.holds
  BY <1>2, <1>3, <1>4 DEF Block
<1>7. \A d \in blocks \ {b} :
        /\ d \in Block /\ d.stamp # b.stamp
        /\ d.off <= previous_position /\ d.off + d.size <= previous_position
  <2> SUFFICES ASSUME NEW d \in blocks, d # b
               PROVE  /\ d \in Block /\ d.stamp # b.stamp
                      /\ d.off <= previous_position /\ d.off + d.size <= previous_position
    OBVIOUS
  <2>1. d \in Block /\ d.stamp # b.stamp
    BY <1>1, <1>3 DEF StampsOrdered
  <2>2. b.off + b.size <= d.off \/ d.off + d.size <= b.off
    BY <1>1, <2>1 DEF BlocksDisjoint
  <2>3. d.off <= previous_position
    BY DEF LastBlock
  <2>4. d.off \in Nat /\ d.size \in Nat
    BY <2>1 DEF Block
  <2>5. ~(previous_position + b.size <= d.off)
    BY <1>2, <1>3, <1>4, <2>3, <2>4
  <2> QED BY <1>2, <2>1, <2>2, <2>3, <2>5
<1> HIDE DEF new
<1>8. TypeOK'
  BY <1>1, <1>2, <1>3, <1>4, <1>5, <1>6 DEF TypeOK
<1>9. NoFault' /\ NothingLeaked' /\ UnmappedIsEmpty'
  BY <1>1, <1>2, <1>3 DEF NoFault, NothingLeaked, UnmappedIsEmpty
<1>10. BlocksInBounds'
  <2>1. \A d \in blocks' : d.off + d.size <= current_position'
    BY <1>2, <1>3, <1>4, <1>5, <1>6, <1>7 DEF Block
  <2> QED BY <1>2, <1>3, <1>5, <2>1 DEF BlocksInBounds
<1>11. BlocksDisjoint'
  BY <1>1, <1>2, <1>6, <1>7 DEF BlocksDisjoint
<1>12. ContentsIntact'
  <2>1. Bytes(new) \subseteq Bytes(b)
    BY <1>2, <1>3, <1>4, <1>6 DEF Bytes
  <2> QED BY <1>1, <1>2, <1>6, <2>1 DEF ContentsIntact, Bytes
<1>13. StampsOrdered'
  BY <1>1, <1>2, <1>6, <1>7 DEF StampsOrdered
<1>14. MarksInBounds'
  <2> SUFFICES ASSUME NEW k \in Marks, marks[k] # NoMark
               PROVE  /\ marks[k].start_position <= capacity
                      /\ marks[k].stamp <= clock
                      /\ \A d \in blocks' :
                           d.stamp <= marks[k].stamp => d.off + d.size <= marks[k].start_position
    BY <1>2 DEF MarksInBounds
  <2>1. marks[k] \in [start_position : Nat, stamp : Nat]
    BY <1>1 DEF TypeOK
  <2>2. new.stamp <= marks[k].stamp => new.off + new.size <= marks[k].start_position
    <3>1. b.stamp <= marks[k].stamp => b.off + b.size <= marks[k].start_position
      BY <1>1 DEF MarksInBounds
    <3> QED BY <1>2, <1>3, <1>4, <1>6, <2>1, <3>1
  <2> QED BY <1>1, <1>2, <2>2 DEF MarksInBounds
<1>15. LastBlock'
  BY <1>2, <1>3, <1>4, <1>6, <1>7 DEF LastBlock
<1> QED
  BY <1>8, <1>9, <1>10, <1>11, <1>12, <1>13, <1>14, <1>15 DEF IInv

(* Another block is copied above current_position, where nobody holds       *)
(* anything; without room the copy goes to NULL.                            *)
LEMMA CopySound ==
  ASSUME IInv, LastBlock, NEW b \in blocks, NEW n \in NewSizes, ResizeByCopy(b, n)
  PROVE  (fault' /\ ~leaked') \/ (IInv' /\ LastBlock')
<1>1. /\ TypeOK /\ NoFault /\ NothingLeaked /\ BlocksInBounds /\ BlocksDisjoint
      /\ ContentsIntact /\ StampsOrdered /\ MarksInBounds /\ UnmappedIsEmpty
  BY DEF IInv
<1>2. /\ current_position \in Nat /\ previous_position \in Nat /\ capacity \in Nat
      /\ MaxCapacity \in Nat /\ mapped # 0 /\ mapped = capacity + SIZEOF_ARENA
      /\ SIZEOF_ARENA \in Nat
      /\ current_position <= capacity /\ capacity <= MaxCapacity
      /\ align(current_position, ARENA_ALIGN) = current_position
      /\ \A d \in blocks : d \in Block /\ d.off + d.size <= current_position
  BY PositionFacts DEF ResizeByCopy
<1>3. n \in Nat /\ (current_position + n) % WORD = current_position + n
  BY <1>2, ResizePosition
<1> DEFINE copy_size == IF b.size < n THEN b.size ELSE n
           cleared == Fill(mem, current_position, n, 0)
           Source(a) == b.off + (a - current_position)
<1>4. b.size \in Nat /\ b.off \in Nat /\ b.size # 0 /\ copy_size \in Nat /\ copy_size <= b.size
  BY <1>2, <1>3 DEF ResizeByCopy, Block
<1>5. UNCHANGED <<mapped, capacity, blocks, marks, clock, leaked>>
  BY DEF ResizeByCopy
<1>6. CASE ~(current_position + n <= capacity)
  <2>1. copy_size > 0
    BY <1>2, <1>3, <1>4, <1>6
  <2>2. fault' = (copy_size > 0 /\ (~FALSE \/ ~InMapping(b.off, copy_size)))
    BY <1>2, <1>3, <1>6 DEF ResizeByCopy
  <2>3. ~leaked'
    BY <1>1, <1>5 DEF NothingLeaked
  <2> QED BY <2>1, <2>2, <2>3, Zenon
<1>7. CASE current_position + n <= capacity
  <2>1. /\ previous_position' = current_position /\ current_position' = current_position + n
        /\ mem' = [a \in DOMAIN mem |->
                     IF current_position <= a /\ a < current_position + copy_size
                          /\ Source(a) \in DOMAIN mem
                     THEN cleared[Source(a)] ELSE cleared[a]]
        /\ fault' = (copy_size > 0 /\ (~TRUE \/ ~InMapping(b.off, copy_size)))
    BY <1>2, <1>3, <1>7 DEF ResizeByCopy
  <2>2. ~fault'
    <3>1. InMapping(b.off, copy_size)
      BY <1>2, <1>4 DEF InMapping
    <3> QED BY <2>1, <3>1, Zenon
  <2>3. cleared \in [Addr -> Nat] /\ mem \in [Addr -> Nat]
    BY <1>1, FillType DEF TypeOK
  <2>4. \A a \in Addr : a < current_position => mem'[a] = mem[a]
    BY <1>2, <2>1, <2>3 DEF Fill, Addr
  <2> HIDE DEF copy_size, cleared, Source
  <2>5. mem' \in [Addr -> Nat]
    BY <2>1, <2>3
  <2>6. TypeOK'
    <3>1. fault' \in BOOLEAN
      BY <2>1
    <3> QED BY <1>1, <1>2, <1>3, <1>5, <2>1, <2>5, <3>1 DEF TypeOK
  <2>7. NoFault' /\ NothingLeaked' /\ BlocksDisjoint' /\ StampsOrdered' /\ MarksInBounds'
        /\ UnmappedIsEmpty'
    BY <1>1, <1>5, <2>2 DEF NoFault, NothingLeaked, BlocksDisjoint, StampsOrdered,
       MarksInBounds, UnmappedIsEmpty
  <2>8. BlocksInBounds'
    BY <1>2, <1>3, <1>5, <1>7, <2>1 DEF BlocksInBounds, Block
  <2>9. ContentsIntact'
    <3> SUFFICES ASSUME NEW d \in blocks, NEW a \in Bytes(d) PROVE mem'[a] = d.holds
      BY <1>5 DEF ContentsIntact, Bytes
    <3>1. a \in Addr /\ a < current_position
      BY <1>2 DEF Bytes, Addr, Block
    <3> QED BY <1>1, <2>4, <3>1 DEF ContentsIntact
  <2>10. LastBlock'
    BY <1>2, <1>5, <2>1 DEF LastBlock, Block
  <2> QED BY <2>6, <2>7, <2>8, <2>9, <2>10 DEF IInv
<1> QED BY <1>6, <1>7

LEMMA EmptySound ==
  ASSUME IInv, LastBlock, NEW b \in blocks, NEW n \in NewSizes, ResizeEmpty(b, n)
  PROVE  IInv' /\ LastBlock'
<1>1. /\ current_position \in Nat /\ current_position <= MaxCapacity
      /\ capacity \in Nat /\ Running
      /\ align(current_position, ARENA_ALIGN) = current_position
      /\ \A d \in blocks : d \in Block /\ d.off + d.size <= current_position
  BY PositionFacts DEF ResizeEmpty
<1>2. n \in Nat /\ (current_position + n) % WORD = current_position + n
  BY <1>1, ResizePosition
<1>3. /\ current_position + n <= capacity
      /\ previous_position' = current_position
      /\ current_position' = current_position + n
      /\ clock' = clock + 1
      /\ fault' = ~InMapping(current_position, n)
      /\ mem' = Fill(mem, current_position, n, 0)
      /\ blocks' = (blocks \ {b}) \cup
           {[off |-> current_position, size |-> n, stamp |-> clock + 1, holds |-> 0]}
      /\ UNCHANGED <<mapped, capacity, marks, leaked>>
  BY <1>1, <1>2 DEF ResizeEmpty
<1>4. IInv'
  BY <1>1, <1>2, <1>3, PlaceIInv
<1>5. LastBlock'
  BY <1>1, <1>3 DEF LastBlock, Block
<1> QED BY <1>4, <1>5

LEMMA ResizeNextInv == ResizeInv /\ [ResizeNext]_rvars => ResizeInv'
<1> SUFFICES ASSUME ResizeInv, [ResizeNext]_rvars PROVE ResizeInv'
  OBVIOUS
<1> USE DEF ResizeInv
<1>1. CASE UNCHANGED rvars
  <2>1. IInv => IInv'
    BY <1>1, NextIInv DEF rvars
  <2>2. LastBlock => LastBlock'
    BY <1>1 DEF rvars, vars, header, LastBlock
  <2> QED BY <1>1, <2>1, <2>2 DEF rvars, vars
<1>2. CASE grown /\ ResizeNext
  BY <1>2 DEF ResizeNext, ResizeInPlace, ResizeByCopy, ResizeEmpty
<1>3. CASE fault /\ ResizeNext
  BY <1>3 DEF ResizeNext, Next, ResizeInPlace, ResizeByCopy, ResizeEmpty, Running, arena_create,
     arena_destroy, Unmap, arena_alloc, ClientWrite, MoveTo, arena_pop, arena_pop_to,
     arena_clear, temp_arena_begin, temp_arena_end
<1>4. CASE IInv /\ LastBlock /\ ResizeNext
  <2>1. CASE Next
    BY <1>4, <2>1, NextIInv, LastStep
  <2>2. ASSUME NEW b \in blocks, NEW n \in NewSizes, ResizeInPlace(b, n) PROVE ResizeInv'
    <3>1. CASE n > b.size
      BY <2>2, <3>1 DEF ResizeInPlace
    <3> QED BY <1>4, <2>2, <3>1, ShrinkSound
  <2> QED BY <1>4, <2>1, <2>2, CopySound, EmptySound DEF ResizeNext
<1> QED BY <1>1, <1>2, <1>3, <1>4

(* Up to the first growth in place, arena_resize keeps the invariant of the *)
(* allocator and of its last block.                                         *)
THEOREM ResizeInvariance == ResizeSpec => []ResizeInv
<1>1. ResizeInit => ResizeInv
  BY InitIInv DEF ResizeInit, ResizeInv, LastBlock, Init
<1> QED BY <1>1, ResizeNextInv, PTL DEF ResizeSpec

(* Shrinking a block in place, copying one and allocating in the place of   *)
(* an empty one leave every client's block apart from the others, in bounds *)
(* and as it was: until a block is grown in place, arena_resize is safe.    *)
THEOREM ResizeSound == ResizeSpec => []SoundUntilGrown
<1>1. ResizeInv => SoundUntilGrown
  BY DEF ResizeInv, SoundUntilGrown, IInv, NothingLeaked
<1> QED BY <1>1, ResizeInvariance, PTL

-----------------------------------------------------------------------------
(* What holds even in an arena whose header was overwritten *)

LEMMA BytePowerPositive ==
  ASSUME NEW k \in 1 .. 7
  PROVE  BytePower(k) \in Nat /\ BytePower(k) > 0
<1>1. k = 1 \/ k = 2 \/ k = 3 \/ k = 4 \/ k = 5 \/ k = 6 \/ k = 7
  OBVIOUS
<1>2. 16 ^ 1 \in Nat /\ 16 ^ 1 > 0
  BY SMT
<1>3. 16 ^ 2 \in Nat /\ 16 ^ 2 > 0
  BY SMT
<1>4. 16 ^ 3 \in Nat /\ 16 ^ 3 > 0
  BY SMT
<1>5. 16 ^ 4 \in Nat /\ 16 ^ 4 > 0
  BY SMT
<1>6. 16 ^ 5 \in Nat /\ 16 ^ 5 > 0
  BY SMT
<1>7. 16 ^ 6 \in Nat /\ 16 ^ 6 > 0
  BY SMT
<1>8. 16 ^ 7 \in Nat /\ 16 ^ 7 > 0
  BY SMT
<1>9. 16 ^ k \in Nat /\ 16 ^ k > 0
  BY <1>1, <1>2, <1>3, <1>4, <1>5, <1>6, <1>7, <1>8, Zenon
<1>10. \A p \in Nat : p > 0 => p * p \in Nat /\ p * p > 0
  OBVIOUS
<1> QED BY <1>9, <1>10, Zenon DEF BytePower

(* Clearing bytes of a number never makes it larger. *)
LEMMA ZeroLowSmaller ==
  ASSUME NEW v \in Nat, NEW k \in Int
  PROVE  ZeroLow(v, k) \in Nat /\ ZeroLow(v, k) <= v
<1>1. CASE k <= 0 \/ k >= U64_BYTES
  BY <1>1 DEF ZeroLow, U64_BYTES
<1>2. CASE k \in 1 .. 7
  <2> DEFINE m == BytePower(k)
  <2>1. m \in Nat /\ m > 0
    BY <1>2, BytePowerPositive
  <2>2. ZeroLow(v, k) = v - (v % m)
    BY <1>2 DEF ZeroLow, U64_BYTES
  <2> HIDE DEF m
  <2> QED BY <2>1, <2>2
<1> QED BY <1>1, <1>2 DEF U64_BYTES

LEMMA ReachFacts ==
  /\ Reach \subseteq Nat
  /\ \A x \in Nat : x <= MaxCapacity => x \in Reach
  /\ \A x \in Reach, y \in Nat : y <= x => y \in Reach
  /\ \A x \in Nat, n \in NewSizes : x <= MaxCapacity + n => x \in Reach
<1>1. MaxCapacity \in Nat /\ \A n \in NewSizes : n \in Nat
  BY SizeAssumption, NewSizesAssumption
<1> QED BY <1>1 DEF Reach

LEMMA RequestInReach ==
  ASSUME NEW x \in Reach, NEW s \in Sizes
  PROVE  s \in Nat /\ (x + s) % WORD = x + s
<1>1. s \in Nat /\ WORD \in Nat /\ MaxCapacity \in Nat /\ x \in Nat
  BY SizeAssumption, WordAssumption, ReachFacts
<1>2. x + s < WORD
  <2>1. PICK n \in NewSizes \cup {0} : x <= MaxCapacity + n
    BY DEF Reach
  <2>2. n \in Nat /\ MaxCapacity + n + s < WORD
    <3>1. CASE n \in NewSizes
      BY <3>1, NewSizesAssumption
    <3>2. CASE n = 0
      BY <3>2, <1>1, SizeAssumption
    <3> QED BY <3>1, <3>2
  <2> QED BY <1>1, <2>1, <2>2
<1> QED BY <1>1, <1>2, ModSmall

(* The MemSet of arena_alloc, wherever the positions have got to *)
LEMMA AllocMapped ==
  ASSUME HeaderInv, NEW s \in Sizes, arena_alloc(s)
  PROVE  ~fault'
<1>1. align(current_position, ARENA_ALIGN) = current_position
  BY AlignAssumption DEF align
<1>2. s \in Nat /\ (current_position + s) % WORD = current_position + s
  BY RequestInReach DEF HeaderInv
<1>3. /\ current_position + s <= capacity
      /\ fault' = ~InMapping(current_position, s)
  BY <1>1, <1>2 DEF arena_alloc, HasRoom, Out
<1>4. InMapping(current_position, s)
  <2>1. capacity + SIZEOF_ARENA <= mapped
    BY DEF HeaderInv, arena_alloc, Running
  <2>2. /\ capacity \in Nat /\ mapped \in Nat /\ SIZEOF_ARENA \in Nat
        /\ current_position \in Nat
    BY SizeAssumption, WordAssumption DEF HeaderInv, TypeOK
  <2> QED BY <1>2, <1>3, <2>1, <2>2 DEF InMapping
<1> QED BY <1>3, <1>4, Zenon

LEMMA MoveHeader ==
  ASSUME HeaderInv, NEW pos \in Reach, MoveTo(pos), UNCHANGED grown
  PROVE  HeaderInv'
<1>1. /\ current_position' = pos /\ blocks' \subseteq blocks
      /\ UNCHANGED <<mapped, capacity, previous_position, mem, marks, clock, fault, leaked>>
  BY DEF MoveTo, Below
<1>2. TypeOK'
  BY <1>1, ReachFacts DEF HeaderInv, TypeOK
<1> QED BY <1>1, <1>2 DEF HeaderInv

LEMMA HeaderOfArena ==
  ASSUME HeaderInv, Next, UNCHANGED grown
  PROVE  HeaderInv'
<1>1. /\ TypeOK /\ current_position \in Reach /\ current_position \in Nat
      /\ MaxCapacity \in Nat /\ SIZEOF_ARENA \in Nat /\ 0 \in Reach
  BY ReachFacts, SizeAssumption, WordAssumption DEF HeaderInv
<1>2. ASSUME NEW c \in Capacities, arena_create(c) PROVE HeaderInv'
  <2>1. c \in 0 .. MaxCapacity /\ mapped' = c + SIZEOF_ARENA
    BY <1>2, SizeAssumption DEF arena_create, MapLength
  <2>2. TypeOK'
    BY <1>1, <1>2, <2>1 DEF TypeOK, arena_create, Addr
  <2>3. capacity' + SIZEOF_ARENA <= mapped'
    BY <1>1, <1>2, <2>1 DEF arena_create
  <2> QED BY <1>1, <1>2, <2>2, <2>3 DEF HeaderInv, arena_create
<1>3. CASE arena_destroy
  <2>1. marks' = [k \in Marks |-> NoMark] /\ mapped' = 0 /\ current_position' = 0
    BY <1>3 DEF arena_destroy, Unmap
  <2>2. TypeOK'
    <3>1. marks' \in [Marks -> [start_position : Nat, stamp : Nat] \cup {NoMark}]
      BY <2>1
    <3>2. capacity' \in 0 .. MaxCapacity /\ previous_position' \in Nat /\ mem' \in [Addr -> Nat]
      BY <1>1, <1>3 DEF arena_destroy, Unmap
    <3>3. leaked' \in BOOLEAN /\ fault' \in BOOLEAN /\ clock' \in Nat /\ blocks' \subseteq Block
      BY <1>1, <1>3 DEF TypeOK, arena_destroy, Unmap
    <3> QED BY <2>1, <3>1, <3>2, <3>3 DEF TypeOK
  <2> QED BY <1>1, <2>1, <2>2 DEF HeaderInv
<1>4. ASSUME NEW s \in Sizes, arena_alloc(s) PROVE HeaderInv'
  <2>1. align(current_position, ARENA_ALIGN) = current_position
    BY AlignAssumption DEF align
  <2>2. s \in Nat /\ (current_position + s) % WORD = current_position + s
    BY <1>1, RequestInReach
  <2>3. /\ current_position + s <= capacity /\ current_position' = current_position + s
        /\ previous_position' = current_position
        /\ mem' = Fill(mem, current_position, s, 0)
        /\ blocks' = blocks \cup
             {[off |-> current_position, size |-> s, stamp |-> clock + 1, holds |-> 0]}
        /\ clock' = clock + 1
        /\ fault' = ~InMapping(current_position, s)
        /\ UNCHANGED <<mapped, capacity, marks, leaked>>
    BY <1>4, <2>1, <2>2 DEF arena_alloc, HasRoom, Out, Zeroed
  <2>4. current_position' \in Nat /\ current_position' \in Reach
    BY <1>1, <2>2, <2>3, ReachFacts DEF TypeOK
  <2>5. TypeOK'
    <3>1. mem' \in [Addr -> Nat]
      BY <1>1, <2>3, FillType DEF TypeOK
    <3>2. blocks' \subseteq Block
      BY <1>1, <2>2, <2>3 DEF TypeOK, Block
    <3>3. fault' \in BOOLEAN
      BY <2>3
    <3> QED BY <1>1, <2>3, <2>4, <3>1, <3>2, <3>3 DEF TypeOK
  <2> QED BY <2>3, <2>4, <2>5 DEF HeaderInv
<1>5. ASSUME NEW b \in blocks, ClientWrite(b) PROVE HeaderInv'
  <2>1. b \in Block /\ mem' = Fill(mem, b.off, b.size, b.stamp)
        /\ blocks' = (blocks \ {b}) \cup {[b EXCEPT !.holds = b.stamp]}
        /\ fault' = ~InMapping(b.off, b.size)
        /\ UNCHANGED <<mapped, capacity, current_position, previous_position, marks, clock, leaked>>
    BY <1>1, <1>5 DEF ClientWrite, header, TypeOK
  <2>2. TypeOK'
    <3>1. mem' \in [Addr -> Nat]
      BY <1>1, <2>1, FillType DEF TypeOK, Block
    <3>2. blocks' \subseteq Block
      BY <1>1, <2>1 DEF TypeOK, Block
    <3>3. fault' \in BOOLEAN
      BY <2>1
    <3> QED BY <1>1, <2>1, <3>1, <3>2, <3>3 DEF TypeOK
  <2> QED BY <2>1, <2>2 DEF HeaderInv
<1>6. ASSUME NEW s \in Sizes, arena_pop(s) PROVE HeaderInv'
  <2> DEFINE pos == current_position - (IF s < current_position THEN s ELSE current_position)
  <2>1. pos \in Nat /\ pos <= current_position
    BY <1>1, SizeAssumption
  <2>2. pos \in Reach
    BY <1>1, <2>1, ReachFacts
  <2> QED BY <1>6, <2>2, MoveHeader DEF arena_pop
<1>7. ASSUME NEW p \in 0 .. MaxCapacity, arena_pop_to(p) PROVE HeaderInv'
  BY <1>7, MoveHeader, ReachFacts DEF arena_pop_to
<1>8. CASE arena_clear
  BY <1>1, <1>8, MoveHeader DEF arena_clear
<1>9. ASSUME NEW k \in Marks, temp_arena_begin(k) PROVE HeaderInv'
  <2>1. /\ marks' = [marks EXCEPT ![k] = [start_position |-> current_position, stamp |-> clock]]
        /\ UNCHANGED <<mapped, capacity, current_position, previous_position, mem, blocks,
                       clock, fault, leaked>>
    BY <1>9 DEF temp_arena_begin, MarkHere, header
  <2>2. TypeOK'
    BY <1>1, <2>1 DEF TypeOK
  <2>3. \A j \in Marks : marks'[j] # NoMark => marks'[j].start_position \in Reach
    BY <1>1, <2>1 DEF HeaderInv, TypeOK
  <2> QED BY <2>1, <2>2, <2>3 DEF HeaderInv
<1>10. ASSUME NEW k \in Marks, temp_arena_end(k) PROVE HeaderInv'
  BY <1>10, MoveHeader DEF temp_arena_end, HeaderInv
<1> QED
  BY <1>2, <1>3, <1>4, <1>5, <1>6, <1>7, <1>8, <1>9, <1>10 DEF Next

LEMMA HeaderNext == HeaderInv /\ [ResizeNext]_rvars => HeaderInv'
<1> SUFFICES ASSUME HeaderInv, [ResizeNext]_rvars PROVE HeaderInv'
  OBVIOUS
<1>1. /\ TypeOK /\ current_position \in Reach /\ current_position \in Nat
      /\ previous_position \in Nat /\ capacity \in Nat /\ capacity <= MaxCapacity
      /\ MaxCapacity \in Nat /\ SIZEOF_ARENA \in Nat /\ mapped \in Nat
      /\ \A n \in NewSizes : n \in Nat
  BY ReachFacts, SizeAssumption, WordAssumption, NewSizesAssumption DEF HeaderInv, TypeOK
<1>2. align(current_position, ARENA_ALIGN) = current_position
  BY AlignAssumption DEF align
<1>3. CASE Next /\ UNCHANGED grown
  BY <1>3, HeaderOfArena
<1>4. ASSUME NEW b \in blocks, NEW n \in NewSizes, ResizeInPlace(b, n) PROVE HeaderInv'
  <2>1. /\ b \in Block /\ b.off = previous_position /\ previous_position < capacity
        /\ blocks' = (blocks \ {b}) \cup {[b EXCEPT !.size = n]}
        /\ UNCHANGED <<mapped, marks, clock, leaked>>
    BY <1>1, <1>4 DEF ResizeInPlace, IsLast, Resized, TypeOK
  <2>2. n \in Nat /\ (previous_position + n) % WORD = previous_position + n
    BY <1>1, <2>1, ResizePosition
  <2>3. previous_position + n \in Nat /\ previous_position + n <= MaxCapacity + n
    BY <1>1, <2>1, <2>2
  <2>4. blocks' \subseteq Block
    BY <1>1, <2>1, <2>2 DEF TypeOK, Block
  <2>5. /\ current_position' \in Nat /\ current_position' <= previous_position + n
        /\ previous_position' \in Nat /\ capacity' \in Nat /\ capacity' <= capacity
        /\ mem' \in [Addr -> Nat] /\ fault' \in BOOLEAN
    <3>1. CASE n > b.size
      <4>1. ClearFromHeader(previous_position + n, n - b.size)
        BY <1>4, <2>2, <3>1 DEF ResizeInPlace
      <4>2. n - b.size \in Int /\ n - b.size - U64_BYTES \in Int
            /\ n - b.size - 2 * U64_BYTES \in Int
        BY <2>1, <2>2 DEF Block, U64_BYTES
      <4>3. mem' \in [Addr -> Nat]
        BY <1>1, <4>1, FillType DEF ClearFromHeader, TypeOK
      <4>4. /\ current_position' = ZeroLow(previous_position + n, n - b.size)
            /\ previous_position' = ZeroLow(previous_position, n - b.size - U64_BYTES)
            /\ capacity' = ZeroLow(capacity, n - b.size - 2 * U64_BYTES)
            /\ fault' \in BOOLEAN
        BY <4>1 DEF ClearFromHeader
      <4> QED BY <1>1, <2>3, <4>2, <4>3, <4>4, ZeroLowSmaller
    <3>2. CASE ~(n > b.size)
      BY <1>1, <1>4, <2>2, <2>3, <3>2 DEF ResizeInPlace, TypeOK
    <3> QED BY <3>1, <3>2
  <2>6. TypeOK'
    BY <1>1, <2>1, <2>4, <2>5 DEF TypeOK
  <2>7. current_position' \in Reach
    BY <1>1, <2>2, <2>3, <2>5, ReachFacts
  <2>8. mapped' # 0 => capacity' + SIZEOF_ARENA <= mapped'
    BY <1>1, <2>1, <2>5 DEF HeaderInv
  <2> QED BY <2>1, <2>6, <2>7, <2>8 DEF HeaderInv
<1>5. ASSUME NEW b \in blocks, NEW n \in NewSizes, ResizeByCopy(b, n) PROVE HeaderInv'
  <2> DEFINE new_pos == (current_position + n) % WORD
             cleared == Fill(mem, current_position, n, 0)
  <2>1. /\ UNCHANGED <<mapped, capacity, blocks, marks, clock, leaked>>
        /\ current_position' = IF new_pos <= capacity THEN new_pos ELSE current_position
        /\ previous_position' \in {current_position, previous_position}
        /\ fault' \in BOOLEAN
    BY <1>2, <1>5 DEF ResizeByCopy
  <2>2. new_pos \in Nat
    BY <1>1, WordAssumption, NewSizesAssumption
  <2>3. cleared \in [Addr -> Nat] /\ mem \in [Addr -> Nat]
    BY <1>1, FillType DEF TypeOK
  <2>4. mem' \in [Addr -> Nat]
    <3> HIDE DEF cleared
    <3>1. mem' = mem \/ mem' \in [Addr -> Nat]
      BY <1>2, <1>5, <2>3 DEF ResizeByCopy, cleared
    <3> QED BY <2>3, <3>1
  <2> HIDE DEF new_pos
  <2>5. current_position' \in Reach /\ current_position' \in Nat
    BY <1>1, <2>1, <2>2, ReachFacts
  <2>6. TypeOK'
    BY <1>1, <2>1, <2>4, <2>5 DEF TypeOK
  <2> QED BY <2>1, <2>5, <2>6 DEF HeaderInv
<1>6. ASSUME NEW b \in blocks, NEW n \in NewSizes, ResizeEmpty(b, n) PROVE HeaderInv'
  <2> DEFINE new_pos == (current_position + n) % WORD
  <2>1. /\ UNCHANGED <<mapped, capacity, marks, leaked>>
        /\ previous_position' = current_position
        /\ current_position' = new_pos /\ new_pos <= capacity
        /\ clock' = clock + 1
        /\ mem' = Fill(mem, current_position, n, 0)
        /\ fault' = ~InMapping(current_position, n)
        /\ blocks' = (blocks \ {b}) \cup
             {[off |-> current_position, size |-> n, stamp |-> clock + 1, holds |-> 0]}
    BY <1>2, <1>6 DEF ResizeEmpty
  <2>2. new_pos \in Nat
    BY <1>1, WordAssumption, NewSizesAssumption
  <2> HIDE DEF new_pos
  <2>3. current_position' \in Reach /\ current_position' \in Nat
    BY <1>1, <2>1, <2>2, ReachFacts
  <2>4. mem' \in [Addr -> Nat]
    BY <1>1, <2>1, FillType DEF TypeOK
  <2>5. blocks' \subseteq Block
    BY <1>1, <2>1 DEF TypeOK, Block
  <2>6. TypeOK'
    <3>1. fault' \in BOOLEAN
      BY <2>1
    <3> QED BY <1>1, <2>1, <2>3, <2>4, <2>5, <3>1 DEF TypeOK
  <2> QED BY <2>1, <2>3, <2>6 DEF HeaderInv
<1>7. CASE UNCHANGED rvars
  BY <1>7 DEF rvars, vars, header, HeaderInv, TypeOK
<1> QED BY <1>3, <1>4, <1>5, <1>6, <1>7 DEF ResizeNext

(* Whatever bytes of the header arena_resize_align clears, the header never *)
(* promises more than is mapped.                                            *)
THEOREM HeaderInvariance == ResizeSpec => []HeaderInv
<1>1. ResizeInit => HeaderInv
  <2>1. Init => TypeOK
    BY InitIInv DEF IInv
  <2>2. Init => current_position \in Reach
    BY ReachFacts, SizeAssumption DEF Init
  <2> QED BY <2>1, <2>2 DEF ResizeInit, HeaderInv, Init
<1> QED BY <1>1, HeaderNext, PTL DEF ResizeSpec

(* Even after growing a block has overwritten the header, the MemSet of     *)
(* arena_alloc stays inside the mapping: the header only ever promises less *)
(* than is mapped, and no position is so far off that a request wraps.      *)
THEOREM AllocAlwaysMapped == ResizeSpec => AllocStaysMapped
<1>1. HeaderInv => [(\E s \in Sizes : arena_alloc(s)) => ~fault']_rvars
  BY AllocMapped
<1> QED BY <1>1, HeaderInvariance, PTL DEF AllocStaysMapped

=============================================================================
