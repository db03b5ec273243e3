----------------------------- MODULE ArenaResize -----------------------------
(***************************************************************************)
(* Arena with arena_resize / arena_resize_align.  A client resizes a block *)
(* it holds, passing the size it has.  (old_memory = NULL is arena_alloc.) *)
(*                                                                         *)
(* Growing in place runs MemSet over the header of the arena instead of    *)
(* over the new bytes; base_position, the last field, is only read after a *)
(* comparison with a capacity that is 0 by then, so it is not modelled.    *)
(***************************************************************************)
EXTENDS Arena

CONSTANT NewSizes   \* sizes blocks are resized to

(* As for Sizes, with room for a request after a block was grown. *)
ASSUME NewSizesAssumption ==
  /\ NewSizes \subseteq Nat
  /\ \A n \in NewSizes : \A s \in Sizes \cup NewSizes : MaxCapacity + n + s < WORD

VARIABLE grown      \* a block has been grown in place

rvars == <<vars, grown>>

U64_BYTES == 8

(* 256 ^ k, of numbers that fit the tools *)
BytePower(k) == 16 ^ k * 16 ^ k

(* A little-endian u64 whose first k bytes memset has cleared. *)
ZeroLow(v, k) ==
  IF k <= 0 THEN v ELSE IF k >= U64_BYTES THEN 0 ELSE v - (v % BytePower(k))

(* memset(&arena->current_position, 0, extra): the fields in declaration    *)
(* order, then the data.                                                    *)
ClearFromHeader(pos, extra) ==
  /\ current_position' = ZeroLow(pos, extra)
  /\ previous_position' = ZeroLow(previous_position, extra - U64_BYTES)
  /\ capacity' = ZeroLow(capacity, extra - 2 * U64_BYTES)
  /\ mem' = Fill(mem, 0, extra - SIZEOF_ARENA, 0)
  /\ fault' = (extra > mapped)

Resized(b, n) == (blocks \ {b}) \cup {[b EXCEPT !.size = n]}

(* Mutant: any block is resized as if it were the last one. *)
IsLast_any(b) == TRUE

IsLast(b) == b.off = previous_position

(* The block starts at previous_position: it is the last one allocated.     *)
(* Neither branch compares the new position with the capacity.              *)
ResizeInPlace(b, n) ==
  LET pos == (previous_position + n) % WORD
  IN  /\ Running
      /\ b.size # 0
      /\ b.off < capacity
      /\ IsLast(b)
      /\ IF n > b.size
         THEN ClearFromHeader(pos, n - b.size)
         ELSE /\ current_position' = pos
              /\ UNCHANGED <<previous_position, capacity, mem, fault>>
      /\ blocks' = Resized(b, n)
      /\ grown' = (grown \/ n > b.size)
      /\ UNCHANGED <<mapped, marks, clock, leaked>>

(* Any other block is copied to fresh memory, which the caller never        *)
(* receives: the branch falls through to return NULL.  Without room the     *)
(* copy goes to NULL.                                                       *)
ResizeByCopy(b, n) ==
  LET aligned == align(current_position, ARENA_ALIGN)
      new_pos == (aligned + n) % WORD
      copy_size == IF b.size < n THEN b.size ELSE n
      fits == new_pos <= capacity
      cleared == Fill(mem, aligned, n, 0)
      Source(a) == b.off + (a - aligned)
  IN  /\ Running
      /\ b.size # 0
      /\ b.off < capacity
      /\ ~IsLast(b)
      /\ previous_position' = IF fits THEN current_position ELSE previous_position
      /\ current_position' = IF fits THEN new_pos ELSE current_position
      /\ mem' = IF fits
                THEN [a \in DOMAIN mem |->
                        IF aligned <= a /\ a < aligned + copy_size /\ Source(a) \in DOMAIN mem
                        THEN cleared[Source(a)]
                        ELSE cleared[a]]
                ELSE mem
      /\ fault' = (copy_size > 0 /\ (~fits \/ ~InMapping(b.off, copy_size)))
      /\ UNCHANGED <<mapped, capacity, blocks, marks, clock, leaked, grown>>

(* old_size = 0: a plain allocation takes the place of the empty block. *)
ResizeEmpty(b, n) ==
  LET aligned == align(current_position, ARENA_ALIGN)
      new_pos == (aligned + n) % WORD
  IN  /\ Running
      /\ b.size = 0
      /\ new_pos <= capacity
      /\ clock < MaxAllocs
      /\ previous_position' = current_position
      /\ current_position' = new_pos
      /\ clock' = clock + 1
      /\ fault' = ~InMapping(aligned, n)
      /\ mem' = Fill(mem, aligned, n, 0)
      /\ blocks' = (blocks \ {b}) \cup
           {[off |-> aligned, size |-> n, stamp |-> clock + 1, holds |-> 0]}
      /\ UNCHANGED <<mapped, capacity, marks, leaked, grown>>

ResizeInit == Init /\ grown = FALSE

ResizeNext ==
  \/ Next /\ UNCHANGED grown
  \/ \E b \in blocks, n \in NewSizes : ResizeInPlace(b, n)
  \/ \E b \in blocks, n \in NewSizes : ResizeByCopy(b, n)
  \/ \E b \in blocks, n \in NewSizes : ResizeEmpty(b, n)

ResizeSpec == ResizeInit /\ [][ResizeNext]_rvars

-----------------------------------------------------------------------------
(* Properties *)

(* Shrinking in place and copying leave every client's block apart from     *)
(* the others, in bounds and as its client left it, and arena_destroy       *)
(* unmaps everything: only growing a block in place can spoil the arena.    *)
SoundUntilGrown ==
  ~grown => /\ ~leaked
            /\ ~fault => BlocksInBounds /\ BlocksDisjoint /\ ContentsIntact

(* Even in an arena whose header was overwritten, the MemSet of arena_alloc *)
(* stays inside the mapping.                                                *)
AllocStaysMapped ==
  [][(\E s \in Sizes : arena_alloc(s)) => ~fault']_rvars

-----------------------------------------------------------------------------
(* The inductive invariants of the proofs *)

(* Of the blocks that are held none starts above previous_position and none *)
(* reaches across it, so a block that starts there is the last one.         *)
LastBlock ==
  \A b \in blocks :
    b.off <= previous_position /\ (b.off < previous_position => b.off + b.size <= previous_position)

(* Until a block is grown the arena is as Arena says, or the copy of a      *)
(* resize that found no room has brought the process down.                  *)
ResizeInv == grown \/ (fault /\ ~leaked) \/ (IInv /\ LastBlock)

(* Positions at which a request does not wrap around *)
Reach == {x \in Nat : \E n \in NewSizes \cup {0} : x <= MaxCapacity + n}

(* Whatever was overwritten, the header never promises more than is mapped, *)
(* and no position is far beyond the capacity.                              *)
HeaderInv ==
  /\ TypeOK
  /\ mapped # 0 => capacity + SIZEOF_ARENA <= mapped
  /\ current_position \in Reach
  /\ \A k \in Marks : marks[k] # NoMark => marks[k].start_position \in Reach

=============================================================================
