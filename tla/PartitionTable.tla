--------------------------- MODULE PartitionTable ---------------------------
(***************************************************************************)
(* The partition list of a sys_disk: disk_read feeds the lines of          *)
(* /proc/partitions to disk_push_partition, which keeps them in an array   *)
(* on the arena that it doubles when it is full (libres/resources.cc).     *)
(*                                                                         *)
(* Arena space is counted in array elements.  Nothing resets the list, so  *)
(* a second disk_read of the same sys_disk appends to it: a behaviour is   *)
(* the lines of any number of reads, one after the other.                  *)
(***************************************************************************)
EXTENDS Integers, Sequences

CONSTANTS
  PART_FIRST,   \* the first capacity: 8 in the code
  NAME_SIZE,    \* sizeof(sys_partition.name): 32 in the code
  PartRoom,     \* elements that fit into the arena
  Devices,      \* the numbers and sizes of partitions, left uninterpreted
  NameLengths,  \* lengths of the names in the file
  MaxPartitionLines  \* bound: well-formed lines read

ASSUME TableAssumption ==
  /\ PART_FIRST \in Nat \ {0}
  /\ NAME_SIZE \in Nat \ {0}
  /\ PartRoom \in Nat
  /\ NameLengths \subseteq Nat
  /\ MaxPartitionLines \in Nat

VARIABLES
  partitions,     \* the array, part_capacity elements long
  part_count,
  part_capacity,
  part_used,      \* arena elements allocated so far
  given           \* what all well-formed lines said, in order

tableVars == <<partitions, part_count, part_capacity, part_used, given>>

ZeroPartition == [device |-> "zero", len |-> 0]

Partition == [device : Devices \cup {"zero"}, len : Nat]

TableInit ==
  /\ partitions = [i \in {} |-> ZeroPartition]
  /\ part_count = 0
  /\ part_capacity = 0
  /\ part_used = 0
  /\ given = <<>>

(* Mutant: room for the terminating zero is forgotten. *)
ParsedLine_overlong(device, len) ==
  [device |-> device, len |-> IF len >= NAME_SIZE THEN NAME_SIZE ELSE len]

(* A long name is cut so that its terminating zero fits. *)
ParsedLine(device, len) ==
  [device |-> device, len |-> IF len >= NAME_SIZE THEN NAME_SIZE - 1 ELSE len]

(* Mutant: the array grows fourfold. *)
NewCap_fourfold == IF part_capacity = 0 THEN PART_FIRST ELSE 4 * part_capacity

NewCap == IF part_capacity = 0 THEN PART_FIRST ELSE 2 * part_capacity

ArrayFull == part_count = part_capacity

(* Mutant: an array that fills the arena exactly is refused. *)
ArrayFits_strictly == part_used + NewCap < PartRoom

ArrayFits == part_used + NewCap <= PartRoom

(* Mutants: the old array is not copied; the new one is too short. *)
GrownArray_no_copy == [i \in 1 .. NewCap |-> ZeroPartition]
GrownArray_short ==
  [i \in 1 .. NewCap - 1 |-> IF i <= part_count THEN partitions[i] ELSE ZeroPartition]

(* PushArray returns zeroed memory, into which the old array is copied. *)
GrownArray ==
  [i \in 1 .. NewCap |-> IF i <= part_count THEN partitions[i] ELSE ZeroPartition]

PushGrowing(p) ==
  /\ ArrayFull /\ ArrayFits
  /\ partitions' = [GrownArray EXCEPT ![part_count + 1] = p]
  /\ part_count' = part_count + 1
  /\ part_capacity' = NewCap
  /\ part_used' = part_used + NewCap

PushInPlace(p) ==
  /\ ~ArrayFull
  /\ partitions' = [partitions EXCEPT ![part_count + 1] = p]
  /\ part_count' = part_count + 1
  /\ UNCHANGED <<part_capacity, part_used>>

(* Without room the partition is dropped and nothing changes. *)
PushDropped ==
  /\ ArrayFull /\ ~ArrayFits
  /\ UNCHANGED <<partitions, part_count, part_capacity, part_used>>

(* A line with four fields.  The header, the empty line below it and a       *)
(* malformed line are passed over and change nothing.                       *)
ReadLine(device, len) ==
  /\ Len(given) < MaxPartitionLines
  /\ given' = Append(given, [device |-> device, len |-> len])
  /\ \/ PushGrowing(ParsedLine(device, len))
     \/ PushInPlace(ParsedLine(device, len))
     \/ PushDropped

TableNext ==
  \E device \in Devices, len \in NameLengths : ReadLine(device, len)

TableSpec == TableInit /\ [][TableNext]_tableVars

-----------------------------------------------------------------------------
(* Properties *)

(* Types; the array is as long as part_capacity says and holds part_count   *)
(* elements or more.                                                        *)
TableTypeOK ==
  /\ part_capacity \in Nat
  /\ part_count \in 0 .. part_capacity
  /\ part_used \in Nat
  /\ partitions \in [1 .. part_capacity -> Partition]
  /\ given \in Seq(Partition)

(* A stored partition is the one of a line: the same device, and its name   *)
(* as far as the field takes it with the terminating zero.                  *)
Keeps(stored, line) ==
  /\ stored.device = line.device
  /\ stored.len < NAME_SIZE
  /\ stored.len <= line.len
  /\ stored.len < line.len => stored.len = NAME_SIZE - 1

(* The list holds the first part_count partitions of the file(s), in order  *)
(* and unharmed by any number of growths; no name loses a character that    *)
(* had room, and none runs over its field.                                  *)
StoredInOrder ==
  /\ part_count <= Len(given)
  /\ \A i \in 1 .. part_count : Keeps(partitions[i], given[i])

(* A partition is dropped only when the doubled array does not fit into the *)
(* arena: the list never has a hole, it ends where the arena did.           *)
DroppedOnlyWhenFull ==
  part_count < Len(given) =>
    /\ part_count = part_capacity
    /\ part_used + (IF part_capacity = 0 THEN PART_FIRST ELSE 2 * part_capacity) > PartRoom

(* Abandoned arrays stay on the arena, yet the arena space grows in         *)
(* proportion to the list: beyond the first array it is below four elements *)
(* for each one stored, a bound reached whenever the array has just grown.  *)
WasteBounded ==
  part_used <= PART_FIRST \/ part_used + PART_FIRST <= 4 * (part_count - 1)

-----------------------------------------------------------------------------
(* The inductive invariant of the proofs *)

(* The arrays allocated so far are PART_FIRST, 2 * PART_FIRST, ... up to    *)
(* part_capacity long, and the last one was allocated because the one       *)
(* before was full.                                                         *)
Geometric ==
  \/ part_capacity = 0 /\ part_used = 0
  \/ /\ part_capacity >= PART_FIRST
     /\ part_used = 2 * part_capacity - PART_FIRST
     /\ part_capacity = PART_FIRST \/ part_capacity <= 2 * (part_count - 1)

TableInv ==
  /\ TableTypeOK /\ StoredInOrder /\ DroppedOnlyWhenFull /\ Geometric

=============================================================================
