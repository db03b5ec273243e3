------------------------ MODULE PartitionTableProofs ------------------------
(***************************************************************************)
(* Theorems about PartitionTable for every arena size, first capacity and  *)
(* sequence of lines.                                                      *)
(***************************************************************************)
EXTENDS PartitionTable, TLAPS

LEMMA ParsedPartition ==
  ASSUME NEW device \in Devices, NEW len \in NameLengths
  PROVE  /\ ParsedLine(device, len) \in Partition
         /\ [device |-> device, len |-> len] \in Partition
         /\ Keeps(ParsedLine(device, len), [device |-> device, len |-> len])
  BY TableAssumption DEF ParsedLine, Partition, Keeps

LEMMA InitTableInv == TableInit => TableInv
<1> SUFFICES ASSUME TableInit PROVE TableInv
  OBVIOUS
<1>1. TableTypeOK
  BY DEF TableInit, TableTypeOK, Partition
<1> QED
  BY <1>1, TableAssumption
  DEF TableInit, TableInv, StoredInOrder, DroppedOnlyWhenFull, Geometric

(* What a line does to the list, whichever way the push went. *)
LEMMA LineTableInv ==
  ASSUME TableInv, NEW device \in Devices, NEW len \in NameLengths, ReadLine(device, len)
  PROVE  TableInv'
<1> DEFINE p == ParsedLine(device, len)
           line == [device |-> device, len |-> len]
<1>1. p \in Partition /\ line \in Partition /\ Keeps(p, line)
  BY ParsedPartition
<1>2. given' = Append(given, line) /\ (PushGrowing(p) \/ PushInPlace(p) \/ PushDropped)
  BY DEF ReadLine
<1> HIDE DEF p, line
<1>3. /\ given \in Seq(Partition) /\ given' \in Seq(Partition)
      /\ Len(given') = Len(given) + 1 /\ given'[Len(given) + 1] = line
      /\ \A i \in 1 .. Len(given) : given'[i] = given[i]
  BY <1>1, <1>2 DEF TableInv, TableTypeOK
<1>4. /\ part_count \in Nat /\ part_capacity \in Nat /\ part_used \in Nat
      /\ partitions \in [1 .. part_capacity -> Partition]
      /\ part_count <= Len(given) /\ part_count <= part_capacity
      /\ \A i \in 1 .. part_count : Keeps(partitions[i], given[i])
  BY DEF TableInv, TableTypeOK, StoredInOrder
<1>5. PART_FIRST \in Nat \ {0} /\ PartRoom \in Nat
  BY TableAssumption
<1>6. CASE PushDropped
  <2>1. UNCHANGED <<partitions, part_count, part_capacity, part_used>> /\ ArrayFull /\ ~ArrayFits
    BY <1>6 DEF PushDropped
  <2>2. TableTypeOK'
    BY <1>3, <1>4, <2>1 DEF TableTypeOK
  <2>3. StoredInOrder'
    BY <1>3, <1>4, <2>1 DEF StoredInOrder
  <2>4. DroppedOnlyWhenFull'
    BY <1>4, <1>5, <2>1 DEF DroppedOnlyWhenFull, ArrayFull, ArrayFits, NewCap
  <2>5. Geometric'
    BY <2>1 DEF TableInv, Geometric
  <2> QED BY <2>2, <2>3, <2>4, <2>5 DEF TableInv
<1>7. ASSUME NEW base, NEW cap \in Nat,
             base \in [1 .. cap -> Partition],
             part_count + 1 <= cap,
             \A i \in 1 .. part_count : base[i] = partitions[i],
             partitions' = [base EXCEPT ![part_count + 1] = p],
             part_count' = part_count + 1,
             part_capacity' = cap,
             part_count = Len(given),
             part_used' \in Nat, Geometric'
      PROVE  TableInv'
  <2>1. TableTypeOK'
    BY <1>1, <1>3, <1>4, <1>7 DEF TableTypeOK
  <2>2. /\ partitions'[part_count + 1] = p
        /\ \A i \in 1 .. part_count : partitions'[i] = partitions[i]
    BY <1>4, <1>7
  <2>3. StoredInOrder'
    <3> SUFFICES ASSUME NEW i \in 1 .. part_count + 1 PROVE Keeps(partitions'[i], given'[i])
      BY <1>3, <1>4, <1>7 DEF StoredInOrder
    <3>1. CASE i = part_count + 1
      BY <3>1, <2>2, <1>1, <1>3, <1>7
    <3>2. CASE i \in 1 .. part_count
      BY <3>2, <2>2, <1>3, <1>4, <1>7
    <3> QED BY <3>1, <3>2, <1>4
  <2>4. DroppedOnlyWhenFull'
    BY <1>3, <1>4, <1>7 DEF DroppedOnlyWhenFull
  <2> QED BY <2>1, <2>3, <2>4, <1>7 DEF TableInv
<1>8. CASE PushInPlace(p)
  <2>1. /\ part_count # part_capacity
        /\ partitions' = [partitions EXCEPT ![part_count + 1] = p]
        /\ part_count' = part_count + 1
        /\ part_capacity' = part_capacity /\ part_used' = part_used
    BY <1>8 DEF PushInPlace, ArrayFull
  <2>2. part_count = Len(given)
    BY <1>3, <1>4, <2>1 DEF TableInv, DroppedOnlyWhenFull
  <2>3. Geometric'
    BY <1>4, <1>5, <2>1 DEF TableInv, Geometric
  <2>4. part_count + 1 <= part_capacity
    BY <1>4, <2>1
  <2> QED BY <1>4, <1>7, <2>1, <2>2, <2>3, <2>4
<1>9. CASE PushGrowing(p)
  <2>1. /\ part_count = part_capacity /\ part_used + NewCap <= PartRoom
        /\ partitions' = [GrownArray EXCEPT ![part_count + 1] = p]
        /\ part_count' = part_count + 1
        /\ part_capacity' = NewCap /\ part_used' = part_used + NewCap
    BY <1>9 DEF PushGrowing, ArrayFull, ArrayFits
  <2>2. NewCap \in Nat /\ part_count + 1 <= NewCap
    BY <1>4, <1>5, <2>1 DEF NewCap
  <2>3. part_count = Len(given)
    BY <1>3, <1>4, <1>5, <2>1, <2>2 DEF TableInv, DroppedOnlyWhenFull, NewCap
  <2>4. Geometric'
    BY <1>4, <1>5, <2>1 DEF TableInv, Geometric, NewCap
  <2>5. GrownArray \in [1 .. NewCap -> Partition]
    BY <1>4, <2>1 DEF GrownArray, Partition, ZeroPartition
  <2>6. \A i \in 1 .. part_count : GrownArray[i] = partitions[i]
    BY <1>4, <2>2 DEF GrownArray
  <2>7. part_used' \in Nat
    BY <1>4, <2>1, <2>2
  <2> QED BY <1>7, <2>1, <2>2, <2>3, <2>4, <2>5, <2>6, <2>7
<1> QED BY <1>2, <1>6, <1>8, <1>9

(* However many lines are read, the inductive invariant holds. *)
THEOREM Invariance == TableSpec => []TableInv
<1>1. TableInit => TableInv
  BY InitTableInv
<1>2. TableInv /\ [TableNext]_tableVars => TableInv'
  <2> SUFFICES ASSUME TableInv, [TableNext]_tableVars PROVE TableInv'
    OBVIOUS
  <2>1. CASE TableNext
    BY <2>1, LineTableInv DEF TableNext
  <2>2. CASE UNCHANGED tableVars
    BY <2>2 DEF tableVars, TableInv, TableTypeOK, StoredInOrder, DroppedOnlyWhenFull, Geometric
  <2> QED BY <2>1, <2>2
<1> QED BY <1>1, <1>2, PTL DEF TableSpec

(* The array has the length part_capacity says and part_count never exceeds *)
(* it, whatever was pushed.                                                 *)
THEOREM TypeCorrect == TableSpec => []TableTypeOK
  BY Invariance, PTL DEF TableInv

(* disk_push_partition keeps the order of the file and every earlier entry  *)
(* across growths, each name as far as its field takes it.                  *)
THEOREM OrderKept == TableSpec => []StoredInOrder
  BY Invariance, PTL DEF TableInv

(* A partition is lost only to a full arena. *)
THEOREM NothingDroppedEarly == TableSpec => []DroppedOnlyWhenFull
  BY Invariance, PTL DEF TableInv

(* The arrays left behind on the arena cost less than four elements for     *)
(* each partition stored.                                                   *)
THEOREM WasteIsBounded == TableSpec => []WasteBounded
<1>1. TableInv => WasteBounded
  BY TableAssumption DEF TableInv, TableTypeOK, Geometric, WasteBounded
<1> QED BY <1>1, Invariance, PTL

=============================================================================
