------------------------------- MODULE MemInfo -------------------------------
(***************************************************************************)
(* sys_ram_read of libres/resources.cc: two lines of /proc/meminfo are     *)
(* copied into a scratch arena and parsed after the file has ended.  The   *)
(* local pointers are not initialised: what a file without one of the      *)
(* lines leads to is any number, or a fault.                               *)
(***************************************************************************)
EXTENDS Parse

CONSTANTS
  Amounts,       \* kilobytes that the kernel prints
  Garbage,       \* numbers an uninitialised pointer may lead to
  MaxMemLines    \* bound: lines of /proc/meminfo

ASSUME MemAssumption ==
  /\ MaxMemLines \in Nat
  /\ Amounts \cup Garbage \subseteq 0 .. U64 - 1

VARIABLES
  ram,           \* the sys_memory
  meminfo,       \* the lines of /proc/meminfo
  mem_line,      \* the line to be read next, 0 before and after
  mem_buffers,   \* total_buffer and free_buffer: the copied text, or Unset
  mem_end        \* "no", "ok" or "fault"

memVars == <<ram, meminfo, mem_line, mem_buffers, mem_end>>

MemKeys == {"total", "free"}

(* A line with its amount, and the text after the colon and the blanks. *)
MemLine == [key : MemKeys, kb : Amounts] \cup [key : {"other", "no_colon"}, kb : {0}]

Value(line) == Decimal[line.kb] \o <<SPACE, 107, 66, NEWLINE>>

Unset == <<NUL>>

MemStart(file) ==
  /\ ram = [total |-> 0, free |-> 0]
  /\ meminfo = file
  /\ mem_line = 1
  /\ mem_buffers = [k \in MemKeys |-> Unset]
  /\ mem_end = "no"

MemInit == \E n \in 0 .. MaxMemLines : \E file \in [1 .. n -> MemLine] : MemStart(file)

(* Mutant: the copy ends with the digit before the last. *)
Cut_short(value) == SubSeq(value, 1, FirstIn(value, {107, NEWLINE}) - 3)

(* strcspn(val, "k\n"): the blank before kB is copied too. *)
Cut(value) == SubSeq(value, 1, FirstIn(value, {107, NEWLINE}) - 1)

MemReadLine ==
  /\ mem_end = "no" /\ mem_line \in DOMAIN meminfo
  /\ LET line == meminfo[mem_line]
     IN  mem_buffers' = IF line.key \in MemKeys
                        THEN [mem_buffers EXCEPT ![line.key] = Cut(Value(line))]
                        ELSE mem_buffers
  /\ mem_line' = mem_line + 1
  /\ UNCHANGED <<ram, meminfo, mem_end>>

(* The two parse_u64 after the loop. *)
Parsed(k) ==
  IF mem_buffers[k] = Unset THEN Garbage
  ELSE {parse_u64(mem_buffers[k], Len(mem_buffers[k]))}

MemEnd ==
  /\ mem_end = "no" /\ mem_line = Len(meminfo) + 1
  /\ \E t \in Parsed("total"), f \in Parsed("free") : ram' = [total |-> t, free |-> f]
  /\ mem_end' = "ok"
  /\ UNCHANGED <<meminfo, mem_line, mem_buffers>>

MemFault ==
  /\ mem_end = "no" /\ mem_line = Len(meminfo) + 1
  /\ \E k \in MemKeys : mem_buffers[k] = Unset
  /\ mem_end' = "fault"
  /\ UNCHANGED <<ram, meminfo, mem_line, mem_buffers>>

MemNext == MemReadLine \/ MemEnd \/ MemFault

MemSpec == MemInit /\ [][MemNext]_memVars

-----------------------------------------------------------------------------
(* Properties *)

(* The amounts in the lines of the given key. *)
Printed(k) == {meminfo[i].kb : i \in {j \in DOMAIN meminfo : meminfo[j].key = k}}

(* When both lines are in the file, in either order and among any others,   *)
(* sys_ram_read does not fault and stores the very amounts the kernel       *)
(* printed: copying, cutting at "k" and parsing lose nothing.               *)
AmountsExact ==
  Printed("total") # {} /\ Printed("free") # {} =>
    /\ mem_end # "fault"
    /\ mem_end = "ok" => ram.total \in Printed("total") /\ ram.free \in Printed("free")

-----------------------------------------------------------------------------
(* The inductive invariant of the proofs *)

(* A buffer is unset as long as none of its lines has been read, and holds  *)
(* the copy of one of them from then on.                                    *)
Buffered(k) ==
  \/ mem_buffers[k] = Unset /\ \A i \in 1 .. mem_line - 1 : meminfo[i].key # k
  \/ \E i \in 1 .. mem_line - 1 :
       meminfo[i].key = k /\ mem_buffers[k] = Cut(Value(meminfo[i]))

MemInv ==
  /\ meminfo \in Seq(MemLine) /\ mem_line \in 1 .. Len(meminfo) + 1
  /\ DOMAIN mem_buffers = MemKeys
  /\ \A k \in MemKeys : Buffered(k)
  /\ AmountsExact

=============================================================================
