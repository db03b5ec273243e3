----------------------------- MODULE ProcStatus ------------------------------
(***************************************************************************)
(* process_read of libres/resources.cc byte by byte: the sys_process of a  *)
(* list entry starts with name[16], the byte num_threads follows, then     *)
(* padding, the times, and pid.  The kernel shows names of up to 39        *)
(* characters, newer ones longer (a worker thread with its work), and      *)
(* nothing looks at the length.                                            *)
(*                                                                         *)
(* The process may exit between fopen and the first fgets: the file is     *)
(* then empty.  An entry may be read again, for another process.           *)
(***************************************************************************)
EXTENDS Parse

CONSTANTS
  NAME,          \* sizeof name: 16 in the code
  BEFORE_PID,    \* offset of pid: 40 in the code
  I8,            \* 2^8 in the code
  TaskNames,     \* names the kernel shows
  ThreadCounts,  \* numbers of threads
  MaxStatusReads \* bound: reads of the entry

(* The characters of a name are bytes.  What an i8 holds is a u64 and has   *)
(* at most eight digits.                                                    *)
ASSUME StatusAssumption ==
  /\ NAME \in Nat \ {0} /\ BEFORE_PID \in Nat /\ NAME < BEFORE_PID
  /\ I8 \in Nat \ {0} /\ I8 % 2 = 0 /\ I8 <= U64 /\ I8 <= 100000000
  /\ \A n \in TaskNames : n \in Seq((1 .. I8 - 1) \ {NEWLINE})
  /\ ThreadCounts \subseteq Nat \ {0} /\ TaskNames # {} /\ ThreadCounts # {}
  /\ MaxStatusReads \in Nat

VARIABLES
  entry,       \* the bytes before pid, and pid
  task,        \* the process that is read
  st_pc,       \* "idle", "opened", or the line that comes next
  st_result,   \* what the last process_read returned
  st_lived,    \* the process was there when the file was read
  st_reads     \* calls so far

stVars == <<entry, task, st_pc, st_result, st_lived, st_reads>>

Task == [pid : {1, 2}, name : TaskNames, threads : ThreadCounts]

StatusInit ==
  /\ entry = [bytes |-> Zeroes(BEFORE_PID), pid |-> 0]
  /\ task = CHOOSE t \in Task : TRUE
  /\ st_pc = "idle" /\ st_result = "none" /\ st_lived = FALSE /\ st_reads = 0

(* fopen fails when the process is gone; otherwise pid is stored. *)
StatusOpen(t) ==
  /\ st_pc = "idle" /\ st_reads < MaxStatusReads
  /\ st_reads' = st_reads + 1
  /\ task' = t
  /\ entry' = [entry EXCEPT !.pid = t.pid]
  /\ st_pc' = "opened" /\ st_result' = "none" /\ st_lived' = FALSE

StatusOpenFails ==
  /\ st_pc = "idle" /\ st_reads < MaxStatusReads
  /\ st_reads' = st_reads + 1
  /\ st_result' = "ERR_IO" /\ st_lived' = FALSE
  /\ UNCHANGED <<entry, task, st_pc>>

(* The kernel prints the whole file at the first read, or nothing. *)
StatusFirstRead ==
  /\ st_pc = "opened"
  /\ \E lives \in BOOLEAN : st_lived' = lives /\ st_pc' = IF lives THEN "Name" ELSE "close"
  /\ UNCHANGED <<entry, task, st_result, st_reads>>

(* Mutant: no terminating zero. *)
WithName_unterminated(bytes) == MemCpy(bytes, task.name)

WithName(bytes) == CopyText(bytes, task.name)

(* A name that does not end before pid, with its zero, runs over it: pid is *)
(* then whatever number the characters make.                                *)
PidsWithName == IF Len(task.name) < BEFORE_PID THEN {entry.pid} ELSE {0, 1, 2}

(* Name comes before Threads in the file; State is in between and outside   *)
(* of the bytes looked at here (see ProcessList), as is the next entry,     *)
(* which a name of 48 characters reaches.                                   *)
StatusName ==
  /\ st_pc = "Name" /\ st_pc' = "Threads"
  /\ \E pid \in PidsWithName : entry' = [bytes |-> WithName(entry.bytes), pid |-> pid]
  /\ UNCHANGED <<task, st_result, st_lived, st_reads>>

(* sizeof(val) is the size of a pointer, 8; the number becomes an i8. *)
ThreadsOf(val) == parse_u64(val, 8) % I8

StatusThreads ==
  /\ st_pc = "Threads" /\ st_pc' = "close"
  /\ entry' = [entry EXCEPT !.bytes[NAME + 1] = ThreadsOf(Append(Decimal[task.threads], NEWLINE))]
  /\ UNCHANGED <<task, st_result, st_lived, st_reads>>

(* The result is that of fclose. *)
StatusClose ==
  /\ st_pc = "close" /\ st_pc' = "idle"
  /\ st_result' \in {"ERR_OK", "ERR_IO"}
  /\ UNCHANGED <<entry, task, st_lived, st_reads>>

StatusNext ==
  \/ \E t \in Task : StatusOpen(t)
  \/ StatusOpenFails \/ StatusFirstRead \/ StatusName \/ StatusThreads \/ StatusClose

StatusSpec == StatusInit /\ [][StatusNext]_stVars

-----------------------------------------------------------------------------
(* Properties *)

(* The value of the byte num_threads as an i8. *)
num_threads == LET b == entry.bytes[NAME + 1] IN IF b < I8 \div 2 THEN b ELSE b - I8

(* Types; the entry keeps its length and its bytes are bytes. *)
StatusTypeOK ==
  /\ entry.bytes \in Seq(0 .. I8 - 1) /\ Len(entry.bytes) = BEFORE_PID
  /\ entry.pid \in {0, 1, 2}
  /\ task \in Task
  /\ st_pc \in {"idle", "opened", "Name", "Threads", "close"}
  /\ st_result \in {"none", "ERR_OK", "ERR_IO"} /\ st_lived \in BOOLEAN
  /\ st_reads \in 0 .. MaxStatusReads

(* The entry holds the process: its pid unless the name runs over it, the   *)
(* number of threads if an i8 can hold it, and the name: all of it when it  *)
(* is shorter than the field, the first NAME characters when not.           *)
HoldsTask ==
  /\ Len(task.name) < BEFORE_PID => entry.pid = task.pid
  /\ Len(task.name) < NAME => Text(entry.bytes) = task.name
  /\ Len(task.name) >= NAME => SubSeq(Text(entry.bytes), 1, NAME) = SubSeq(task.name, 1, NAME)
  /\ task.threads < I8 \div 2 => num_threads = task.threads

(* When process_read returns ERR_OK for a process that was there when its   *)
(* file was read, the entry holds the process, also the number of threads   *)
(* although a long name ran over that byte.  None of it depends on what the *)
(* entry held before.                                                       *)
EntryOfProcess == st_result = "ERR_OK" /\ st_lived => HoldsTask

-----------------------------------------------------------------------------
(* The inductive invariant of the proofs *)

(* The name and its zero stand at the start of the entry, as far as they    *)
(* come before pid.                                                         *)
NameCopied ==
  /\ \A i \in 1 .. BEFORE_PID : i <= Len(task.name) => entry.bytes[i] = task.name[i]
  /\ Len(task.name) < BEFORE_PID => entry.bytes[Len(task.name) + 1] = NUL

StatusInv ==
  /\ StatusTypeOK /\ DOMAIN entry = {"bytes", "pid"}
  /\ st_pc # "idle" => st_result = "none"
  /\ st_pc \in {"opened", "Name"} => entry.pid = task.pid
  /\ st_pc = "Threads" /\ Len(task.name) < BEFORE_PID => entry.pid = task.pid
  /\ st_pc = "Threads" => NameCopied
  /\ st_lived /\ (st_pc = "close" \/ st_result = "ERR_OK") => HoldsTask

=============================================================================
