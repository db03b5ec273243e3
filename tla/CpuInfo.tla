------------------------------- MODULE CpuInfo -------------------------------
(***************************************************************************)
(* cpu_read_amd64 and cpu_read_usage of libres/resources.cc: the lines of  *)
(* /proc/cpuinfo, one block of them per core, copied into one sys_cpu, and *)
(* the counters of /proc/stat.  A caller may read into the same sys_cpu    *)
(* again; vendor and model are then the same, the frequencies are not.     *)
(***************************************************************************)
EXTENDS Parse

CONSTANTS
  FIELD,         \* length of the text fields (vendor 16, model 64, frequency 16)
  StaticValues,  \* texts that stand after "vendor_id" and "model name"
  Frequencies,   \* texts that stand after "cpu MHz"
  CoreCounts,    \* numbers that stand after "cpu cores"
  StatLines,     \* "cpu " lines of /proc/stat: how many numbers, and their values
  MaxLines,      \* bound: lines of /proc/cpuinfo
  MaxReads       \* bound: calls into the same structure

(* The kernel prints vendors of at most 12, models of at most 63 and        *)
(* frequencies of at most 14 characters: every value is shorter than its    *)
(* field.  The sum of the counters is a u64.                                *)
ASSUME CpuAssumption ==
  /\ FIELD \in Nat \ {0} /\ MaxLines \in Nat /\ MaxReads \in Nat
  /\ \A v \in StaticValues \cup Frequencies :
       /\ v \in Seq(Nat \ {NUL, NEWLINE})
       /\ Len(v) < FIELD
  /\ CoreCounts \subseteq Nat
  /\ StatLines \subseteq [fields : Nat, busy : Nat, idle : Nat, iowait : Nat]
  /\ \A line \in StatLines : line.busy + line.idle + line.iowait < U64

VARIABLES
  cpu,        \* the sys_cpu
  cpuinfo,    \* the lines of /proc/cpuinfo at this call
  cpu_line,   \* the line to be read next, 0 between calls, -1 when the process has aborted
  cpu_reads,  \* calls finished
  cpu_first,  \* the sys_cpu after the first call
  stat        \* the line of /proc/stat the usage was taken from

cpuVars == <<cpu, cpuinfo, cpu_line, cpu_reads, cpu_first, stat>>

TextFields == {"vendor", "model", "frequency"}

CpuLine ==
  [key : {"vendor", "model"}, value : StaticValues]
    \cup [key : {"frequency"}, value : Frequencies]
    \cup [key : {"cores"}, value : {Decimal[n] : n \in CoreCounts}]
    \cup [key : {"other", "no_colon"}, value : {<<>>}]

(* The lines of the file that carry the given field. *)
LinesOf(key) == {i \in DOMAIN cpuinfo : cpuinfo[i].key = key}

ZeroCpu ==
  [vendor |-> Zeroes(FIELD), model |-> Zeroes(FIELD), frequency |-> Zeroes(FIELD),
   cores |-> 0, total_time |-> 0, idle_time |-> 0]

NoStat == [fields |-> 0, busy |-> 0, idle |-> 0, iowait |-> 0]

(* cpu_create: the arena gives zeroed memory. *)
CpuStart(file) ==
  /\ cpu = ZeroCpu
  /\ cpuinfo = file
  /\ cpu_line = 0 /\ cpu_reads = 0
  /\ cpu_first = ZeroCpu
  /\ stat = NoStat

(* The cores of a machine are of one vendor. *)
CpuInit ==
  \E n \in 0 .. MaxLines : \E file \in [1 .. n -> CpuLine] :
    /\ \A i, j \in 1 .. n : file[i].key = "vendor" /\ file[j].key = "vendor" => file[i] = file[j]
    /\ CpuStart(file)

(* At every call the frequencies may be others; the rest of the file is not. *)
CpuBegin(now) ==
  /\ cpu_line = 0 /\ cpu_reads < MaxReads
  /\ cpuinfo' = [i \in DOMAIN cpuinfo |->
                   IF i \in DOMAIN now THEN [cpuinfo[i] EXCEPT !.value = now[i]] ELSE cpuinfo[i]]
  /\ cpu_line' = 1
  /\ UNCHANGED <<cpu, cpu_reads, cpu_first, stat>>

(* A NULL argument, or a file that cannot be opened: assert(0), in either   *)
(* reader, before anything is written.                                      *)
CpuAborts ==
  /\ cpu_line = 0 /\ (cpu_reads < MaxReads \/ stat = NoStat)
  /\ cpu_line' = -1
  /\ UNCHANGED <<cpu, cpuinfo, cpu_reads, cpu_first, stat>>

(* Mutant: the length of the buffer is copied, not that of the value. *)
Stored_overlong(field, value) == MemCpy(field, value \o [i \in 1 .. FIELD |-> SPACE])

(* Mutant: the field is cleared before the copy. *)
Stored_cleared(field, value) == MemCpy(Zeroes(FIELD), value)

(* The three memcpy: no terminating zero is written. *)
Stored(field, value) == MemCpy(field, value)

(* Mutant: the lines are counted. *)
CoresOf_counted(line) == cpu.cores + 1

(* The whole line goes to parse_u64, not the part after the colon. *)
CoresOf(line) == parse_u64(<<99, 112, 117, SPACE>> \o line.value, 4 + Len(line.value))

CpuReadLine ==
  /\ cpu_line \in DOMAIN cpuinfo
  /\ LET line == cpuinfo[cpu_line]
     IN  cpu' = IF line.key \in TextFields
                THEN [cpu EXCEPT ![line.key] = Stored(@, line.value)]
                ELSE IF line.key = "cores" THEN [cpu EXCEPT !.cores = CoresOf(line)] ELSE cpu
  /\ cpu_line' = cpu_line + 1
  /\ UNCHANGED <<cpuinfo, cpu_reads, cpu_first, stat>>

CpuEnd ==
  /\ cpu_line = Len(cpuinfo) + 1
  /\ cpu_line' = 0 /\ cpu_reads' = cpu_reads + 1
  /\ cpu_first' = IF cpu_reads = 0 THEN cpu ELSE cpu_first
  /\ UNCHANGED <<cpu, cpuinfo, stat>>

(* cpu_read_usage: a "cpu " line with fewer than eight numbers changes      *)
(* nothing.  busy stands for the six counters that are not idle time.       *)
cpu_read_usage(line) ==
  /\ cpu_line = 0 /\ stat = NoStat
  /\ stat' = line
  /\ cpu' = IF line.fields < 8 THEN cpu
            ELSE [cpu EXCEPT !.idle_time = (line.idle + line.iowait) % U64,
                             !.total_time = (line.busy + line.idle + line.iowait) % U64]
  /\ UNCHANGED <<cpuinfo, cpu_line, cpu_reads, cpu_first>>

CpuNext ==
  \/ \E now \in [LinesOf("frequency") -> Frequencies] : CpuBegin(now)
  \/ CpuReadLine
  \/ CpuEnd
  \/ CpuAborts
  \/ \E line \in StatLines : cpu_read_usage(line)

CpuSpec == CpuInit /\ [][CpuNext]_cpuVars

-----------------------------------------------------------------------------
(* Properties *)

CpuRead == cpu_line = 0 /\ cpu_reads > 0

LastOf(key) == CHOOSE i \in LinesOf(key) : \A j \in LinesOf(key) : j <= i

(* Types; every text ends inside its field although cpu_read_amd64 never    *)
(* writes a terminating zero, and idle time is a part of the total.         *)
CpuTypeOK ==
  /\ \A f \in TextFields : cpu[f] \in Seq(Nat) /\ Len(cpu[f]) = FIELD /\ cpu[f][FIELD] = NUL
  /\ cpu.cores \in Nat /\ cpu.total_time \in Nat /\ cpu.idle_time \in 0 .. cpu.total_time
  /\ cpu_line \in -1 .. Len(cpuinfo) + 1 /\ cpu_reads \in 0 .. MaxReads

(* After the first cpu_read_amd64 a text field holds the value of its last  *)
(* line exactly when no line before it had a longer one; otherwise the tail *)
(* of a longer value follows, a text no line of the file has.               *)
TextOfLastUnlessLonger ==
  cpu_line = 0 /\ cpu_reads = 1 =>
    \A f \in TextFields :
      LinesOf(f) # {} =>
        LET last == cpuinfo[LastOf(f)].value
        IN  (Text(cpu[f]) = last)
              <=> (\A i \in LinesOf(f) : Len(cpuinfo[i].value) <= Len(last))

(* "The function reads the first occurrence of each field": after a         *)
(* cpu_read_amd64 into zeroed memory a text field holds the value of the    *)
(* first line that names it.                                                *)
FirstOccurrence ==
  cpu_line = 0 /\ cpu_reads = 1 =>
    \A f \in TextFields : \A i \in LinesOf(f) :
      (\A j \in LinesOf(f) : i <= j) => Text(cpu[f]) = cpuinfo[i].value

(* Reading again into the same structure leaves vendor, model and cores as  *)
(* they were after the first time, whatever tails the first left and        *)
(* whatever the frequencies do (test_cpu_read_idempotent).                  *)
StaticFieldsIdempotent ==
  CpuRead => /\ cpu.vendor = cpu_first.vendor
             /\ cpu.model = cpu_first.model
             /\ cpu.cores = cpu_first.cores

-----------------------------------------------------------------------------
(* The inductive invariant of the proofs: what each byte of a text field    *)
(* and the number of cores hold after the lines before cpu_line.            *)

(* The lines before k with a value for the field that reaches byte i. *)
Reaching(file, f, i, k) ==
  {j \in DOMAIN file : j < k /\ file[j].key = f /\ Len(file[j].value) >= i}

(* Byte i holds x after the lines before k: that of the last line that      *)
(* reaches it, or what was there before the call.                           *)
ByteAfter(file, f, i, k, x, old) ==
  \/ Reaching(file, f, i, k) = {} /\ x = old
  \/ \E m \in Reaching(file, f, i, k) :
       (\A j \in Reaching(file, f, i, k) : j <= m) /\ x = file[m].value[i]

CoresBefore(file, k) == {j \in DOMAIN file : j < k /\ file[j].key = "cores"}

CoresAfter(file, k, x, old) ==
  \/ CoresBefore(file, k) = {} /\ x = old
  \/ \E m \in CoresBefore(file, k) :
       (\A j \in CoresBefore(file, k) : j <= m) /\ x = CoresOf(file[m])

CpuShape ==
  /\ cpuinfo \in Seq(CpuLine)
  /\ cpu_line \in -1 .. Len(cpuinfo) + 1 /\ cpu_reads \in Nat
  /\ DOMAIN cpu = DOMAIN ZeroCpu
  /\ \A f \in TextFields : cpu[f] \in Seq(Nat) /\ Len(cpu[f]) = FIELD
  /\ \A f \in TextFields : cpu_first[f] \in Seq(Nat) /\ Len(cpu_first[f]) = FIELD

(* The lines passed in the current call, all of them between calls. *)
Passed ==
  IF cpu_line > 0 THEN cpu_line ELSE IF cpu_reads > 0 THEN Len(cpuinfo) + 1 ELSE 0

(* The first call starts from zeroes. *)
FirstRead ==
  (cpu_reads = 0 \/ (cpu_reads = 1 /\ cpu_line = 0)) =>
    /\ \A f \in TextFields : \A i \in 1 .. FIELD :
         ByteAfter(cpuinfo, f, i, Passed, cpu[f][i], NUL)
    /\ CoresAfter(cpuinfo, Passed, cpu.cores, 0)

(* A later call starts from what the first one left. *)
LaterRead ==
  cpu_reads > 0 =>
    /\ \A f \in {"vendor", "model"} : \A i \in 1 .. FIELD :
         /\ ByteAfter(cpuinfo, f, i, Len(cpuinfo) + 1, cpu_first[f][i], NUL)
         /\ ByteAfter(cpuinfo, f, i, Passed, cpu[f][i], cpu_first[f][i])
    /\ CoresAfter(cpuinfo, Len(cpuinfo) + 1, cpu_first.cores, 0)
    /\ CoresAfter(cpuinfo, Passed, cpu.cores, cpu_first.cores)

CpuInv == CpuShape /\ FirstRead /\ LaterRead

(* The types, and that a call begins only below the bound. *)
CpuTypeInv == CpuTypeOK /\ (cpu_line > 0 => cpu_reads < MaxReads)

=============================================================================
