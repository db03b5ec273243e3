---------------------------- MODULE MCComponents -----------------------------
(***************************************************************************)
(* The readers and their tables, the stack allocator, the port reader and  *)
(* the key generation share no state and never run into each other: one    *)
(* instance chooses the component that runs, and the others stay where     *)
(* they start.                                                             *)
(***************************************************************************)
EXTENDS CpuInfo, MemInfo, ProcStatus, ProcFile, DeviceInfo, ArmCpu, Stack, Ports, Keys,
        PartitionTable, ProcessList

VARIABLE runs

allVars ==
  <<cpuVars, memVars, stVars, pfVars, devVars, armVars, stackVars, portVars, keysVars,
    tableVars, listVars, runs>>

(* Values of different lengths that differ in every character. *)
MCStaticValues == {<<97>>, <<98, 99>>}
MCFrequencies == {<<49>>, <<50, 51>>, <<52, 53>>}
MCStatLines ==
  {[fields |-> 8, busy |-> 1, idle |-> 3, iowait |-> 2],
   [fields |-> 8, busy |-> 0, idle |-> 0, iowait |-> 4],
   [fields |-> 7, busy |-> 5, idle |-> 1, iowait |-> 1]}
(* Shorter than the field, as long, one longer, up to pid and over it. *)
MCTaskNames == {<<97>>, <<97, 98>>, <<97, 98, 99>>, <<99, 98, 97, 98>>, <<97, 98, 99, 100, 101>>,
                <<97, 98, 99, 100, 101, 102>>}
(* Every file of up to six characters, and three lines: one entry too many. *)
MCLines == {<<97, COLON, NEWLINE>>, <<97, 98, COLON, 99, NEWLINE>>, <<97, NEWLINE>>,
            <<COLON, 97, NEWLINE>>, <<97, 98, 97, COLON, SPACE, SPACE, 98, 99, 98, NEWLINE>>}
MCProcFiles ==
  UNION {[1 .. n -> {97, COLON, SPACE, NEWLINE}] : n \in 0 .. 6}
    \cup {l[1] \o l[2] \o l[3] : l \in [1 .. 3 -> MCLines]}
MCOsNames ==
  {<<97>>, <<QUOTE, 97>>, <<QUOTE, 97, 98, QUOTE>>, <<QUOTE, QUOTE, 97>>, <<98, QUOTE, 97, QUOTE, QUOTE>>}
MCProcVersion == <<97, 98>>
(* Nothing, newlines alone, a newline in front of something, after it. *)
MCPortFiles == {<<>>, <<97>>, <<10>>, <<10, 10>>, <<10, 10, 97>>, <<97, 10>>}
(* One core, a row, a gap; 3 and 4 are out of reach of the loop variable. *)
MCCoreLists == {{0}, {0, 1}, {0, 2}, {1, 2}, {0, 3}, {0, 4}}
(* Nothing, shorter than the field, as long, up to the end of the structure, longer. *)
MCBoards ==
  {<<>>, <<97>>, <<97, 98>>, <<97, 98, 99>>, <<97, 98, 99, 100, 101>>, <<97, 98, 99, 100, 101, 102>>}
(* Core 1 has no frequency. *)
MCSpeeds == [c \in {0, 2, 3} |-> 8 + c]

Components == {"cpu", "mem", "status", "file", "device", "arm", "stack", "ports", "keys", "table",
  "list"}

Init ==
  /\ runs \in Components
  /\ IF runs = "cpu" THEN CpuInit ELSE CpuStart(<<>>)
  /\ IF runs = "mem" THEN MemInit ELSE MemStart(<<>>)
  /\ StatusInit
  /\ IF runs = "file" THEN ProcFileInit ELSE ProcFileStart(<<>>, 0)
  /\ IF runs = "device" THEN DeviceInit ELSE DeviceStart(<<>>)
  /\ IF runs = "arm" THEN ArmInit ELSE ArmStart({0}, <<>>)
  /\ StackInit
  /\ PortInit
  /\ KeysInit
  /\ TableInit
  /\ IF runs = "list" THEN ListInit ELSE ListStart([p \in Pids |-> "none"])

Next ==
  /\ UNCHANGED runs
  /\ \/ runs = "cpu" /\ CpuNext
       /\ UNCHANGED <<memVars, stVars, pfVars, devVars, armVars,
                     stackVars, portVars, keysVars, tableVars, listVars>>
     \/ runs = "mem" /\ MemNext
       /\ UNCHANGED <<cpuVars, stVars, pfVars, devVars, armVars,
                     stackVars, portVars, keysVars, tableVars, listVars>>
     \/ runs = "status" /\ StatusNext
       /\ UNCHANGED <<cpuVars, memVars, pfVars, devVars, armVars,
                     stackVars, portVars, keysVars, tableVars, listVars>>
     \/ runs = "file" /\ ProcFileNext
       /\ UNCHANGED <<cpuVars, memVars, stVars, devVars, armVars,
                     stackVars, portVars, keysVars, tableVars, listVars>>
     \/ runs = "device" /\ DeviceNext
       /\ UNCHANGED <<cpuVars, memVars, stVars, pfVars, armVars,
                     stackVars, portVars, keysVars, tableVars, listVars>>
     \/ runs = "arm" /\ ArmNext
       /\ UNCHANGED <<cpuVars, memVars, stVars, pfVars, devVars,
                     stackVars, portVars, keysVars, tableVars, listVars>>
     \/ runs = "stack" /\ StackNext
       /\ UNCHANGED <<cpuVars, memVars, stVars, pfVars, devVars,
                     armVars, portVars, keysVars, tableVars, listVars>>
     \/ runs = "ports" /\ PortNext
       /\ UNCHANGED <<cpuVars, memVars, stVars, pfVars, devVars,
                     armVars, stackVars, keysVars, tableVars, listVars>>
     \/ runs = "keys" /\ KeysNext
       /\ UNCHANGED <<cpuVars, memVars, stVars, pfVars, devVars,
                     armVars, stackVars, portVars, tableVars, listVars>>
     \/ runs = "table" /\ TableNext
       /\ UNCHANGED <<cpuVars, memVars, stVars, pfVars, devVars,
                     armVars, stackVars, portVars, keysVars, listVars>>
     \/ runs = "list" /\ ListNext
       /\ UNCHANGED <<cpuVars, memVars, stVars, pfVars, devVars,
                     armVars, stackVars, portVars, keysVars, tableVars>>

Spec == Init /\ [][Next]_allVars /\ PortFairness /\ ArmFairness

(* The type invariants of the components that write into a structure or     *)
(* move in a buffer without looking at its length; the two tables have      *)
(* TableTypeOK and ListTypeOK.                                              *)
TypeOK == CpuTypeOK /\ StatusTypeOK /\ ProcFileTypeOK /\ StackTypeOK

=============================================================================
