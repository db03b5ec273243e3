--------------------------- MODULE ComponentProofs ---------------------------
(***************************************************************************)
(* Theorems about Keys for any number of generations, about Ports for any  *)
(* files, any number of mappings and of calls, and about the instance that *)
(* chooses one of the small components.                                    *)
(***************************************************************************)
EXTENDS MCComponents, ReaderProofs, StackProofs

-----------------------------------------------------------------------------
(* The key generation *)

(* The invariant with the two properties, which it needs itself: a step     *)
(* that fails leaves a file as the last generation left it.                 *)
KeysIInv == KeysInv /\ CleanRunLeavesPair /\ OutdatedKeyIsEmpty

LEMMA KeysInitIInv == KeysInit => KeysIInv
  BY DEF KeysInit, KeysIInv, KeysInv, CleanRunLeavesPair, OutdatedKeyIsEmpty, ABSENT, EMPTY, NULL

LEMMA KeysNextIInv == KeysIInv /\ [KeysNext]_keysVars => KeysIInv'
<1> SUFFICES ASSUME KeysIInv, [KeysNext]_keysVars PROVE KeysIInv'
  OBVIOUS
<1> USE DEF KeysIInv, KeysInv, CleanRunLeavesPair, OutdatedKeyIsEmpty, ABSENT, EMPTY, NULL
<1>1. CASE generate_key
  BY <1>1 DEF generate_key
<1>2. CASE generate_cert
  BY <1>2 DEF generate_cert, CertFor
<1>3. CASE OpenKey
  BY <1>3 DEF OpenKey, Truncated
<1>4. CASE WriteKey
  BY <1>4 DEF WriteKey
<1>5. CASE OpenCert
  BY <1>5 DEF OpenCert, Truncated
<1>6. CASE WriteCert
  BY <1>6 DEF WriteCert
<1>7. CASE KeysCrash
  BY <1>7 DEF KeysCrash
<1>8. CASE UNCHANGED keysVars
  BY <1>8 DEF keysVars
<1> QED BY <1>1, <1>2, <1>3, <1>4, <1>5, <1>6, <1>7, <1>8 DEF KeysNext

(* What the files and the memory of generate hold at each of its steps,     *)
(* after any failures and crashes.                                          *)
THEOREM KeysInvariant == KeysSpec => []KeysIInv
  BY KeysInitIInv, KeysNextIInv, PTL DEF KeysSpec

(* A generate in which no step failed leaves the key and the certificate of *)
(* its own generation on disk, however earlier ones ended.                  *)
THEOREM CleanRun == KeysSpec => []CleanRunLeavesPair
<1>1. KeysIInv => CleanRunLeavesPair
  BY DEF KeysIInv
<1> QED BY <1>1, KeysInvariant, PTL

(* Wherever generate fails or is interrupted, a key file older than the     *)
(* certificate beside it is an empty one.                                   *)
THEOREM KeyFirst == KeysSpec => []OutdatedKeyIsEmpty
<1>1. KeysIInv => OutdatedKeyIsEmpty
  BY DEF KeysIInv
<1> QED BY <1>1, KeysInvariant, PTL

-----------------------------------------------------------------------------
(* The port reader *)

PortIInv ==
  /\ port_missing \in Nat /\ port_arenas \in Nat
  /\ port_pc \in {"idle", "reading", "down"}
  /\ LostOnlyWhenMissing

LEMMA PortInitIInv == PortInit => PortIInv
  BY PortAssumption DEF PortInit, PortIInv, LostOnlyWhenMissing

LEMMA PortNextIInv == PortIInv /\ [PortNext]_portVars => PortIInv'
<1> SUFFICES ASSUME PortIInv, [PortNext]_portVars PROVE PortIInv'
  OBVIOUS
<1> USE PortAssumption DEF PortIInv, LostOnlyWhenMissing
<1>1. CASE PortMissing
  BY <1>1 DEF PortMissing, PortCall
<1>2. ASSUME NEW f \in PortFiles, PortOpen(f) PROVE PortIInv'
  BY <1>2 DEF PortOpen, PortCall
<1>3. CASE PortRead
  BY <1>3 DEF PortRead
<1>4. CASE PortReadLast
  BY <1>4 DEF PortReadLast, Destroyed
<1>5. CASE UNCHANGED portVars
  BY <1>5 DEF portVars
<1> QED BY <1>1, <1>2, <1>3, <1>4, <1>5 DEF PortNext

(* port_read_tcp4 and port_read_tcp6 lose an arena only where they return   *)
(* early because the file is missing, and the process goes down only when   *)
(* as many such calls were made as arenas can be mapped.                    *)
THEOREM PortsLostWhenMissing == PortSpec => []LostOnlyWhenMissing
<1>1. PortIInv => LostOnlyWhenMissing
  BY DEF PortIInv
<1> QED BY <1>1, PortInitIInv, PortNextIInv, PTL DEF PortSpec

-----------------------------------------------------------------------------
(* One component of several *)

(* The invariants of the components whose types are stated.  Those of the   *)
(* two that need their file hold where they run; the others stay as they    *)
(* started.                                                                 *)
ComponentsInv ==
  /\ CpuTypeInv /\ (runs = "cpu" => CpuInv)
  /\ ProcFileTypeOK /\ (runs = "file" => ProcFileInv)
  /\ StatusInv
  /\ StackShape /\ StackInv

LEMMA ComponentsInit == Init => ComponentsInv
<1> SUFFICES ASSUME Init PROVE ComponentsInv
  OBVIOUS
<1>1. CpuTypeInv /\ (runs = "cpu" => CpuInv)
  <2>1. CASE runs = "cpu"
    <3>1. CpuInit
      BY <2>1 DEF Init
    <3>2. PICK n \in 0 .. MaxLines : \E file \in [1 .. n -> CpuLine] : CpuStart(file)
      BY <3>1 DEF CpuInit
    <3>3. PICK file \in [1 .. n -> CpuLine] : CpuStart(file)
      BY <3>2
    <3>4. Len(file) \in Nat
      <4>1. n \in Nat
        BY CpuAssumption
      <4> QED BY <4>1
    <3> QED BY <3>1, <3>3, <3>4, CpuStartTypes, CpuInitInv
  <2>2. CASE runs # "cpu"
    <3>1. CpuStart(<<>>) /\ Len(<<>>) \in Nat
      BY <2>2 DEF Init
    <3> QED BY <2>2, <3>1, CpuStartTypes
  <2> QED BY <2>1, <2>2
<1>2. ProcFileTypeOK /\ (runs = "file" => ProcFileInv)
  <2>1. CASE runs = "file"
    <3>1. ProcFileInit
      BY <2>1 DEF Init
    <3>2. PICK file \in ProcFiles, granted \in 0 .. 3 : ProcFileStart(file, granted)
      BY <3>1 DEF ProcFileInit
    <3>3. Len(file) \in Nat
      BY FileIsText
    <3> QED BY <3>1, <3>2, <3>3, ProcFileStartTypes, ProcFileInitInv
  <2>2. CASE runs # "file"
    <3>1. ProcFileStart(<<>>, 0) /\ Len(<<>>) \in Nat
      BY <2>2 DEF Init
    <3> QED BY <2>2, <3>1, ProcFileStartTypes
  <2> QED BY <2>1, <2>2
<1>3. StatusInv
  BY StatusInitInv DEF Init
<1>4. StackShape /\ StackInv
  BY InitInv DEF Init
<1> QED BY <1>1, <1>2, <1>3, <1>4 DEF ComponentsInv

(* What a step of the instance is to each of them. *)
LEMMA ComponentSteps ==
  ASSUME [Next]_allVars
  PROVE  /\ runs' = runs
         /\ [CpuNext]_cpuVars /\ (runs # "cpu" => UNCHANGED cpuVars)
         /\ [ProcFileNext]_pfVars /\ (runs # "file" => UNCHANGED pfVars)
         /\ [StatusNext]_stVars
         /\ [StackNext]_stackVars
  BY DEF Next, allVars

LEMMA ComponentsStep ==
  ASSUME ComponentsInv, [Next]_allVars
  PROVE  ComponentsInv'
<1>1. /\ runs' = runs
      /\ [CpuNext]_cpuVars /\ (runs # "cpu" => UNCHANGED cpuVars)
      /\ [ProcFileNext]_pfVars /\ (runs # "file" => UNCHANGED pfVars)
  BY ComponentSteps
<1>2. CpuTypeInv' /\ (runs = "cpu" => CpuInv')
  <2>1. CASE runs = "cpu"
    BY <1>1, <2>1, CpuStepTypes, CpuStepInv DEF ComponentsInv, CpuInv
  <2>2. CASE runs # "cpu"
    BY <1>1, <2>2 DEF ComponentsInv, cpuVars, CpuTypeInv, CpuTypeOK
  <2> QED BY <2>1, <2>2
<1>3. ProcFileTypeOK' /\ (runs = "file" => ProcFileInv')
  <2>1. CASE runs = "file"
    BY <1>1, <2>1, ProcFileStepTypes, ProcFileStepInv DEF ComponentsInv
  <2>2. CASE runs # "file"
    BY <1>1, <2>2 DEF ComponentsInv, pfVars, ProcFileTypeOK
  <2> QED BY <2>1, <2>2
<1>4. StatusInv'
  BY ComponentSteps, StatusStepInv DEF ComponentsInv
<1>5. StackShape' /\ StackInv'
  BY ComponentSteps, NextInv DEF ComponentsInv
<1> QED BY <1>1, <1>2, <1>3, <1>4, <1>5 DEF ComponentsInv

(* Whichever component runs, the texts of the sys_cpu end inside their      *)
(* fields, the bytes of a sys_process are bytes, the scanner stays inside   *)
(* its file and the stack, until it is misused, inside its memory.          *)
THEOREM ComponentTypes == Spec => []TypeOK
<1>1. ComponentsInv => TypeOK
  BY DEF ComponentsInv, TypeOK, CpuTypeInv, StatusInv, StackInv, StackTypeOK
<1> QED BY <1>1, ComponentsInit, ComponentsStep, PTL DEF Spec

===============================================================================
