-------------------------------- MODULE ArmCpu -------------------------------
(***************************************************************************)
(* cpu_read_arm64 of libres/resources.cc and its three parts: the highest  *)
(* number in the list of enabled cores, the board from the device tree,    *)
(* and the frequency of the core the loop over an i8 ends with.  Files     *)
(* that are missing end the process (assert).                              *)
(***************************************************************************)
EXTENDS Parse, FiniteSets

CONSTANTS
  MODEL,         \* sizeof model: 64 in the code
  FREQUENCY,     \* sizeof frequency, behind it: 16 in the code
  I8_MAX,        \* 127 in the code
  CoreLists,     \* numbers in /sys/devices/system/cpu/enabled
  Boards,        \* texts of /proc/device-tree/model
  Speeds         \* scaling_cur_freq of the cores that have one

ASSUME ArmAssumption ==
  /\ MODEL \in Nat /\ FREQUENCY \in Nat /\ I8_MAX \in Nat
  /\ \A l \in CoreLists : l \subseteq Nat /\ l # {} /\ IsFiniteSet(l)
  /\ Boards \subseteq Seq(Nat \ {NUL})
  /\ \A c \in DOMAIN Speeds :
       c \in Nat /\ Speeds[c] \in Nat /\ Len(Decimal[Speeds[c]]) < FREQUENCY

VARIABLES
  arm,           \* the sys_cpu: cores, and the bytes of model and frequency
  arm_enabled,   \* the list of this machine
  arm_board,     \* its board
  arm_pc,        \* "idle", the part that runs next, "done", "aborted" or "overrun"
  arm_i,         \* the loop variable
  arm_path       \* the core whose path was made last, -1 before

armVars == <<arm, arm_enabled, arm_board, arm_pc, arm_i, arm_path>>

ArmStart(list, board) ==
  /\ arm = [cores |-> 0, bytes |-> Zeroes(MODEL + FREQUENCY)]
  /\ arm_enabled = list /\ arm_board = board
  /\ arm_pc = "idle" /\ arm_i = 0 /\ arm_path = -1

ArmInit == \E list \in CoreLists, board \in Boards : ArmStart(list, board)

(* A caller; cpu_read on ARM does nothing else. *)
ArmCall ==
  /\ arm_pc = "idle"
  /\ arm_pc' = "cores"
  /\ UNCHANGED <<arm, arm_enabled, arm_board, arm_i, arm_path>>

(* An assert after a failed open or an empty file. *)
ArmAborts ==
  /\ arm_pc \in {"cores", "model", "frequency"}
  /\ arm_pc' = "aborted"
  /\ UNCHANGED <<arm, arm_enabled, arm_board, arm_i, arm_path>>

cpu_get_cores_enabled_arm ==
  /\ arm_pc = "cores"
  /\ \E max_cpu \in arm_enabled :
       /\ \A c \in arm_enabled : c <= max_cpu
       /\ arm' = [arm EXCEPT !.cores = max_cpu]
  /\ arm_pc' = "model"
  /\ UNCHANGED <<arm_enabled, arm_board, arm_i, arm_path>>

(* A board of MODEL characters and more runs into frequency; behind that    *)
(* the structure ends.                                                      *)
cpu_read_cpu_model_name_arm64 ==
  /\ arm_pc = "model" /\ arm_board # <<>>
  /\ IF Len(arm_board) < MODEL + FREQUENCY
     THEN /\ arm' = [arm EXCEPT !.bytes = CopyText(@, arm_board)]
          /\ arm_pc' = "loop"
     ELSE arm_pc' = "overrun" /\ UNCHANGED arm
  /\ UNCHANGED <<arm_enabled, arm_board, arm_i, arm_path>>

(* Mutant: the core that the count names is left out. *)
LoopGoesOn_strictly == arm_i < arm.cores

LoopGoesOn == arm_i <= arm.cores

(* Mutant: a core without a frequency is tried again. *)
Next_i_retry == IF arm_i \in DOMAIN Speeds THEN arm_i + 1 ELSE arm_i

(* i++ on an i8. *)
Next_i == IF arm_i = I8_MAX THEN -I8_MAX - 1 ELSE arm_i + 1

ArmLoop ==
  /\ arm_pc = "loop" /\ LoopGoesOn
  /\ arm_path' = arm_i /\ arm_i' = Next_i
  /\ UNCHANGED <<arm, arm_enabled, arm_board, arm_pc>>

ArmLoopEnds ==
  /\ arm_pc = "loop" /\ ~LoopGoesOn
  /\ arm_pc' = "frequency"
  /\ UNCHANGED <<arm, arm_enabled, arm_board, arm_i, arm_path>>

cpu_read_enabled_core_cpu_frequency ==
  /\ arm_pc = "frequency" /\ arm_path \in DOMAIN Speeds
  /\ arm' = [arm EXCEPT !.bytes =
               SubSeq(@, 1, MODEL) \o CopyText(SubSeq(@, MODEL + 1, MODEL + FREQUENCY),
                                               Decimal[Speeds[arm_path]])]
  /\ arm_pc' = "done"
  /\ UNCHANGED <<arm_enabled, arm_board, arm_i, arm_path>>

cpu_read_arm64 ==
  \/ cpu_get_cores_enabled_arm \/ cpu_read_cpu_model_name_arm64
  \/ ArmLoop \/ ArmLoopEnds
  \/ cpu_read_enabled_core_cpu_frequency \/ ArmAborts

ArmNext == ArmCall \/ cpu_read_arm64

(* The thread of a call keeps running. *)
ArmFairness == WF_armVars(cpu_read_arm64)

ArmSpec == ArmInit /\ [][ArmNext]_armVars /\ ArmFairness

-----------------------------------------------------------------------------
(* Properties *)

(* When cpu_read_arm64 returns, the frequency is that of the highest core   *)
(* in the list, even if the text of the board had run over it, and the      *)
(* board is the text of the device tree when it is shorter than the field.  *)
ArmFieldsExact ==
  arm_pc = "done" =>
    /\ \A c \in arm_enabled : c <= arm.cores
    /\ arm.cores \in DOMAIN Speeds
    /\ Text(SubSeq(arm.bytes, MODEL + 1, MODEL + FREQUENCY)) = Decimal[Speeds[arm.cores]]
    /\ Len(arm_board) < MODEL => Text(SubSeq(arm.bytes, 1, MODEL)) = arm_board

(* cpu_read_arm64 comes to an end on every machine whose highest core is    *)
(* below I8_MAX.  (From I8_MAX on the i8 never passes the count.)           *)
ArmReadEnds ==
  (arm_pc # "idle" /\ \A c \in arm_enabled : c < I8_MAX)
    ~> (arm_pc \in {"done", "aborted", "overrun"})

-----------------------------------------------------------------------------
(* The inductive invariant of the proofs *)

Highest == arm.cores \in arm_enabled /\ \A c \in arm_enabled : c <= arm.cores

(* The board, with a zero behind it, stands at the start of the bytes. *)
BoardCopied(board) ==
  /\ \A i \in 1 .. Len(board) : arm.bytes[i] = board[i]
  /\ arm.bytes[Len(board) + 1] = NUL

(* The path is that of the core before the loop variable, except at the     *)
(* moment the i8 has wrapped around, when the loop goes on.                 *)
LoopInv == arm_i < 0 \/ (arm_path = arm_i - 1 /\ arm_path <= arm.cores)

ArmInv ==
  /\ arm_enabled \in CoreLists /\ arm_board \in Boards
  /\ arm.bytes \in Seq(Nat) /\ Len(arm.bytes) = MODEL + FREQUENCY
  /\ DOMAIN arm = {"cores", "bytes"} /\ arm.cores \in Nat
  /\ arm_i \in Int /\ arm_path \in Int
  /\ arm_pc \in {"idle", "cores", "model"} => arm_i = 0 /\ arm_path = -1
  /\ arm_pc \in {"model", "loop", "frequency", "done"} => Highest
  /\ arm_pc \in {"loop", "frequency"} =>
       BoardCopied(arm_board) /\ Len(arm_board) < MODEL + FREQUENCY
  /\ arm_pc = "loop" => LoopInv
  /\ arm_pc = "frequency" => arm_path = arm.cores
  /\ ArmFieldsExact

=============================================================================
