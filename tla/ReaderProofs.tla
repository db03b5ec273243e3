---------------------------- MODULE ReaderProofs ------------------------------
(***************************************************************************)
(* Theorems about the device reader, the ARM reader, the reader of         *)
(* /proc/cpuinfo, the memory reader and process_read, for files of every   *)
(* length and texts of every length the assumptions admit.                 *)
(***************************************************************************)
EXTENDS ParseProofs, DeviceInfo, ArmCpu, CpuInfo, MemInfo, ProcStatus

-----------------------------------------------------------------------------
(* The device reader *)

LEMMA DeviceInitInv == DeviceInit => DeviceInv
<1> SUFFICES ASSUME NEW n \in 0 .. MaxOsLines, NEW file \in [1 .. n -> OsNames \cup {<<>>}],
                    DeviceStart(file)
             PROVE  DeviceInv
  BY DEF DeviceInit
<1>1. n \in Nat
  BY DeviceAssumption
<1>2. /\ os_release \in Seq(OsNames \cup {<<>>}) /\ DOMAIN os_release = 1 .. n
      /\ Len(os_release) \in Nat
  BY <1>1 DEF DeviceStart
<1>3. dev_line = 0 /\ dev_result = "none"
      /\ device = [os_version |-> <<>>, uptime |-> <<0, 0, 0>>]
  BY DEF DeviceStart
<1>4. NamedBefore(dev_line) = {}
  BY <1>2, <1>3 DEF NamedBefore
<1> QED BY <1>2, <1>3, <1>4 DEF DeviceInv

LEMMA DeviceLineInv ==
  ASSUME DeviceInv, DeviceLine
  PROVE  DeviceInv'
<1> DEFINE k == dev_line
           text == os_release[k]
           before == NamedBefore(k)
           after == NamedBefore(k + 1)
<1>1. /\ k \in DOMAIN os_release /\ dev_line' = k + 1
      /\ device' = IF HasTwoQuotes(text) THEN [device EXCEPT !.os_version = Quoted(text)] ELSE device
      /\ os_release' = os_release /\ dev_result' = dev_result /\ seconds' = seconds
  BY DEF DeviceLine
<1>2. /\ os_release \in Seq(OsNames \cup {<<>>})
      /\ Len(os_release) \in Nat /\ DOMAIN os_release = 1 .. Len(os_release)
  BY DEF DeviceInv
<1>3. k \in Nat /\ k <= Len(os_release) /\ k \in 1 .. Len(os_release)
  BY <1>1, <1>2
<1>4. NamedBefore(dev_line)' = after
  BY <1>1 DEF NamedBefore
<1>5. \A i \in before : i < k /\ i \in Nat
  BY <1>2 DEF NamedBefore
<1>6. after = IF HasTwoQuotes(text) THEN before \cup {k} ELSE before
  BY <1>2, <1>3 DEF NamedBefore
<1>7. DOMAIN device' = {"os_version", "uptime"} /\ device'.uptime = device.uptime
  BY <1>1 DEF DeviceInv
<1>8. dev_result' # "ERR_OK"
  BY <1>1, <1>2, <1>3 DEF DeviceInv
<1>9. dev_line' \in 0 .. Len(os_release') + 1
  BY <1>1, <1>2, <1>3
<1>10. /\ after = {} => device'.os_version = <<>>
       /\ \A i \in after : (\A j \in after : j <= i) => device'.os_version = Quoted(os_release[i])
  <2>1. CASE HasTwoQuotes(text)
    <3>1. device'.os_version = Quoted(text)
      BY <1>1, <2>1 DEF DeviceInv
    <3>2. k \in after /\ \A i \in after : (\A j \in after : j <= i) => i = k
      BY <1>3, <1>5, <1>6, <2>1
    <3> QED BY <3>1, <3>2
  <2>2. CASE ~HasTwoQuotes(text)
    <3>1. after = before /\ device' = device
      BY <1>1, <1>6, <2>2
    <3> QED BY <3>1 DEF DeviceInv
  <2> QED BY <2>1, <2>2
<1> QED BY <1>1, <1>2, <1>4, <1>7, <1>8, <1>9, <1>10 DEF DeviceInv

LEMMA DeviceStepInv ==
  ASSUME DeviceInv, [DeviceNext]_devVars
  PROVE  DeviceInv'
<1>1. CASE DeviceOpen
  <2>1. /\ device' = device /\ os_release' = os_release /\ seconds' = seconds
        /\ dev_result' # "ERR_OK" /\ dev_line = 0 /\ dev_line' \in {0, 1}
    BY <1>1 DEF DeviceOpen
  <2>2. os_release \in Seq(OsNames \cup {<<>>}) /\ Len(os_release) \in Nat
        /\ DOMAIN os_release = 1 .. Len(os_release)
    BY DEF DeviceInv
  <2>3. NamedBefore(dev_line) = {} /\ NamedBefore(dev_line)' = {}
    BY <2>1, <2>2 DEF NamedBefore
  <2> QED BY <2>1, <2>2, <2>3 DEF DeviceInv
<1>2. CASE DeviceLine
  BY <1>2, DeviceLineInv
<1>3. ASSUME NEW s \in Uptimes, device_up_time(s) PROVE DeviceInv'
  <2>1. /\ os_release' = os_release /\ dev_line' = dev_line /\ dev_line = Len(os_release) + 1
        /\ NamedBefore(dev_line)' = NamedBefore(dev_line)
    BY <1>3 DEF device_up_time, NamedBefore
  <2>2. s \in Nat
    BY DeviceAssumption
  <2>3. /\ DOMAIN device' = {"os_version", "uptime"} /\ device'.os_version = device.os_version
        /\ dev_result' = "ERR_OK" => device'.uptime = DayHourMin(s) /\ seconds' = s
    BY <1>3 DEF device_up_time, DeviceInv
  <2> QED BY <2>1, <2>2, <2>3 DEF DeviceInv
<1>4. CASE UNCHANGED devVars
  BY <1>4 DEF devVars, DeviceInv, NamedBefore
<1> QED BY <1>1, <1>2, <1>3, <1>4 DEF DeviceNext

(* Days, hours and minutes are a proper time just short of the seconds. *)
LEMMA DayHourMinFacts ==
  ASSUME NEW s \in Nat
  PROVE  /\ DayHourMin(s)[2] \in 0 .. 23 /\ DayHourMin(s)[3] \in 0 .. 59
         /\ s - (86400 * DayHourMin(s)[1] + 3600 * DayHourMin(s)[2] + 60 * DayHourMin(s)[3])
              \in 0 .. 59
<1> DEFINE up == DayHourMin(s)
<1>1. up[1] = s \div 86400 /\ up[2] = (s % 86400) \div 3600 /\ up[3] = (s % 3600) \div 60
  BY DEF DayHourMin
<1>2. (s % 86400) \div 3600 \in 0 .. 23
  OBVIOUS
<1>3. (s % 3600) \div 60 \in 0 .. 59
  OBVIOUS
<1>4. s - (86400 * (s \div 86400) + 3600 * ((s % 86400) \div 3600) + 60 * ((s % 3600) \div 60))
        \in 0 .. 59
  OBVIOUS
<1> QED BY <1>1, <1>2, <1>3, <1>4

(* device_read reports the name between the quotes of the last NAME line    *)
(* that has two of them, and an uptime less than a minute short, for files  *)
(* of any length.                                                           *)
THEOREM DeviceExact == DeviceSpec => []DeviceDescribed
<1>1. DeviceInv => DeviceDescribed
  <2> SUFFICES ASSUME DeviceInv, dev_result = "ERR_OK" PROVE DeviceDescribed
    BY DEF DeviceDescribed
  <2> DEFINE named == {i \in DOMAIN os_release : HasTwoQuotes(os_release[i])}
  <2>1. dev_line = Len(os_release) + 1 /\ seconds \in Nat /\ device.uptime = DayHourMin(seconds)
    BY DEF DeviceInv
  <2>2. named = NamedBefore(dev_line)
    <3>1. DOMAIN os_release = 1 .. Len(os_release) /\ Len(os_release) \in Nat
      BY DEF DeviceInv
    <3> QED BY <2>1, <3>1 DEF NamedBefore
  <2>3. /\ named = {} => device.os_version = <<>>
        /\ \A i \in named :
             (\A j \in named : j <= i) => device.os_version = Quoted(os_release[i])
    BY <2>2 DEF DeviceInv
  <2> HIDE DEF named
  <2>4. PICK s, up : s = seconds /\ up = device.uptime
    OBVIOUS
  <2>5. s \in Nat /\ up = DayHourMin(s)
    BY <2>1, <2>4
  <2>6. /\ up[2] \in 0 .. 23 /\ up[3] \in 0 .. 59
        /\ s - (86400 * up[1] + 3600 * up[2] + 60 * up[3]) \in 0 .. 59
    BY <2>5, DayHourMinFacts
  <2> QED BY <2>3, <2>4, <2>6 DEF DeviceDescribed, named
<1> QED BY <1>1, DeviceInitInv, DeviceStepInv, PTL DEF DeviceSpec

-----------------------------------------------------------------------------
(* The ARM reader *)

LEMMA ArmTypes ==
  ASSUME ArmInv
  PROVE  /\ MODEL \in Nat /\ FREQUENCY \in Nat /\ I8_MAX \in Nat
         /\ arm_enabled \subseteq Nat /\ arm_board \in Seq(Nat \ {NUL}) /\ Len(arm_board) \in Nat
  BY ArmAssumption DEF ArmInv

LEMMA ArmInitInv == ArmInit => ArmInv
<1> SUFFICES ASSUME NEW list \in CoreLists, NEW board \in Boards, ArmStart(list, board)
             PROVE  ArmInv
  BY DEF ArmInit
<1>1. MODEL + FREQUENCY \in Nat
  BY ArmAssumption
<1>2. Zeroes(MODEL + FREQUENCY) \in Seq(Nat) /\ Len(Zeroes(MODEL + FREQUENCY)) = MODEL + FREQUENCY
  BY <1>1 DEF Zeroes, NUL
<1>3. arm = [cores |-> 0, bytes |-> Zeroes(MODEL + FREQUENCY)]
      /\ arm_enabled = list /\ arm_board = board
      /\ arm_pc = "idle" /\ arm_i = 0 /\ arm_path = -1
  BY DEF ArmStart
<1> QED BY <1>2, <1>3 DEF ArmInv, ArmFieldsExact

LEMMA ArmCoresInv ==
  ASSUME ArmInv, cpu_get_cores_enabled_arm
  PROVE  ArmInv'
<1>1. PICK max_cpu \in arm_enabled :
        /\ \A c \in arm_enabled : c <= max_cpu
        /\ arm' = [arm EXCEPT !.cores = max_cpu]
  BY DEF cpu_get_cores_enabled_arm
<1>2. arm_pc = "cores" /\ arm_pc' = "model"
      /\ UNCHANGED <<arm_enabled, arm_board, arm_i, arm_path>>
  BY DEF cpu_get_cores_enabled_arm
<1>3. max_cpu \in Nat
  BY ArmTypes
<1>4. arm'.cores = max_cpu /\ arm'.bytes = arm.bytes /\ DOMAIN arm' = {"cores", "bytes"}
  BY <1>1 DEF ArmInv
<1>5. Highest'
  BY <1>1, <1>2, <1>4 DEF Highest
<1> QED BY <1>2, <1>3, <1>4, <1>5 DEF ArmInv, ArmFieldsExact

LEMMA ArmModelInv ==
  ASSUME ArmInv, cpu_read_cpu_model_name_arm64
  PROVE  ArmInv'
<1>1. arm_pc = "model" /\ UNCHANGED <<arm_enabled, arm_board, arm_i, arm_path>>
  BY DEF cpu_read_cpu_model_name_arm64
<1>2. CASE Len(arm_board) < MODEL + FREQUENCY
  <2>1. arm' = [arm EXCEPT !.bytes = CopyText(arm.bytes, arm_board)] /\ arm_pc' = "loop"
    BY <1>2 DEF cpu_read_cpu_model_name_arm64
  <2>2. arm.bytes \in Seq(Nat) /\ Len(arm.bytes) = MODEL + FREQUENCY
        /\ arm_board \in Seq(Nat \ {NUL}) /\ Len(arm_board) < Len(arm.bytes)
    BY <1>2, ArmTypes DEF ArmInv
  <2>3. arm'.bytes = CopyText(arm.bytes, arm_board) /\ arm'.cores = arm.cores
        /\ DOMAIN arm' = {"cores", "bytes"}
    BY <2>1 DEF ArmInv
  <2>4. arm'.bytes \in Seq(Nat) /\ Len(arm'.bytes) = MODEL + FREQUENCY
    BY <2>2, <2>3, CopyTextFacts
  <2>5. BoardCopied(arm_board)'
    <3>1. PICK buf, src : buf = arm.bytes /\ src = arm_board
      OBVIOUS
    <3>2. /\ \A i \in 1 .. Len(src) : CopyText(buf, src)[i] = src[i]
          /\ CopyText(buf, src)[Len(src) + 1] = NUL
      BY <2>2, <3>1, CopyTextFacts
    <3>3. arm'.bytes = CopyText(buf, src) /\ arm_board' = src
      BY <1>1, <2>3, <3>1
    <3> QED BY <3>2, <3>3 DEF BoardCopied
  <2>6. Highest'
    BY <1>1, <2>3 DEF ArmInv, Highest
  <2>7. LoopInv'
    <3>1. arm_i' = 0 /\ arm_path' = -1 /\ arm.cores \in Nat
      BY <1>1 DEF ArmInv
    <3> QED BY <2>3, <3>1 DEF LoopInv
  <2> QED BY <1>1, <1>2, <2>1, <2>3, <2>4, <2>5, <2>6, <2>7 DEF ArmInv, ArmFieldsExact
<1>3. CASE ~(Len(arm_board) < MODEL + FREQUENCY)
  <2>1. arm_pc' = "overrun" /\ arm' = arm
    BY <1>3 DEF cpu_read_cpu_model_name_arm64
  <2> QED BY <1>1, <2>1 DEF ArmInv, ArmFieldsExact
<1> QED BY <1>2, <1>3

LEMMA ArmLoopInv ==
  ASSUME ArmInv, ArmLoop \/ ArmLoopEnds
  PROVE  ArmInv'
<1>1. /\ arm_pc = "loop" /\ arm' = arm /\ arm_enabled' = arm_enabled /\ arm_board' = arm_board
  BY DEF ArmLoop, ArmLoopEnds
<1>2. /\ I8_MAX \in Nat /\ arm_i \in Int /\ arm_path \in Int /\ arm.cores \in Nat
      /\ Highest /\ BoardCopied(arm_board) /\ LoopInv
  BY <1>1, ArmTypes DEF ArmInv
<1>3. Highest' /\ BoardCopied(arm_board)'
  BY <1>1, <1>2 DEF Highest, BoardCopied
<1>4. CASE ArmLoop
  <2>1. arm_i <= arm.cores /\ arm_path' = arm_i /\ arm_pc' = "loop"
        /\ arm_i' = IF arm_i = I8_MAX THEN -I8_MAX - 1 ELSE arm_i + 1
    BY <1>1, <1>4 DEF ArmLoop, LoopGoesOn, Next_i
  <2>2. arm_i' \in Int /\ arm_path' \in Int /\ LoopInv'
    BY <1>1, <1>2, <2>1 DEF LoopInv
  <2> QED BY <1>1, <1>3, <2>1, <2>2 DEF ArmInv, ArmFieldsExact
<1>5. CASE ArmLoopEnds
  <2>1. ~(arm_i <= arm.cores) /\ arm_pc' = "frequency" /\ arm_i' = arm_i /\ arm_path' = arm_path
    BY <1>5 DEF ArmLoopEnds, LoopGoesOn
  <2>2. arm_path = arm.cores
    BY <1>2, <2>1 DEF LoopInv
  <2> QED BY <1>1, <1>3, <2>1, <2>2 DEF ArmInv, ArmFieldsExact
<1> QED BY <1>4, <1>5

(* The frequency is written behind the model, whatever stands there. *)
LEMMA ArmFrequencyInv ==
  ASSUME ArmInv, cpu_read_enabled_core_cpu_frequency
  PROVE  ArmInv'
<1>1. PICK bytes, text, low, high :
        /\ bytes = arm.bytes /\ text = Decimal[Speeds[arm_path]]
        /\ low = SubSeq(bytes, 1, MODEL) /\ high = SubSeq(bytes, MODEL + 1, MODEL + FREQUENCY)
  OBVIOUS
<1>2. /\ arm_pc = "frequency" /\ arm_path \in DOMAIN Speeds /\ arm_pc' = "done"
      /\ arm' = [arm EXCEPT !.bytes = low \o CopyText(high, text)]
      /\ UNCHANGED <<arm_enabled, arm_board, arm_i, arm_path>>
  BY <1>1 DEF cpu_read_enabled_core_cpu_frequency
<1>3. /\ MODEL \in Nat /\ FREQUENCY \in Nat
      /\ arm_board \in Seq(Nat \ {NUL}) /\ Len(arm_board) \in Nat
      /\ bytes \in Seq(Nat) /\ Len(bytes) = MODEL + FREQUENCY
  BY <1>1, ArmTypes DEF ArmInv
<1>4. /\ text \in Seq(Nat \ {NUL}) /\ Len(text) < FREQUENCY
  <2>1. Speeds[arm_path] \in Nat /\ Len(text) < FREQUENCY
    BY <1>1, <1>2, ArmAssumption
  <2>2. Digits \subseteq Nat \ {NUL}
    BY DEF Digits, NUL
  <2>3. text \in Seq(Digits)
    BY <1>1, <2>1, DecimalDigits
  <2> QED BY <2>1, <2>2, <2>3, SeqWiden
<1>5. /\ low \in Seq(Nat) /\ Len(low) = MODEL
      /\ \A i \in 1 .. MODEL : low[i] = bytes[i]
  <2>1. \A i \in 1 .. MODEL : bytes[i] \in Nat
    BY <1>3
  <2>2. /\ low \in Seq(Nat) /\ Len(low) = IF 1 <= MODEL THEN MODEL - 1 + 1 ELSE 0
        /\ \A i \in 1 .. MODEL - 1 + 1 : low[i] = bytes[1 + i - 1]
    BY <1>1, <1>3, <2>1, SubSeqProperties
  <2> QED BY <1>3, <2>2
<1>6. high \in Seq(Nat) /\ Len(high) = FREQUENCY
  <2>1. \A i \in MODEL + 1 .. MODEL + FREQUENCY : bytes[i] \in Nat
    BY <1>3
  <2>2. high \in Seq(Nat) /\ Len(high) = IF MODEL + 1 <= MODEL + FREQUENCY
                                       THEN MODEL + FREQUENCY - (MODEL + 1) + 1 ELSE 0
    BY <1>1, <1>3, <2>1, SubSeqProperties
  <2> QED BY <1>3, <2>2
<1>7. PICK field : field = CopyText(high, text)
  OBVIOUS
<1>8. /\ field \in Seq(Nat) /\ Len(field) = FREQUENCY /\ Text(field) = text
  <2>1. /\ field \in Seq(Nat) /\ Len(field) = FREQUENCY
        /\ \A i \in 1 .. Len(text) : field[i] = text[i]
        /\ field[Len(text) + 1] = NUL
    BY <1>4, <1>6, <1>7, CopyTextFacts
  <2> QED BY <1>4, <2>1, TextExact
<1>9. PICK new : new = low \o field
  OBVIOUS
<1>10. /\ new \in Seq(Nat) /\ Len(new) = MODEL + FREQUENCY
       /\ \A i \in 1 .. MODEL : new[i] = low[i]
       /\ \A i \in 1 .. FREQUENCY : new[MODEL + i] = field[i]
  <2>1. new \in Seq(Nat) /\ Len(new) = Len(low) + Len(field)
    BY <1>5, <1>8, <1>9, ConcatProperties
  <2>2. \A i \in 1 .. Len(low) + Len(field) :
          new[i] = IF i <= Len(low) THEN low[i] ELSE field[i - Len(low)]
    BY <1>5, <1>8, <1>9, ConcatProperties
  <2>3. ASSUME NEW i \in 1 .. MODEL PROVE new[i] = low[i]
    <3>1. i \in 1 .. MODEL + FREQUENCY /\ i <= MODEL
      BY <1>3
    <3> QED BY <1>5, <1>8, <2>2, <3>1
  <2>4. ASSUME NEW i \in 1 .. FREQUENCY PROVE new[MODEL + i] = field[i]
    <3>1. /\ MODEL + i \in 1 .. MODEL + FREQUENCY /\ ~(MODEL + i <= MODEL)
          /\ (MODEL + i) - MODEL = i
      BY <1>3
    <3> QED BY <1>5, <1>8, <2>2, <3>1
  <2> QED BY <1>5, <1>8, <2>1, <2>3, <2>4
<1>11. SubSeq(new, MODEL + 1, MODEL + FREQUENCY) = field
  BY <1>3, <1>8, <1>10
<1>12. SubSeq(new, 1, MODEL) = low
  BY <1>3, <1>5, <1>10
<1>13. Len(arm_board) < MODEL => Text(low) = arm_board
  <2> SUFFICES ASSUME Len(arm_board) < MODEL PROVE Text(low) = arm_board
    OBVIOUS
  <2>1. /\ \A i \in 1 .. Len(arm_board) : bytes[i] = arm_board[i]
        /\ bytes[Len(arm_board) + 1] = NUL
    BY <1>1, <1>2 DEF ArmInv, BoardCopied
  <2>2. /\ \A i \in 1 .. Len(arm_board) : low[i] = arm_board[i]
        /\ low[Len(arm_board) + 1] = NUL
    BY <1>3, <1>5, <2>1
  <2> QED BY <1>3, <1>5, <2>2, TextExact
<1>14. arm'.bytes = new /\ arm'.cores = arm.cores /\ DOMAIN arm' = {"cores", "bytes"}
  BY <1>2, <1>7, <1>9 DEF ArmInv
<1>15. Highest' /\ arm_path = arm.cores
  BY <1>2, <1>14 DEF ArmInv, Highest
<1>16. ArmFieldsExact'
  <2>1. \A c \in arm_enabled' : c <= arm'.cores
    BY <1>15 DEF Highest
  <2>2. arm'.cores \in DOMAIN Speeds /\ text = Decimal[Speeds[arm'.cores]]
    BY <1>1, <1>2, <1>14, <1>15
  <2>3. Text(SubSeq(arm'.bytes, MODEL + 1, MODEL + FREQUENCY)) = text
    BY <1>8, <1>11, <1>14
  <2>4. Len(arm_board) < MODEL => Text(SubSeq(arm'.bytes, 1, MODEL)) = arm_board
    BY <1>12, <1>13, <1>14
  <2> QED BY <1>2, <2>1, <2>2, <2>3, <2>4 DEF ArmFieldsExact
<1> QED BY <1>2, <1>10, <1>14, <1>15, <1>16 DEF ArmInv

LEMMA ArmStepInv ==
  ASSUME ArmInv, [ArmNext]_armVars
  PROVE  ArmInv'
<1>1. CASE ArmCall
  BY <1>1 DEF ArmCall, ArmInv, ArmFieldsExact
<1>2. CASE ArmAborts
  BY <1>2 DEF ArmAborts, ArmInv, ArmFieldsExact
<1>3. CASE UNCHANGED armVars
  BY <1>3 DEF armVars, ArmInv, ArmFieldsExact, Highest, BoardCopied, LoopInv
<1> QED BY <1>1, <1>2, <1>3, ArmCoresInv, ArmModelInv, ArmLoopInv, ArmFrequencyInv
        DEF ArmNext, cpu_read_arm64

(* When cpu_read_arm64 returns, frequency and model are those of the        *)
(* machine, for every list of cores, also beyond the i8, and every board.   *)
THEOREM ArmExact == ArmSpec => []ArmFieldsExact
<1>1. ArmInv => ArmFieldsExact
  BY DEF ArmInv
<1> QED BY <1>1, ArmInitInv, ArmStepInv, PTL DEF ArmSpec

-----------------------------------------------------------------------------
(* The reader of /proc/cpuinfo *)

LEMMA CpuFileFacts ==
  ASSUME CpuShape
  PROVE  /\ Len(cpuinfo) \in Nat /\ DOMAIN cpuinfo = 1 .. Len(cpuinfo)
         /\ \A j \in DOMAIN cpuinfo : cpuinfo[j] \in CpuLine
         /\ \A f : LinesOf(f) \subseteq 1 .. Len(cpuinfo)
  BY DEF CpuShape, LinesOf

LEMMA CpuValueFacts ==
  ASSUME CpuShape, NEW j \in DOMAIN cpuinfo, cpuinfo[j].key \in TextFields
  PROVE  /\ cpuinfo[j].value \in Seq(Nat \ {NUL}) /\ Len(cpuinfo[j].value) \in Nat
         /\ Len(cpuinfo[j].value) < FIELD
<1>1. PICK v : v = cpuinfo[j].value
  OBVIOUS
<1>2. v \in StaticValues \cup Frequencies
  BY <1>1, CpuFileFacts DEF CpuLine, TextFields
<1>3. v \in Seq(Nat \ {NUL, NEWLINE}) /\ Len(v) < FIELD
  BY <1>2, CpuAssumption
<1>4. v \in [1 .. Len(v) -> Nat \ {NUL, NEWLINE}] /\ Len(v) \in Nat
  BY <1>3
<1>5. v \in [1 .. Len(v) -> Nat \ {NUL}]
  BY <1>4
<1> QED BY <1>1, <1>3, <1>4, <1>5

(* One more line: the byte is that of the line if it reaches it. *)
LEMMA ByteStep ==
  ASSUME CpuShape, NEW k \in DOMAIN cpuinfo, NEW f, NEW i, NEW x, NEW old, NEW y,
         ByteAfter(cpuinfo, f, i, k, x, old),
         y = IF cpuinfo[k].key = f /\ i <= Len(cpuinfo[k].value) THEN cpuinfo[k].value[i] ELSE x,
         i \in Nat, f \in TextFields
  PROVE  ByteAfter(cpuinfo, f, i, k + 1, y, old)
<1>1. /\ Len(cpuinfo) \in Nat /\ DOMAIN cpuinfo = 1 .. Len(cpuinfo) /\ k \in Nat
      /\ \A j \in DOMAIN cpuinfo : j \in Nat
  BY CpuFileFacts
<1>2. \A j \in Reaching(cpuinfo, f, i, k) : j \in Nat /\ j < k
  BY <1>1 DEF Reaching
<1>3. CASE cpuinfo[k].key = f /\ i <= Len(cpuinfo[k].value)
  <2>0. Len(cpuinfo[k].value) \in Nat
    BY <1>3, CpuValueFacts
  <2>1. k \in Reaching(cpuinfo, f, i, k + 1)
    BY <1>1, <1>3, <2>0 DEF Reaching
  <2>2. \A j \in Reaching(cpuinfo, f, i, k + 1) : j <= k
    BY <1>1 DEF Reaching
  <2>3. y = cpuinfo[k].value[i]
    BY <1>3
  <2> QED BY <2>1, <2>2, <2>3 DEF ByteAfter
<1>4. CASE ~(cpuinfo[k].key = f /\ i <= Len(cpuinfo[k].value))
  <2>1. k \notin Reaching(cpuinfo, f, i, k + 1)
    <3> SUFFICES ASSUME cpuinfo[k].key = f, Len(cpuinfo[k].value) >= i PROVE FALSE
      BY DEF Reaching
    <3>1. Len(cpuinfo[k].value) \in Nat
      BY CpuValueFacts
    <3> QED BY <1>4, <3>1
  <2>2. \A j \in DOMAIN cpuinfo : j # k => (j < k + 1 <=> j < k)
    BY <1>1
  <2>3. Reaching(cpuinfo, f, i, k + 1) = Reaching(cpuinfo, f, i, k)
    <3>1. k \notin Reaching(cpuinfo, f, i, k)
      BY <1>2, <1>1
    <3> QED BY <2>1, <2>2, <3>1 DEF Reaching
  <2>4. y = x
    BY <1>4
  <2> QED BY <2>3, <2>4 DEF ByteAfter
<1> QED BY <1>3, <1>4

(* Reading the same lines again changes nothing. *)
LEMMA ByteSame ==
  ASSUME CpuShape, NEW f, NEW i, NEW k, NEW x, NEW y, NEW old,
         ByteAfter(cpuinfo, f, i, k, x, old), ByteAfter(cpuinfo, f, i, k, y, x)
  PROVE  x = y
<1>1. \A j \in Reaching(cpuinfo, f, i, k) : j \in Nat
  BY CpuFileFacts DEF Reaching
<1>2. CASE Reaching(cpuinfo, f, i, k) = {}
  BY <1>2 DEF ByteAfter
<1>3. CASE Reaching(cpuinfo, f, i, k) # {}
  <2>1. PICK m \in Reaching(cpuinfo, f, i, k) :
          (\A j \in Reaching(cpuinfo, f, i, k) : j <= m) /\ x = cpuinfo[m].value[i]
    BY <1>3 DEF ByteAfter
  <2>2. PICK n \in Reaching(cpuinfo, f, i, k) :
          (\A j \in Reaching(cpuinfo, f, i, k) : j <= n) /\ y = cpuinfo[n].value[i]
    BY <1>3 DEF ByteAfter
  <2>3. m <= n /\ n <= m /\ m \in Nat /\ n \in Nat
    BY <1>1, <2>1, <2>2
  <2>4. m = n
    BY <2>3
  <2> QED BY <2>1, <2>2, <2>4
<1> QED BY <1>2, <1>3

LEMMA CoresStep ==
  ASSUME CpuShape, NEW k \in DOMAIN cpuinfo, NEW x, NEW old, NEW y,
         CoresAfter(cpuinfo, k, x, old),
         y = IF cpuinfo[k].key = "cores" THEN CoresOf(cpuinfo[k]) ELSE x
  PROVE  CoresAfter(cpuinfo, k + 1, y, old)
<1>1. k \in Nat /\ \A j \in DOMAIN cpuinfo : j \in Nat
  BY CpuFileFacts
<1>2. CASE cpuinfo[k].key = "cores"
  <2>1. k \in CoresBefore(cpuinfo, k + 1) /\ \A j \in CoresBefore(cpuinfo, k + 1) : j <= k
    BY <1>1, <1>2 DEF CoresBefore
  <2> QED BY <1>2, <2>1 DEF CoresAfter
<1>3. CASE cpuinfo[k].key # "cores"
  <2>1. \A j \in DOMAIN cpuinfo : j # k => (j < k + 1 <=> j < k)
    BY <1>1
  <2>2. CoresBefore(cpuinfo, k + 1) = CoresBefore(cpuinfo, k)
    BY <1>3, <2>1 DEF CoresBefore
  <2> QED BY <1>3, <2>2 DEF CoresAfter
<1> QED BY <1>2, <1>3

LEMMA CoresSame ==
  ASSUME CpuShape, NEW k, NEW x, NEW y, NEW old,
         CoresAfter(cpuinfo, k, x, old), CoresAfter(cpuinfo, k, y, x)
  PROVE  x = y
<1>1. \A j \in CoresBefore(cpuinfo, k) : j \in Nat
  BY CpuFileFacts DEF CoresBefore
<1>2. CASE CoresBefore(cpuinfo, k) = {}
  BY <1>2 DEF CoresAfter
<1>3. CASE CoresBefore(cpuinfo, k) # {}
  <2>1. PICK m \in CoresBefore(cpuinfo, k) :
          (\A j \in CoresBefore(cpuinfo, k) : j <= m) /\ x = CoresOf(cpuinfo[m])
    BY <1>3 DEF CoresAfter
  <2>2. PICK n \in CoresBefore(cpuinfo, k) :
          (\A j \in CoresBefore(cpuinfo, k) : j <= n) /\ y = CoresOf(cpuinfo[n])
    BY <1>3 DEF CoresAfter
  <2>3. m <= n /\ n <= m /\ m \in Nat /\ n \in Nat
    BY <1>1, <2>1, <2>2
  <2>4. m = n
    BY <2>3
  <2> QED BY <2>1, <2>2, <2>4
<1> QED BY <1>2, <1>3

LEMMA CpuInitInv == CpuInit => CpuInv
<1> SUFFICES ASSUME NEW n \in 0 .. MaxLines, NEW file \in [1 .. n -> CpuLine], CpuStart(file)
             PROVE  CpuInv
  BY DEF CpuInit
<1>1. n \in Nat /\ FIELD \in Nat
  BY CpuAssumption
<1>2. cpu = ZeroCpu /\ cpu_first = ZeroCpu /\ cpuinfo = file /\ cpu_line = 0 /\ cpu_reads = 0
  BY DEF CpuStart
<1>3. Zeroes(FIELD) \in Seq(Nat) /\ Len(Zeroes(FIELD)) = FIELD
      /\ \A i \in 1 .. FIELD : Zeroes(FIELD)[i] = NUL
  BY <1>1 DEF Zeroes, NUL
<1>4. \A f \in TextFields : ZeroCpu[f] = Zeroes(FIELD)
  BY DEF TextFields, ZeroCpu
<1>5. cpuinfo \in Seq(CpuLine) /\ DOMAIN cpuinfo = 1 .. n /\ Len(cpuinfo) \in Nat
  BY <1>1, <1>2
<1>6. CpuShape
  BY <1>2, <1>3, <1>4, <1>5 DEF CpuShape
<1>7. \A f, i : Reaching(cpuinfo, f, i, 0) = {}
  BY <1>5 DEF Reaching
<1>8. CoresBefore(cpuinfo, 0) = {}
  BY <1>5 DEF CoresBefore
<1>9. ZeroCpu.cores = 0
  BY DEF ZeroCpu
<1>10. Passed = 0
  BY <1>2 DEF Passed
<1>11. \A f \in TextFields : \A i \in 1 .. FIELD : ByteAfter(cpuinfo, f, i, Passed, cpu[f][i], NUL)
  BY <1>2, <1>3, <1>4, <1>7, <1>10 DEF ByteAfter
<1>12. CoresAfter(cpuinfo, Passed, cpu.cores, 0)
  BY <1>2, <1>8, <1>9, <1>10 DEF CoresAfter
<1> QED BY <1>2, <1>6, <1>11, <1>12 DEF CpuInv, FirstRead, LaterRead

(* What a line changes of the structure, byte by byte *)
LEMMA ReadLineFacts ==
  ASSUME CpuShape, CpuReadLine, NEW line, line = cpuinfo[cpu_line]
  PROVE  /\ DOMAIN cpu' = DOMAIN ZeroCpu
         /\ \A f \in TextFields : cpu'[f] \in Seq(Nat) /\ Len(cpu'[f]) = FIELD
         /\ \A f \in TextFields : \A i \in 1 .. FIELD :
              cpu'[f][i] = IF line.key = f /\ i <= Len(line.value) THEN line.value[i] ELSE cpu[f][i]
         /\ cpu'.cores = IF line.key = "cores" THEN CoresOf(line) ELSE cpu.cores
<1>1. /\ cpu_line \in DOMAIN cpuinfo
      /\ cpu' = IF line.key \in TextFields
                THEN [cpu EXCEPT ![line.key] = Stored(cpu[line.key], line.value)]
                ELSE IF line.key = "cores" THEN [cpu EXCEPT !.cores = CoresOf(line)] ELSE cpu
  BY DEF CpuReadLine
<1>2. DOMAIN cpu = DOMAIN ZeroCpu /\ TextFields \subseteq DOMAIN cpu /\ "cores" \in DOMAIN cpu
      /\ "cores" \notin TextFields
  BY DEF CpuShape, ZeroCpu, TextFields
<1>3. \A f \in TextFields : cpu[f] \in Seq(Nat) /\ Len(cpu[f]) = FIELD
  BY DEF CpuShape
<1>4. CASE line.key \in TextFields
  <2>1. PICK key, value : key = line.key /\ value = line.value
    OBVIOUS
  <2>2. /\ key \in TextFields /\ value \in Seq(Nat \ {NUL}) /\ Len(value) \in Nat
        /\ FIELD \in Nat
    BY <1>1, <1>4, <2>1, CpuValueFacts, CpuAssumption
  <2>3. PICK new : new = Stored(cpu[key], value)
    OBVIOUS
  <2>4. new = [i \in 1 .. FIELD |-> IF i <= Len(value) THEN value[i] ELSE cpu[key][i]]
    BY <1>3, <2>2, <2>3 DEF Stored, MemCpy
  <2>5. new \in [1 .. FIELD -> Nat]
    <3>1. \A i \in 1 .. FIELD : cpu[key][i] \in Nat
      BY <1>3, <2>2
    <3>2. \A i \in 1 .. FIELD : i <= Len(value) => value[i] \in Nat
      BY <2>2
    <3> QED BY <2>4, <3>1, <3>2
  <2>6. new \in Seq(Nat) /\ Len(new) = FIELD
    BY <2>2, <2>5
  <2>7. /\ DOMAIN cpu' = DOMAIN cpu /\ cpu'[key] = new
        /\ \A f \in DOMAIN cpu : f # key => cpu'[f] = cpu[f]
    BY <1>1, <1>2, <1>4, <2>1, <2>2, <2>3
  <2>8. cpu'.cores = cpu.cores
    BY <1>2, <2>2, <2>7
  <2>9. ASSUME NEW f \in TextFields
        PROVE  /\ cpu'[f] \in Seq(Nat) /\ Len(cpu'[f]) = FIELD
               /\ \A i \in 1 .. FIELD :
                    cpu'[f][i] = IF key = f /\ i <= Len(value) THEN value[i] ELSE cpu[f][i]
    <3>1. CASE f = key
      BY <2>4, <2>6, <2>7, <3>1
    <3>2. CASE f # key
      BY <1>2, <1>3, <2>7, <3>2
    <3> QED BY <3>1, <3>2
  <2> QED BY <1>2, <2>1, <2>2, <2>7, <2>8, <2>9
<1>5. CASE line.key \notin TextFields
  <2>1. \A f \in TextFields : cpu'[f] = cpu[f] /\ line.key # f
    BY <1>1, <1>2, <1>5
  <2>2. DOMAIN cpu' = DOMAIN cpu
    BY <1>1, <1>2, <1>5
  <2>3. cpu'.cores = IF line.key = "cores" THEN CoresOf(line) ELSE cpu.cores
    BY <1>1, <1>2, <1>5
  <2> QED BY <1>2, <1>3, <2>1, <2>2, <2>3
<1> QED BY <1>4, <1>5

LEMMA CpuReadLineInv ==
  ASSUME CpuInv, CpuReadLine
  PROVE  CpuInv'
<1>1. PICK k, line : k = cpu_line /\ line = cpuinfo[k]
  OBVIOUS
<1>2. /\ k \in DOMAIN cpuinfo /\ cpu_line' = k + 1
      /\ cpuinfo' = cpuinfo /\ cpu_reads' = cpu_reads /\ cpu_first' = cpu_first
  BY <1>1 DEF CpuReadLine
<1>3. CpuShape /\ Len(cpuinfo) \in Nat /\ k \in Nat /\ k > 0 /\ k <= Len(cpuinfo)
      /\ cpu_reads \in Nat /\ FIELD \in Nat
  BY <1>2, CpuFileFacts, CpuAssumption DEF CpuInv, CpuShape
<1>4. Passed = k /\ Passed' = k + 1
  BY <1>1, <1>2, <1>3 DEF Passed
<1>5. /\ DOMAIN cpu' = DOMAIN ZeroCpu
      /\ \A f \in TextFields : cpu'[f] \in Seq(Nat) /\ Len(cpu'[f]) = FIELD
      /\ \A f \in TextFields : \A i \in 1 .. FIELD :
           cpu'[f][i] = IF line.key = f /\ i <= Len(line.value) THEN line.value[i] ELSE cpu[f][i]
      /\ cpu'.cores = IF line.key = "cores" THEN CoresOf(line) ELSE cpu.cores
  <2>1. line = cpuinfo[cpu_line] /\ CpuShape
    BY <1>1, <1>3
  <2> QED BY <2>1, ReadLineFacts
<1>6. CpuShape'
  <2>1. cpu_line' \in -1 .. Len(cpuinfo') + 1
    BY <1>2, <1>3
  <2> QED BY <1>2, <1>3, <1>5, <2>1 DEF CpuShape
<1>7. ASSUME NEW f \in TextFields, NEW i \in 1 .. FIELD, NEW old,
             ByteAfter(cpuinfo, f, i, k, cpu[f][i], old)
      PROVE  ByteAfter(cpuinfo, f, i, k + 1, cpu'[f][i], old)
  <2>1. PICK x, y : x = cpu[f][i] /\ y = cpu'[f][i]
    OBVIOUS
  <2>2. y = IF cpuinfo[k].key = f /\ i <= Len(cpuinfo[k].value) THEN cpuinfo[k].value[i] ELSE x
    BY <1>1, <1>5, <2>1
  <2>3. i \in Nat /\ ByteAfter(cpuinfo, f, i, k, x, old)
    BY <1>3, <1>7, <2>1
  <2>4. ByteAfter(cpuinfo, f, i, k + 1, y, old)
    BY <1>2, <1>3, <2>2, <2>3, ByteStep
  <2> QED BY <2>1, <2>4
<1>8. ASSUME NEW old, CoresAfter(cpuinfo, k, cpu.cores, old)
      PROVE  CoresAfter(cpuinfo, k + 1, cpu'.cores, old)
  <2>1. PICK x, y : x = cpu.cores /\ y = cpu'.cores
    OBVIOUS
  <2>2. y = IF cpuinfo[k].key = "cores" THEN CoresOf(cpuinfo[k]) ELSE x
    BY <1>1, <1>5, <2>1
  <2>3. CoresAfter(cpuinfo, k, x, old)
    BY <1>8, <2>1
  <2>4. CoresAfter(cpuinfo, k + 1, y, old)
    BY <1>2, <1>3, <2>2, <2>3, CoresStep
  <2> QED BY <2>1, <2>4
<1>9. FirstRead'
  <2> SUFFICES ASSUME cpu_reads' = 0
               PROVE  /\ \A f \in TextFields : \A i \in 1 .. FIELD :
                           ByteAfter(cpuinfo', f, i, Passed', cpu'[f][i], NUL)
                      /\ CoresAfter(cpuinfo', Passed', cpu'.cores, 0)
    BY <1>2, <1>3 DEF FirstRead
  <2>1. /\ \A f \in TextFields : \A i \in 1 .. FIELD : ByteAfter(cpuinfo, f, i, k, cpu[f][i], NUL)
        /\ CoresAfter(cpuinfo, k, cpu.cores, 0)
    BY <1>2, <1>4 DEF CpuInv, FirstRead
  <2> QED BY <1>2, <1>4, <1>7, <1>8, <2>1
<1>10. LaterRead'
  <2> SUFFICES ASSUME cpu_reads > 0
               PROVE  /\ \A f \in {"vendor", "model"} : \A i \in 1 .. FIELD :
                           /\ ByteAfter(cpuinfo', f, i, Len(cpuinfo') + 1, cpu_first'[f][i], NUL)
                           /\ ByteAfter(cpuinfo', f, i, Passed', cpu'[f][i], cpu_first'[f][i])
                      /\ CoresAfter(cpuinfo', Len(cpuinfo') + 1, cpu_first'.cores, 0)
                      /\ CoresAfter(cpuinfo', Passed', cpu'.cores, cpu_first'.cores)
    BY <1>2 DEF LaterRead
  <2>1. /\ \A f \in {"vendor", "model"} : \A i \in 1 .. FIELD :
             /\ ByteAfter(cpuinfo, f, i, Len(cpuinfo) + 1, cpu_first[f][i], NUL)
             /\ ByteAfter(cpuinfo, f, i, k, cpu[f][i], cpu_first[f][i])
        /\ CoresAfter(cpuinfo, Len(cpuinfo) + 1, cpu_first.cores, 0)
        /\ CoresAfter(cpuinfo, k, cpu.cores, cpu_first.cores)
    BY <1>4 DEF CpuInv, LaterRead
  <2>2. {"vendor", "model"} \subseteq TextFields
    BY DEF TextFields
  <2>3. \A f \in {"vendor", "model"} : \A i \in 1 .. FIELD :
          ByteAfter(cpuinfo, f, i, k + 1, cpu'[f][i], cpu_first[f][i])
    BY <1>7, <2>1, <2>2
  <2>4. CoresAfter(cpuinfo, k + 1, cpu'.cores, cpu_first.cores)
    BY <1>8, <2>1
  <2> QED BY <1>2, <1>4, <2>1, <2>3, <2>4
<1> QED BY <1>6, <1>9, <1>10 DEF CpuInv

(* The two files differ in the values of frequency lines at most. *)
SameButFrequencies(old, new) ==
  /\ DOMAIN new = DOMAIN old
  /\ \A j \in DOMAIN old :
       /\ new[j].key = old[j].key
       /\ old[j].key # "frequency" => new[j] = old[j]

(* Between calls only the values of the frequency lines change. *)
LEMMA BeginFacts ==
  ASSUME CpuShape, NEW now \in [LinesOf("frequency") -> Frequencies], CpuBegin(now)
  PROVE  /\ cpuinfo' \in Seq(CpuLine) /\ Len(cpuinfo') = Len(cpuinfo)
         /\ SameButFrequencies(cpuinfo, cpuinfo')
<1>1. /\ Len(cpuinfo) \in Nat /\ DOMAIN cpuinfo = 1 .. Len(cpuinfo)
      /\ \A j \in DOMAIN cpuinfo : cpuinfo[j] \in CpuLine
  BY CpuFileFacts
<1>2. DOMAIN now = {j \in DOMAIN cpuinfo : cpuinfo[j].key = "frequency"}
  BY DEF LinesOf
<1>3. cpuinfo' = [j \in DOMAIN cpuinfo |->
                    IF j \in DOMAIN now THEN [cpuinfo[j] EXCEPT !.value = now[j]] ELSE cpuinfo[j]]
  BY DEF CpuBegin
<1>4. ASSUME NEW j \in DOMAIN cpuinfo
      PROVE  /\ cpuinfo'[j] \in CpuLine /\ cpuinfo'[j].key = cpuinfo[j].key
             /\ cpuinfo[j].key # "frequency" => cpuinfo'[j] = cpuinfo[j]
  <2>1. CASE cpuinfo[j].key = "frequency"
    <3>1. PICK r, v : r = cpuinfo[j] /\ v = now[j]
      OBVIOUS
    <3>2. r \in [key : {"frequency"}, value : Frequencies]
      BY <1>1, <2>1, <3>1 DEF CpuLine
    <3>3. v \in Frequencies
      BY <1>2, <2>1, <3>1
    <3>4. cpuinfo'[j] = [r EXCEPT !.value = v]
      BY <1>2, <1>3, <2>1, <3>1
    <3>5. [r EXCEPT !.value = v] \in [key : {"frequency"}, value : Frequencies]
          /\ [r EXCEPT !.value = v].key = r.key
      BY <3>2, <3>3
    <3> QED BY <2>1, <3>1, <3>4, <3>5 DEF CpuLine
  <2>2. CASE cpuinfo[j].key # "frequency"
    BY <1>1, <1>2, <1>3, <2>2
  <2> QED BY <2>1, <2>2
<1>5. cpuinfo' \in [1 .. Len(cpuinfo) -> CpuLine] /\ DOMAIN cpuinfo' = DOMAIN cpuinfo
  BY <1>1, <1>3, <1>4
<1>6. cpuinfo' \in Seq(CpuLine) /\ Len(cpuinfo') = Len(cpuinfo)
  BY <1>1, <1>5
<1> QED BY <1>4, <1>5, <1>6 DEF SameButFrequencies

(* Lines of other keys are where and what they were. *)
LEMMA SameLines ==
  ASSUME NEW old, NEW new, SameButFrequencies(old, new), NEW f, f # "frequency", NEW i, NEW k
  PROVE  /\ Reaching(new, f, i, k) = Reaching(old, f, i, k)
         /\ \A m \in Reaching(old, f, i, k) : new[m] = old[m]
<1>1. \A j \in DOMAIN old : new[j].key = f <=> old[j].key = f
  BY DEF SameButFrequencies
<1>2. \A j \in DOMAIN old : old[j].key = f => new[j] = old[j]
  BY DEF SameButFrequencies
<1>3. \A j \in DOMAIN old :
        (j < k /\ new[j].key = f /\ Len(new[j].value) >= i)
          <=> (j < k /\ old[j].key = f /\ Len(old[j].value) >= i)
  BY <1>1, <1>2, Zenon
<1>4. Reaching(new, f, i, k) = Reaching(old, f, i, k)
  BY <1>3 DEF Reaching, SameButFrequencies
<1>5. \A m \in Reaching(old, f, i, k) : new[m] = old[m]
  BY <1>2 DEF Reaching
<1> QED BY <1>4, <1>5

LEMMA SameCores ==
  ASSUME NEW old, NEW new, SameButFrequencies(old, new), NEW k
  PROVE  /\ CoresBefore(new, k) = CoresBefore(old, k)
         /\ \A m \in CoresBefore(old, k) : new[m] = old[m]
  BY DEF CoresBefore, SameButFrequencies

LEMMA CpuBeginInv ==
  ASSUME CpuInv, NEW now \in [LinesOf("frequency") -> Frequencies], CpuBegin(now)
  PROVE  CpuInv'
<1>1. /\ cpu_line = 0 /\ cpu_line' = 1 /\ cpu' = cpu
      /\ cpu_reads' = cpu_reads /\ cpu_first' = cpu_first
  BY DEF CpuBegin
<1>2. CpuShape /\ Len(cpuinfo) \in Nat /\ DOMAIN cpuinfo = 1 .. Len(cpuinfo)
      /\ cpu_reads \in Nat
  BY CpuFileFacts DEF CpuInv, CpuShape
<1>3. /\ cpuinfo' \in Seq(CpuLine) /\ Len(cpuinfo') = Len(cpuinfo)
      /\ SameButFrequencies(cpuinfo, cpuinfo') /\ DOMAIN cpuinfo' = DOMAIN cpuinfo
  BY <1>2, BeginFacts DEF SameButFrequencies
<1>4. CpuShape'
  BY <1>1, <1>2, <1>3 DEF CpuShape
<1>5. Passed' = 1
  BY <1>1 DEF Passed
<1>6. /\ \A f, i : Reaching(cpuinfo', f, i, 1) = {} /\ Reaching(cpuinfo, f, i, 0) = {}
      /\ CoresBefore(cpuinfo', 1) = {} /\ CoresBefore(cpuinfo, 0) = {}
  BY <1>2, <1>3 DEF Reaching, CoresBefore
<1>7. FirstRead'
  <2> SUFFICES ASSUME cpu_reads = 0
               PROVE  /\ \A f \in TextFields : \A i \in 1 .. FIELD :
                           ByteAfter(cpuinfo', f, i, Passed', cpu'[f][i], NUL)
                      /\ CoresAfter(cpuinfo', Passed', cpu'.cores, 0)
    BY <1>1 DEF FirstRead
  <2>1. Passed = 0
    BY <1>1 DEF Passed
  <2>2. /\ \A f \in TextFields : \A i \in 1 .. FIELD : cpu[f][i] = NUL
        /\ cpu.cores = 0
    BY <1>6, <2>1 DEF CpuInv, FirstRead, ByteAfter, CoresAfter
  <2> QED BY <1>1, <1>5, <1>6, <2>2 DEF ByteAfter, CoresAfter
<1>8. LaterRead'
  <2> SUFFICES ASSUME cpu_reads > 0
               PROVE  /\ \A f \in {"vendor", "model"} : \A i \in 1 .. FIELD :
                           /\ ByteAfter(cpuinfo', f, i, Len(cpuinfo') + 1, cpu_first'[f][i], NUL)
                           /\ ByteAfter(cpuinfo', f, i, Passed', cpu'[f][i], cpu_first'[f][i])
                      /\ CoresAfter(cpuinfo', Len(cpuinfo') + 1, cpu_first'.cores, 0)
                      /\ CoresAfter(cpuinfo', Passed', cpu'.cores, cpu_first'.cores)
    BY <1>1 DEF LaterRead
  <2>1. PICK k : k = Len(cpuinfo) + 1
    OBVIOUS
  <2>2. Passed = k
    BY <1>1, <2>1 DEF Passed
  <2>3. ASSUME NEW f \in {"vendor", "model"}, NEW i \in 1 .. FIELD
        PROVE  /\ ByteAfter(cpuinfo', f, i, Len(cpuinfo') + 1, cpu_first'[f][i], NUL)
               /\ ByteAfter(cpuinfo', f, i, Passed', cpu'[f][i], cpu_first'[f][i])
    <3>1. PICK x, y : x = cpu_first[f][i] /\ y = cpu[f][i]
      OBVIOUS
    <3>2. ByteAfter(cpuinfo, f, i, k, x, NUL) /\ ByteAfter(cpuinfo, f, i, k, y, x)
      BY <2>1, <2>2, <2>3, <3>1 DEF CpuInv, LaterRead
    <3>3. x = y
      BY <1>2, <3>2, ByteSame
    <3>4. /\ Reaching(cpuinfo', f, i, k) = Reaching(cpuinfo, f, i, k)
          /\ \A m \in Reaching(cpuinfo, f, i, k) : cpuinfo'[m] = cpuinfo[m]
      <4>1. f # "frequency"
        BY <2>3
      <4> QED BY <1>3, <4>1, SameLines
    <3>6. ByteAfter(cpuinfo', f, i, k, x, NUL)
      BY <3>2, <3>4 DEF ByteAfter
    <3>7. ByteAfter(cpuinfo', f, i, 1, y, x)
      BY <1>6, <3>3 DEF ByteAfter
    <3> QED BY <1>1, <1>3, <1>5, <2>1, <3>1, <3>6, <3>7
  <2>4. CoresAfter(cpuinfo', Len(cpuinfo') + 1, cpu_first'.cores, 0)
        /\ CoresAfter(cpuinfo', Passed', cpu'.cores, cpu_first'.cores)
    <3>1. PICK x, y : x = cpu_first.cores /\ y = cpu.cores
      OBVIOUS
    <3>2. CoresAfter(cpuinfo, k, x, 0) /\ CoresAfter(cpuinfo, k, y, x)
      BY <2>1, <2>2, <3>1 DEF CpuInv, LaterRead
    <3>3. x = y
      BY <1>2, <3>2, CoresSame
    <3>4. CoresBefore(cpuinfo', k) = CoresBefore(cpuinfo, k)
          /\ \A m \in CoresBefore(cpuinfo, k) : cpuinfo'[m] = cpuinfo[m]
      BY <1>3, SameCores
    <3>5. CoresAfter(cpuinfo', k, x, 0)
      BY <3>2, <3>4 DEF CoresAfter
    <3>6. CoresAfter(cpuinfo', 1, y, x)
      BY <1>6, <3>3 DEF CoresAfter
    <3> QED BY <1>1, <1>3, <1>5, <2>1, <3>1, <3>5, <3>6
  <2> QED BY <2>3, <2>4
<1> QED BY <1>4, <1>7, <1>8 DEF CpuInv

LEMMA CpuEndInv ==
  ASSUME CpuInv, CpuEnd
  PROVE  CpuInv'
<1>1. /\ cpu_line = Len(cpuinfo) + 1 /\ cpu_line' = 0 /\ cpu_reads' = cpu_reads + 1
      /\ cpu_first' = IF cpu_reads = 0 THEN cpu ELSE cpu_first
      /\ cpu' = cpu /\ cpuinfo' = cpuinfo
  BY DEF CpuEnd
<1>2. CpuShape /\ Len(cpuinfo) \in Nat /\ cpu_reads \in Nat
  BY CpuFileFacts DEF CpuInv, CpuShape
<1>3. PICK k : k = Len(cpuinfo) + 1
  OBVIOUS
<1>4. Passed = k /\ Passed' = k /\ Len(cpuinfo') + 1 = k
  BY <1>1, <1>2, <1>3 DEF Passed
<1>5. CpuShape'
  BY <1>1, <1>2 DEF CpuShape
<1>6. CASE cpu_reads = 0
  <2>1. /\ \A f \in TextFields : \A i \in 1 .. FIELD : ByteAfter(cpuinfo, f, i, k, cpu[f][i], NUL)
        /\ CoresAfter(cpuinfo, k, cpu.cores, 0)
    BY <1>4, <1>6 DEF CpuInv, FirstRead
  <2>2. cpu_first' = cpu
    BY <1>1, <1>6
  <2>3. FirstRead'
    BY <1>1, <1>4, <2>1 DEF FirstRead
  <2>4. {"vendor", "model"} \subseteq TextFields
    BY DEF TextFields
  <2>5. \A f, i, x : ByteAfter(cpuinfo, f, i, k, x, NUL) => ByteAfter(cpuinfo, f, i, k, x, x)
    BY DEF ByteAfter
  <2>6. \A x : CoresAfter(cpuinfo, k, x, 0) => CoresAfter(cpuinfo, k, x, x)
    BY DEF CoresAfter
  <2>7. LaterRead'
    BY <1>1, <1>4, <2>1, <2>2, <2>4, <2>5, <2>6 DEF LaterRead
  <2> QED BY <1>5, <2>3, <2>7 DEF CpuInv
<1>7. CASE cpu_reads # 0
  <2>1. cpu_reads > 0 /\ cpu_reads' > 1 /\ cpu_first' = cpu_first
    BY <1>1, <1>2, <1>7
  <2>2. FirstRead'
    BY <1>1, <1>2, <2>1 DEF FirstRead
  <2>3. LaterRead'
    BY <1>1, <1>3, <1>4, <2>1 DEF CpuInv, LaterRead
  <2> QED BY <1>5, <2>2, <2>3 DEF CpuInv
<1> QED BY <1>6, <1>7

LEMMA CpuStepInv ==
  ASSUME CpuInv, [CpuNext]_cpuVars
  PROVE  CpuInv'
<1>1. ASSUME /\ cpuinfo' = cpuinfo /\ cpu_line' = cpu_line /\ cpu_reads' = cpu_reads
             /\ cpu_first' = cpu_first /\ DOMAIN cpu' = DOMAIN cpu
             /\ \A f \in TextFields : cpu'[f] = cpu[f]
             /\ cpu'.cores = cpu.cores
      PROVE  CpuInv'
  <2>1. Passed' = Passed
    BY <1>1 DEF Passed
  <2>2. CpuShape'
    BY <1>1 DEF CpuInv, CpuShape
  <2>3. FirstRead'
    BY <1>1, <2>1 DEF CpuInv, FirstRead
  <2>4. LaterRead'
    <3>1. {"vendor", "model"} \subseteq TextFields
      BY DEF TextFields
    <3> QED BY <1>1, <2>1, <3>1 DEF CpuInv, LaterRead
  <2> QED BY <2>2, <2>3, <2>4 DEF CpuInv
<1>2. ASSUME NEW line \in StatLines, cpu_read_usage(line) PROVE CpuInv'
  <2>1. /\ DOMAIN cpu' = DOMAIN cpu /\ cpu'.cores = cpu.cores
        /\ \A f \in TextFields : cpu'[f] = cpu[f]
    BY <1>2 DEF cpu_read_usage, CpuInv, CpuShape, ZeroCpu, TextFields
  <2> QED BY <1>1, <1>2, <2>1 DEF cpu_read_usage
<1>3. CASE UNCHANGED cpuVars
  BY <1>1, <1>3 DEF cpuVars
<1>4. CASE CpuAborts
  <2>1. /\ cpu_line = 0 /\ cpu_line' = -1
        /\ UNCHANGED <<cpu, cpuinfo, cpu_reads, cpu_first>>
    BY <1>4 DEF CpuAborts
  <2>2. Passed' = Passed
    BY <2>1 DEF Passed
  <2>3. CpuShape'
    BY <2>1, CpuFileFacts DEF CpuInv, CpuShape
  <2>4. FirstRead' /\ LaterRead'
    BY <2>1, <2>2 DEF CpuInv, FirstRead, LaterRead
  <2> QED BY <2>3, <2>4 DEF CpuInv
<1> QED BY <1>2, <1>3, <1>4, CpuBeginInv, CpuReadLineInv, CpuEndInv DEF CpuNext

(* The inductive invariant: every byte of a text field is that of the last  *)
(* line that reaches it.                                                    *)
THEOREM CpuInvariance == CpuSpec => []CpuInv
  BY CpuInitInv, CpuStepInv, PTL DEF CpuSpec

(* The whole line goes to parse_u64, which stops at its first letter. *)
LEMMA CoresOfIsZero ==
  ASSUME NEW line \in CpuLine, line.key = "cores"
  PROVE  CoresOf(line) = 0
<1>1. PICK prefix, value, buf :
        prefix = <<99, 112, 117, SPACE>> /\ value = line.value /\ buf = prefix \o value
  OBVIOUS
<1>2. value \in Seq(Nat)
  <2>1. PICK n \in CoreCounts : value = Decimal[n]
    BY <1>1 DEF CpuLine
  <2>2. n \in Nat
    BY CpuAssumption
  <2>3. value \in Seq(Digits)
    BY <2>1, <2>2, DecimalDigits
  <2>4. Digits \subseteq Nat
    BY DEF Digits
  <2> QED BY <2>3, <2>4, SeqWiden
<1>3. prefix \in Seq(Nat)
  BY <1>1 DEF SPACE
<1>4. Len(prefix) = 4 /\ prefix[1] = 99
  BY <1>1
<1>5. /\ buf \in Seq(Nat) /\ Len(buf) = Len(prefix) + Len(value)
      /\ \A i \in 1 .. Len(prefix) + Len(value) :
           buf[i] = IF i <= Len(prefix) THEN prefix[i] ELSE value[i - Len(prefix)]
  BY <1>1, <1>2, <1>3, ConcatProperties
<1>6. Len(value) \in Nat
  BY <1>2
<1>7. Len(buf) \in Nat /\ 1 \in 1 .. Len(buf) /\ 4 + Len(value) \in Nat /\ 0 < 4 + Len(value)
  BY <1>4, <1>5, <1>6
<1>8. buf[1] = 99
  BY <1>4, <1>5, <1>6
<1>9. buf[1] \notin Digits
  BY <1>8 DEF Digits
<1>10. FirstNotIn(buf, Digits) = 1
  BY <1>7, <1>9, FirstNotInIs
<1>11. DigitRun(buf, 4 + Len(value)) = 0
  BY <1>7, <1>10 DEF DigitRun
<1>12. PICK v : Values(buf, v, Len(buf)) /\ parse_u64(buf, 4 + Len(value)) = v[DigitRun(buf, 4 + Len(value))]
  BY <1>7, ParseValues
<1>13. v[0] = 0
  BY <1>7, <1>12 DEF Values, Accumulate
<1> QED BY <1>1, <1>11, <1>12, <1>13 DEF CoresOf

LEMMA CpuStartTypes ==
  ASSUME NEW file, Len(file) \in Nat, CpuStart(file)
  PROVE  CpuTypeInv
<1>1. FIELD \in 1 .. FIELD /\ FIELD \in Nat /\ MaxReads \in Nat
  BY CpuAssumption
<1>2. Zeroes(FIELD) \in Seq(Nat) /\ Len(Zeroes(FIELD)) = FIELD /\ Zeroes(FIELD)[FIELD] = NUL
  BY <1>1 DEF Zeroes, NUL
<1>3. \A f \in TextFields : cpu[f] = Zeroes(FIELD)
  BY DEF CpuStart, TextFields, ZeroCpu
<1>4. cpu.cores = 0 /\ cpu.total_time = 0 /\ cpu.idle_time = 0
  BY DEF CpuStart, ZeroCpu
<1>5. cpu_line = 0 /\ cpu_reads = 0 /\ cpuinfo = file
  BY DEF CpuStart
<1> QED BY <1>1, <1>2, <1>3, <1>4, <1>5 DEF CpuTypeInv, CpuTypeOK

LEMMA CpuStepTypes ==
  ASSUME CpuShape, CpuTypeInv, [CpuNext]_cpuVars
  PROVE  CpuTypeInv'
<1>1. /\ FIELD \in 1 .. FIELD /\ FIELD \in Nat /\ MaxReads \in Nat
      /\ Len(cpuinfo) \in Nat /\ DOMAIN cpuinfo = 1 .. Len(cpuinfo)
  BY CpuAssumption, CpuFileFacts
<1>2. /\ cpu_line \in -1 .. Len(cpuinfo) + 1 /\ cpu_reads \in 0 .. MaxReads
      /\ cpu_line \in Int /\ cpu_reads \in Nat /\ cpu_reads <= MaxReads
      /\ cpu_line > 0 => cpu_reads < MaxReads
  BY <1>1 DEF CpuTypeInv, CpuTypeOK
<1>3. ASSUME NEW now \in [LinesOf("frequency") -> Frequencies], CpuBegin(now) PROVE CpuTypeInv'
  <2>1. Len(cpuinfo') = Len(cpuinfo)
    BY <1>3, BeginFacts
  <2>2. /\ cpu' = cpu /\ cpu_line' = 1 /\ cpu_reads' = cpu_reads /\ cpu_reads < MaxReads
        /\ cpu_line' \in -1 .. Len(cpuinfo') + 1
    BY <1>1, <1>3, <2>1 DEF CpuBegin
  <2> QED BY <1>2, <2>2 DEF CpuTypeInv, CpuTypeOK
<1>4. CASE CpuReadLine
  <2>1. PICK line : line = cpuinfo[cpu_line]
    OBVIOUS
  <2>2. /\ cpu_line \in 1 .. Len(cpuinfo) /\ cpu_line' = cpu_line + 1 /\ cpuinfo' = cpuinfo
        /\ cpu_reads' = cpu_reads
    BY <1>1, <1>4 DEF CpuReadLine
  <2>3. /\ \A f \in TextFields : cpu'[f] \in Seq(Nat) /\ Len(cpu'[f]) = FIELD
        /\ \A f \in TextFields : \A i \in 1 .. FIELD :
             cpu'[f][i] = IF line.key = f /\ i <= Len(line.value) THEN line.value[i] ELSE cpu[f][i]
        /\ cpu'.cores = IF line.key = "cores" THEN CoresOf(line) ELSE cpu.cores
    BY <1>4, <2>1, ReadLineFacts
  <2>4. ASSUME NEW f \in TextFields PROVE cpu'[f][FIELD] = NUL
    <3>1. line.key = f => ~(FIELD <= Len(line.value))
      <4> SUFFICES ASSUME line.key = f PROVE ~(FIELD <= Len(line.value))
        OBVIOUS
      <4>1. Len(line.value) \in Nat /\ Len(line.value) < FIELD
        BY <1>1, <2>1, <2>2, CpuValueFacts
      <4> QED BY <1>1, <4>1
    <3>2. cpu'[f][FIELD] = cpu[f][FIELD]
      BY <1>1, <2>3, <3>1
    <3> QED BY <3>2 DEF CpuTypeInv, CpuTypeOK
  <2>5. cpu'.cores \in Nat
    <3>1. line \in CpuLine
      BY <1>1, <2>1, <2>2, CpuFileFacts
    <3>2. CASE line.key = "cores"
      <4>1. cpu'.cores = 0
        BY <2>3, <3>1, <3>2, CoresOfIsZero
      <4> QED BY <4>1
    <3>3. CASE line.key # "cores"
      BY <2>3, <3>3 DEF CpuTypeInv, CpuTypeOK
    <3> QED BY <3>2, <3>3
  <2>6. cpu'.total_time = cpu.total_time /\ cpu'.idle_time = cpu.idle_time
    BY <1>4 DEF CpuReadLine, TextFields, CpuShape, ZeroCpu
  <2>7. cpu_line' \in -1 .. Len(cpuinfo') + 1 /\ cpu_reads < MaxReads
    BY <1>1, <1>2, <2>2
  <2> QED BY <1>2, <2>2, <2>3, <2>4, <2>5, <2>6, <2>7 DEF CpuTypeInv, CpuTypeOK
<1>5. CASE CpuEnd
  <2>1. /\ cpu' = cpu /\ cpuinfo' = cpuinfo /\ cpu_line' = 0 /\ cpu_reads' = cpu_reads + 1
        /\ cpu_line > 0
    BY <1>1, <1>5 DEF CpuEnd
  <2>2. cpu_reads' \in 0 .. MaxReads /\ cpu_line' \in -1 .. Len(cpuinfo') + 1
    BY <1>1, <1>2, <2>1
  <2> QED BY <2>1, <2>2 DEF CpuTypeInv, CpuTypeOK
<1>6. ASSUME NEW line \in StatLines, cpu_read_usage(line) PROVE CpuTypeInv'
  <2>1. /\ cpu'.cores = cpu.cores
        /\ \A f \in TextFields : cpu'[f] = cpu[f]
    BY <1>6 DEF cpu_read_usage, CpuShape, ZeroCpu, TextFields
  <2>2. UNCHANGED <<cpuinfo, cpu_line, cpu_reads>>
    BY <1>6 DEF cpu_read_usage
  <2>3. cpu'.total_time \in Nat /\ cpu'.idle_time \in 0 .. cpu'.total_time
    <3>1. CASE line.fields < 8
      BY <1>6, <3>1 DEF cpu_read_usage, CpuTypeInv, CpuTypeOK
    <3>2. CASE ~(line.fields < 8)
      <4>1. PICK busy, idle, iowait : busy = line.busy /\ idle = line.idle /\ iowait = line.iowait
        OBVIOUS
      <4>2. busy \in Nat /\ idle \in Nat /\ iowait \in Nat /\ busy + idle + iowait < U64
        BY <4>1, CpuAssumption
      <4>3. cpu' = [cpu EXCEPT !.idle_time = (idle + iowait) % U64,
                               !.total_time = (busy + idle + iowait) % U64]
        BY <1>6, <3>2, <4>1 DEF cpu_read_usage
      <4>4. /\ cpu'.idle_time = (idle + iowait) % U64
            /\ cpu'.total_time = (busy + idle + iowait) % U64
        BY <4>3 DEF CpuShape, ZeroCpu
      <4>5. idle + iowait \in 0 .. U64 - 1 /\ busy + idle + iowait \in 0 .. U64 - 1
        BY <4>2, ParseAssumption
      <4>6. cpu'.idle_time = idle + iowait /\ cpu'.total_time = busy + idle + iowait
        BY <4>2, <4>4, <4>5, Remainder
      <4> QED BY <4>2, <4>6
    <3> QED BY <3>1, <3>2
  <2> QED BY <2>1, <2>2, <2>3 DEF CpuTypeInv, CpuTypeOK
<1>7. CASE UNCHANGED cpuVars
  BY <1>7 DEF cpuVars, CpuTypeInv, CpuTypeOK
<1>8. CASE CpuAborts
  <2>1. cpu_line' = -1 /\ UNCHANGED <<cpu, cpuinfo, cpu_reads>>
    BY <1>8 DEF CpuAborts
  <2>2. cpu_line' \in -1 .. Len(cpuinfo') + 1
    BY <1>1, <2>1
  <2> QED BY <2>1, <2>2 DEF CpuTypeInv, CpuTypeOK
<1> QED BY <1>3, <1>4, <1>5, <1>6, <1>7, <1>8 DEF CpuNext

(* Every text of the sys_cpu ends inside its field, although no terminating *)
(* zero is written, for any file and any number of calls, and the idle time *)
(* is a part of the total.                                                  *)
THEOREM CpuTypes == CpuSpec => []CpuTypeOK
<1>1. CpuInit => CpuTypeInv
  <2> SUFFICES ASSUME NEW n \in 0 .. MaxLines, NEW file \in [1 .. n -> CpuLine], CpuStart(file)
               PROVE  CpuTypeInv
    BY DEF CpuInit
  <2>1. n \in Nat
    BY CpuAssumption
  <2>2. Len(file) \in Nat
    BY <2>1
  <2> QED BY <2>2, CpuStartTypes
<1>2. CpuInv /\ CpuTypeInv /\ [CpuNext]_cpuVars => CpuTypeInv'
  BY CpuStepTypes DEF CpuInv
<1>3. CpuTypeInv => CpuTypeOK
  BY DEF CpuTypeInv
<1> QED BY <1>1, <1>2, <1>3, CpuInvariance, PTL DEF CpuSpec

NoCores == cpu.cores = 0

(* cpu_read_amd64 never finds a number of cores: the count stays what the   *)
(* arena gave it, 0, whatever /proc/cpuinfo says.                           *)
THEOREM CoresNeverFound == CpuSpec => []NoCores
<1>1. CpuInit => NoCores
  BY DEF NoCores, CpuInit, CpuStart, ZeroCpu
<1>2. CpuInv /\ NoCores /\ [CpuNext]_cpuVars => NoCores'
  <2> SUFFICES ASSUME CpuInv, cpu.cores = 0, [CpuNext]_cpuVars PROVE cpu'.cores = 0
    BY DEF NoCores
  <2>1. CpuShape
    BY DEF CpuInv
  <2>2. CASE CpuReadLine
    <3>1. PICK line : line = cpuinfo[cpu_line]
      OBVIOUS
    <3>2. line \in CpuLine
      BY <2>1, <2>2, <3>1, CpuFileFacts DEF CpuReadLine
    <3>3. cpu'.cores = IF line.key = "cores" THEN CoresOf(line) ELSE cpu.cores
      BY <2>1, <2>2, <3>1, ReadLineFacts
    <3> QED BY <3>2, <3>3, CoresOfIsZero
  <2>3. ASSUME NEW line \in StatLines, cpu_read_usage(line) PROVE cpu'.cores = cpu.cores
    BY <2>1, <2>3 DEF cpu_read_usage, CpuShape, ZeroCpu
  <2> QED BY <2>2, <2>3 DEF CpuNext, CpuBegin, CpuEnd, CpuAborts, cpuVars
<1> QED BY <1>1, <1>2, CpuInvariance, PTL DEF CpuSpec

(* Reading again into the same sys_cpu leaves vendor, model and cores as    *)
(* the first cpu_read_amd64 left them, for any file and any frequencies.    *)
THEOREM CpuIdempotent == CpuSpec => []StaticFieldsIdempotent
<1>1. CpuInv => StaticFieldsIdempotent
  <2> SUFFICES ASSUME CpuInv, CpuRead PROVE StaticFieldsIdempotent
    BY DEF StaticFieldsIdempotent
  <2>1. CpuShape /\ LaterRead /\ cpu_reads > 0 /\ Passed = Len(cpuinfo) + 1
    BY DEF CpuInv, CpuRead, Passed
  <2>2. ASSUME NEW f \in {"vendor", "model"} PROVE cpu[f] = cpu_first[f]
    <3>1. /\ cpu[f] \in Seq(Nat) /\ Len(cpu[f]) = FIELD
          /\ cpu_first[f] \in Seq(Nat) /\ Len(cpu_first[f]) = FIELD
      BY <2>1 DEF CpuShape, TextFields
    <3>2. ASSUME NEW i \in 1 .. FIELD PROVE cpu[f][i] = cpu_first[f][i]
      <4>1. PICK k, x, y : k = Len(cpuinfo) + 1 /\ x = cpu_first[f][i] /\ y = cpu[f][i]
        OBVIOUS
      <4>2. ByteAfter(cpuinfo, f, i, k, x, NUL) /\ ByteAfter(cpuinfo, f, i, k, y, x)
        BY <2>1, <4>1 DEF LaterRead
      <4>3. x = y
        BY <2>1, <4>2, ByteSame
      <4> QED BY <4>1, <4>3
    <3>3. PICK s, t : s = cpu[f] /\ t = cpu_first[f]
      OBVIOUS
    <3>4. s = t
      BY <3>1, <3>2, <3>3, SeqEqual
    <3> QED BY <3>3, <3>4
  <2>3. cpu.cores = cpu_first.cores
    <3>1. PICK k, x, y : k = Len(cpuinfo) + 1 /\ x = cpu_first.cores /\ y = cpu.cores
      OBVIOUS
    <3>2. CoresAfter(cpuinfo, k, x, 0) /\ CoresAfter(cpuinfo, k, y, x)
      BY <2>1, <3>1 DEF LaterRead
    <3>3. x = y
      BY <2>1, <3>2, CoresSame
    <3> QED BY <3>1, <3>3
  <2>4. cpu.vendor = cpu_first.vendor /\ cpu.model = cpu_first.model
    BY <2>2
  <2> QED BY <2>3, <2>4 DEF StaticFieldsIdempotent
<1> QED BY <1>1, CpuInvariance, PTL

(* After the first cpu_read_amd64 a text field is the value of its last     *)
(* line if, and only if, no line before it had a longer one.                *)
THEOREM CpuTexts == CpuSpec => []TextOfLastUnlessLonger
<1>1. ASSUME CpuInv, cpu_line = 0, cpu_reads = 1, NEW f \in TextFields, LinesOf(f) # {},
             NEW last, last = cpuinfo[LastOf(f)].value
      PROVE  (Text(cpu[f]) = last)
               <=> (\A i \in LinesOf(f) : Len(cpuinfo[i].value) <= Len(last))
  <2>1. CpuShape /\ FirstRead /\ Len(cpuinfo) \in Nat /\ DOMAIN cpuinfo = 1 .. Len(cpuinfo)
        /\ FIELD \in Nat
    BY <1>1, CpuFileFacts, CpuAssumption DEF CpuInv
  <2>2. PICK k, buf, l : k = Len(cpuinfo) + 1 /\ buf = cpu[f] /\ l = LastOf(f)
    OBVIOUS
  <2>3. buf \in Seq(Nat) /\ Len(buf) = FIELD
    BY <2>1, <2>2 DEF CpuShape
  <2>4. Passed = k
    BY <1>1, <2>2 DEF Passed
  <2>5. \A i \in 1 .. FIELD : ByteAfter(cpuinfo, f, i, k, buf[i], NUL)
    BY <1>1, <2>1, <2>2, <2>4 DEF FirstRead
  <2>6. l \in LinesOf(f) /\ \A j \in LinesOf(f) : j <= l
    <3>1. LinesOf(f) \subseteq 1 .. Len(cpuinfo)
      BY <2>1, CpuFileFacts
    <3>2. \E m \in LinesOf(f) : \A j \in LinesOf(f) : j <= m
      BY <1>1, <2>1, <3>1, GreatestExists
    <3> QED BY <2>2, <3>2 DEF LastOf
  <2>7. \A j \in LinesOf(f) : /\ cpuinfo[j].value \in Seq(Nat \ {NUL})
                              /\ Len(cpuinfo[j].value) \in Nat
                              /\ Len(cpuinfo[j].value) < FIELD
    BY <2>1, CpuValueFacts DEF LinesOf
  <2>8. last \in Seq(Nat \ {NUL}) /\ Len(last) \in Nat /\ Len(last) < FIELD
    BY <1>1, <2>2, <2>6, <2>7
  <2>9. \A i : Reaching(cpuinfo, f, i, k) = {j \in LinesOf(f) : Len(cpuinfo[j].value) >= i}
    BY <2>1, <2>2 DEF Reaching, LinesOf
  <2>10. ASSUME \A j \in LinesOf(f) : Len(cpuinfo[j].value) <= Len(last)
         PROVE  Text(buf) = last
    <3>1. ASSUME NEW i \in 1 .. Len(last) PROVE buf[i] = last[i]
      <4>1. i \in 1 .. FIELD /\ i \in Nat
        BY <2>1, <2>8
      <4>2. l \in Reaching(cpuinfo, f, i, k)
        BY <1>1, <2>2, <2>6, <2>8, <2>9
      <4>3. PICK m \in Reaching(cpuinfo, f, i, k) :
              (\A j \in Reaching(cpuinfo, f, i, k) : j <= m) /\ buf[i] = cpuinfo[m].value[i]
        BY <2>5, <4>1, <4>2 DEF ByteAfter
      <4>4. m \in LinesOf(f) /\ l <= m /\ m <= l
        BY <2>6, <2>9, <4>2, <4>3
      <4>5. m \in Nat /\ l \in Nat
        BY <2>1, <2>6, <4>4 DEF LinesOf
      <4>6. m = l
        BY <4>4, <4>5
      <4> QED BY <1>1, <2>2, <4>3, <4>6
    <3>2. buf[Len(last) + 1] = NUL
      <4>1. PICK i : i = Len(last) + 1
        OBVIOUS
      <4>2. i \in 1 .. FIELD
        BY <2>1, <2>8, <4>1
      <4>3. \A j \in LinesOf(f) : ~(Len(cpuinfo[j].value) >= i)
        BY <2>7, <2>8, <2>10, <4>1
      <4>4. Reaching(cpuinfo, f, i, k) = {}
        BY <2>9, <4>3
      <4>5. buf[i] = NUL
        BY <2>5, <4>2, <4>4 DEF ByteAfter
      <4> QED BY <4>1, <4>5
    <3> QED BY <2>3, <2>8, <3>1, <3>2, TextExact
  <2>11. ASSUME Text(buf) = last, NEW j \in LinesOf(f), ~(Len(cpuinfo[j].value) <= Len(last))
         PROVE  FALSE
    <3>1. PICK i : i = Len(last) + 1
      OBVIOUS
    <3>2. i \in 1 .. FIELD
      BY <2>1, <2>8, <3>1
    <3>3. Len(cpuinfo[j].value) >= i
      BY <2>7, <2>8, <2>11, <3>1
    <3>4. Reaching(cpuinfo, f, i, k) # {}
      BY <2>9, <2>11, <3>3
    <3>5. PICK m \in Reaching(cpuinfo, f, i, k) : buf[i] = cpuinfo[m].value[i]
      BY <2>5, <3>2, <3>4 DEF ByteAfter
    <3>6. m \in LinesOf(f) /\ Len(cpuinfo[m].value) >= i
      BY <2>9
    <3>7. cpuinfo[m].value[i] # NUL
      <4>1. PICK v : v = cpuinfo[m].value
        OBVIOUS
      <4>2. v \in Seq(Nat \ {NUL}) /\ Len(v) \in Nat /\ i \in 1 .. Len(v)
        BY <2>1, <2>7, <3>2, <3>6, <4>1
      <4> QED BY <4>1, <4>2
    <3>8. buf[i] = NUL
      <4>1. Len(Text(buf)) < Len(buf)
        BY <2>3, <2>8, <2>11
      <4>2. buf[Len(Text(buf)) + 1] = NUL
        BY <2>3, <4>1, TextEnds
      <4> QED BY <2>11, <3>1, <4>2
    <3> QED BY <3>5, <3>7, <3>8
  <2> QED BY <2>2, <2>10, <2>11
<1>2. CpuInv => TextOfLastUnlessLonger
  BY <1>1 DEF TextOfLastUnlessLonger
<1> QED BY <1>2, CpuInvariance, PTL

-----------------------------------------------------------------------------
(* The memory reader *)

(* The copy of a line is the digits of its amount and the blank after them. *)
LEMMA CutValue ==
  ASSUME NEW line, line.kb \in Nat
  PROVE  LET copy == Cut(Value(line))
             digits == Decimal[line.kb]
         IN  /\ copy \in Seq(Nat) /\ Len(copy) = Len(digits) + 1
             /\ \A i \in 1 .. Len(digits) : copy[i] = digits[i]
             /\ copy[Len(digits) + 1] = SPACE
<1>1. PICK digits, unit : digits = Decimal[line.kb] /\ unit = <<SPACE, 107, 66, NEWLINE>>
  OBVIOUS
<1>0. Len(unit) = 4 /\ unit[1] = 32 /\ unit[2] = 107
  BY <1>1 DEF SPACE, NEWLINE
<1>2. /\ digits \in Seq(Digits) /\ Len(digits) \in Nat
      /\ \A i \in 1 .. Len(digits) : digits[i] \in Digits
  <2>1. digits \in Seq(Digits)
    BY <1>1, DecimalDigits
  <2> QED BY <2>1
<1>3. PICK value : value = digits \o unit
  OBVIOUS
<1>4. Value(line) = value
  BY <1>1, <1>3 DEF Value
<1>5. digits \in Seq(Nat) /\ unit \in Seq(Nat)
  <2>1. unit \in Seq(Nat)
    BY <1>1 DEF SPACE, NEWLINE
  <2>2. \A i \in 1 .. Len(digits) : digits[i] \in Nat
    BY <1>2 DEF Digits
  <2>3. digits \in [1 .. Len(digits) -> Nat]
    BY <1>2, <2>2
  <2>4. digits \in Seq(Nat)
    BY <1>2, <2>3
  <2> QED BY <2>1, <2>4
<1>6. PICK n : n = Len(digits)
  OBVIOUS
<1>7. /\ value \in Seq(Nat) /\ Len(value) = n + 4
      /\ \A i \in 1 .. n : value[i] = digits[i]
      /\ value[n + 1] = 32 /\ value[n + 2] = 107
  <2>1. value \in Seq(Nat) /\ Len(value) = Len(digits) + Len(unit)
    BY <1>3, <1>5, ConcatProperties
  <2>2. \A i \in 1 .. Len(digits) + Len(unit) :
          value[i] = IF i <= Len(digits) THEN digits[i] ELSE unit[i - Len(digits)]
    BY <1>3, <1>5, ConcatProperties
  <2>3. n \in Nat
    BY <1>2, <1>6
  <2>4. ASSUME NEW i \in 1 .. n PROVE value[i] = digits[i]
    <3>1. i \in 1 .. n + 4 /\ i <= n
      BY <2>3
    <3> QED BY <1>0, <1>6, <2>2, <3>1
  <2>5. n + 1 \in 1 .. n + 4 /\ ~(n + 1 <= n) /\ (n + 1) - n = 1
    BY <2>3
  <2>6. n + 2 \in 1 .. n + 4 /\ ~(n + 2 <= n) /\ (n + 2) - n = 2
    BY <2>3
  <2>7. value[n + 1] = 32 /\ value[n + 2] = 107
    BY <1>0, <1>6, <2>2, <2>5, <2>6
  <2> QED BY <1>0, <1>6, <2>1, <2>4, <2>7
<1>8. FirstIn(value, {107, NEWLINE}) = n + 2
  <2>1. n \in Nat /\ Len(value) \in Nat /\ n + 2 \in 1 .. Len(value)
    BY <1>2, <1>6, <1>7
  <2>2. ASSUME NEW i \in 1 .. (n + 2) - 1 PROVE value[i] \notin {107, NEWLINE}
    <3>1. CASE i \in 1 .. n
      <4>1. value[i] \in Digits
        BY <1>2, <1>6, <1>7, <3>1
      <4> QED BY <4>1 DEF Digits, NEWLINE
    <3>2. CASE i = n + 1
      BY <1>7, <3>2 DEF NEWLINE
    <3> QED BY <2>1, <3>1, <3>2
  <2>3. value[n + 2] \in {107, NEWLINE}
    BY <1>7
  <2> QED BY <2>1, <2>2, <2>3, FirstInIs
<1>9. PICK copy : copy = SubSeq(value, 1, n + 1)
  OBVIOUS
<1>10. Cut(Value(line)) = copy
  <2>1. (n + 2) - 1 = n + 1
    BY <1>2, <1>6
  <2> QED BY <1>4, <1>8, <1>9, <2>1 DEF Cut
<1>11. /\ copy \in Seq(Nat) /\ Len(copy) = n + 1
       /\ \A i \in 1 .. n + 1 : copy[i] = value[i]
  <2>1. n \in Nat
    BY <1>2, <1>6
  <2>2. copy \in Seq(Nat) /\ Len(copy) = n + 1
    BY <1>7, <1>9, <2>1
  <2>3. ASSUME NEW i \in 1 .. n + 1 PROVE copy[i] = value[i]
    BY <1>7, <1>9, <2>1
  <2> QED BY <2>2, <2>3
<1>12. /\ \A i \in 1 .. n : copy[i] = digits[i]
       /\ copy[n + 1] = SPACE
  <2>1. n + 1 \in 1 .. n + 1 /\ \A i \in 1 .. n : i \in 1 .. n + 1
    BY <1>2, <1>6
  <2>2. copy[n + 1] = SPACE
    BY <1>7, <1>11, <2>1 DEF SPACE
  <2>3. ASSUME NEW i \in 1 .. n PROVE copy[i] = digits[i]
    <3>1. copy[i] = value[i]
      BY <1>11, <2>1
    <3>2. value[i] = digits[i]
      BY <1>7
    <3> QED BY <3>1, <3>2
  <2> QED BY <2>2, <2>3
<1> QED BY <1>1, <1>6, <1>10, <1>11, <1>12

(* It is told from a pointer that was never set, and parsed to the amount. *)
LEMMA CopyParsed ==
  ASSUME NEW line, line.kb \in 0 .. U64 - 1
  PROVE  LET copy == Cut(Value(line))
         IN  copy # Unset /\ parse_u64(copy, Len(copy)) = line.kb
<1>1. PICK copy, digits, n : copy = Cut(Value(line)) /\ digits = Decimal[line.kb] /\ n = line.kb
  OBVIOUS
<1>2. n \in Nat /\ n \in 0 .. U64 - 1 /\ digits = Decimal[n]
  BY <1>1, ParseAssumption
<1>3. /\ copy \in Seq(Nat) /\ Len(copy) = Len(digits) + 1
      /\ \A i \in 1 .. Len(digits) : copy[i] = digits[i]
      /\ copy[Len(digits) + 1] = SPACE
  BY <1>1, <1>2, CutValue
<1>4. Len(digits) \in Nat \ {0}
  BY <1>2, DecimalDigits
<1>5. Len(copy) \in Nat /\ Len(digits) <= Len(copy) /\ Len(digits) < Len(copy) /\ Len(copy) # 1
  BY <1>3, <1>4
<1>6. copy # Unset
  BY <1>5 DEF Unset
<1>7. SPACE \notin Digits
  BY DEF SPACE, Digits
<1>8. parse_u64(copy, Len(copy)) = n
  BY <1>2, <1>3, <1>5, <1>7, ParseReadsBack
<1> QED BY <1>1, <1>6, <1>8

(* The amount of a line with one of the keys is a u64. *)
LEMMA MemLineFacts ==
  ASSUME NEW line \in MemLine, line.key \in MemKeys
  PROVE  line.kb \in 0 .. U64 - 1
<1>1. line \notin [key : {"other", "no_colon"}, kb : {0}]
  BY DEF MemKeys
<1>2. line \in [key : MemKeys, kb : Amounts]
  BY <1>1 DEF MemLine
<1> QED BY <1>2, MemAssumption

LEMMA MemInitInv == MemInit => MemInv
<1> SUFFICES ASSUME NEW n \in 0 .. MaxMemLines, NEW file \in [1 .. n -> MemLine], MemStart(file)
             PROVE  MemInv
  BY DEF MemInit
<1>1. n \in Nat
  BY MemAssumption
<1>2. meminfo \in Seq(MemLine) /\ Len(meminfo) \in Nat /\ mem_line = 1
  BY <1>1 DEF MemStart
<1>3. \A k \in MemKeys : Buffered(k)
  BY <1>2 DEF MemStart, Buffered
<1> QED BY <1>2, <1>3 DEF MemStart, MemInv, AmountsExact

LEMMA MemReadLineInv ==
  ASSUME MemInv, MemReadLine
  PROVE  MemInv'
<1>1. PICK n, line : n = mem_line /\ line = meminfo[mem_line]
  OBVIOUS
<1>2. /\ mem_end = "no" /\ mem_end' = mem_end /\ meminfo' = meminfo /\ mem_line' = n + 1
      /\ mem_line = n /\ n \in DOMAIN meminfo /\ line = meminfo[n]
      /\ mem_buffers' = IF line.key \in MemKeys
                        THEN [mem_buffers EXCEPT ![line.key] = Cut(Value(line))]
                        ELSE mem_buffers
  BY <1>1 DEF MemReadLine
<1>3. /\ meminfo \in Seq(MemLine) /\ Len(meminfo) \in Nat /\ n \in 1 .. Len(meminfo)
      /\ DOMAIN mem_buffers = MemKeys
  BY <1>2 DEF MemInv
<1>4. /\ n + 1 \in 1 .. Len(meminfo) + 1 /\ (n + 1) - 1 = n /\ n \in 1 .. n
      /\ \A i \in 1 .. n - 1 : i \in 1 .. n
      /\ \A i \in 1 .. n : i = n \/ i \in 1 .. n - 1
  BY <1>3
<1>5. DOMAIN mem_buffers' = MemKeys
  BY <1>2, <1>3
<1>6. ASSUME NEW k \in MemKeys PROVE Buffered(k)'
  <2>1. Buffered(k)
    BY DEF MemInv
  <2>2. CASE line.key = k
    <3>1. mem_buffers'[k] = Cut(Value(line))
      BY <1>2, <1>3, <2>2
    <3>2. \E i \in 1 .. n : meminfo[i].key = k /\ mem_buffers'[k] = Cut(Value(meminfo[i]))
      BY <1>2, <1>4, <2>2, <3>1
    <3> QED BY <1>2, <1>4, <3>2 DEF Buffered
  <2>3. CASE line.key # k
    <3>1. mem_buffers'[k] = mem_buffers[k]
      BY <1>2, <1>3, <2>3
    <3>2. CASE mem_buffers[k] = Unset /\ \A i \in 1 .. n - 1 : meminfo[i].key # k
      <4>1. \A i \in 1 .. n : meminfo[i].key # k
        BY <1>2, <1>4, <2>3, <3>2
      <4> QED BY <1>2, <1>4, <3>1, <3>2, <4>1 DEF Buffered
    <3>3. CASE \E i \in 1 .. n - 1 : meminfo[i].key = k /\ mem_buffers[k] = Cut(Value(meminfo[i]))
      <4>1. \E i \in 1 .. n : meminfo[i].key = k /\ mem_buffers'[k] = Cut(Value(meminfo[i]))
        BY <1>4, <3>1, <3>3
      <4> QED BY <1>2, <1>4, <4>1 DEF Buffered
    <3> QED BY <1>2, <2>1, <3>2, <3>3 DEF Buffered
  <2> QED BY <2>2, <2>3
<1>7. AmountsExact'
  BY <1>2 DEF AmountsExact
<1> QED BY <1>2, <1>3, <1>4, <1>5, <1>6, <1>7 DEF MemInv

(* After the last line: a key that is in the file is in its buffer, and     *)
(* what is parsed there is one of its amounts.                              *)
LEMMA ParsedFacts ==
  ASSUME MemInv, mem_line = Len(meminfo) + 1, NEW k \in MemKeys, Printed(k) # {}
  PROVE  mem_buffers[k] # Unset /\ Parsed(k) \subseteq Printed(k)
<1>1. /\ meminfo \in Seq(MemLine) /\ DOMAIN meminfo = 1 .. Len(meminfo)
      /\ mem_line - 1 = Len(meminfo)
  BY DEF MemInv
<1>2. Buffered(k)
  BY DEF MemInv
<1>3. PICK j \in DOMAIN meminfo : meminfo[j].key = k
  BY DEF Printed
<1>4. PICK i \in 1 .. Len(meminfo) :
        meminfo[i].key = k /\ mem_buffers[k] = Cut(Value(meminfo[i]))
  BY <1>1, <1>2, <1>3 DEF Buffered
<1>5. PICK line : line = meminfo[i]
  OBVIOUS
<1>6. line \in MemLine /\ line.key \in MemKeys /\ line.kb \in Printed(k)
  BY <1>1, <1>4, <1>5 DEF Printed
<1>7. line.kb \in 0 .. U64 - 1
  BY <1>6, MemLineFacts
<1>8. PICK copy : copy = Cut(Value(line))
  OBVIOUS
<1>9. copy # Unset /\ parse_u64(copy, Len(copy)) = line.kb
  BY <1>7, <1>8, CopyParsed
<1>10. Parsed(k) = {line.kb}
  BY <1>4, <1>5, <1>8, <1>9 DEF Parsed
<1> QED BY <1>4, <1>5, <1>6, <1>8, <1>9, <1>10

LEMMA MemStepInv ==
  ASSUME MemInv, [MemNext]_memVars
  PROVE  MemInv'
<1>1. CASE MemReadLine
  BY <1>1, MemReadLineInv
<1>2. CASE MemEnd
  <2>1. /\ mem_line = Len(meminfo) + 1 /\ mem_end' = "ok"
        /\ UNCHANGED <<meminfo, mem_line, mem_buffers>>
    BY <1>2 DEF MemEnd
  <2>2. PICK t \in Parsed("total"), f \in Parsed("free") : ram' = [total |-> t, free |-> f]
    BY <1>2 DEF MemEnd
  <2>3. AmountsExact'
    <3> SUFFICES ASSUME Printed("total") # {}, Printed("free") # {}
                 PROVE  ram'.total \in Printed("total") /\ ram'.free \in Printed("free")
      BY <2>1 DEF AmountsExact, Printed
    <3>1. Parsed("total") \subseteq Printed("total") /\ Parsed("free") \subseteq Printed("free")
      BY <2>1, ParsedFacts DEF MemKeys
    <3> QED BY <2>2, <3>1
  <2> QED BY <2>1, <2>3 DEF MemInv, Buffered
<1>3. CASE MemFault
  <2>1. /\ mem_line = Len(meminfo) + 1 /\ mem_end' = "fault"
        /\ UNCHANGED <<ram, meminfo, mem_line, mem_buffers>>
    BY <1>3 DEF MemFault
  <2>2. PICK k \in MemKeys : mem_buffers[k] = Unset
    BY <1>3 DEF MemFault
  <2>3. Printed(k) = {}
    BY <2>1, <2>2, ParsedFacts
  <2>4. Printed(k)' = {} /\ (k = "total" \/ k = "free")
    BY <2>1, <2>3 DEF Printed, MemKeys
  <2>5. AmountsExact'
    BY <2>4 DEF AmountsExact
  <2> QED BY <2>1, <2>5 DEF MemInv, Buffered
<1>4. CASE UNCHANGED memVars
  BY <1>4 DEF memVars, MemInv, Buffered, AmountsExact, Printed
<1> QED BY <1>1, <1>2, <1>3, <1>4 DEF MemNext

(* sys_ram_read stores the amounts that the kernel printed, for every file  *)
(* that has both lines, of every length and in every order.                 *)
THEOREM AmountsRead == MemSpec => []AmountsExact
<1>1. MemInv => AmountsExact
  BY DEF MemInv
<1> QED BY <1>1, MemInitInv, MemStepInv, PTL DEF MemSpec

-----------------------------------------------------------------------------
(* process_read *)

(* The constants. *)
LEMMA StatusTypes ==
  /\ NAME \in Nat \ {0} /\ BEFORE_PID \in Nat /\ NAME < BEFORE_PID
  /\ I8 \in Nat \ {0} /\ I8 <= U64 /\ U64 \in Nat \ {0} /\ MaxStatusReads \in Nat
  /\ \A n \in TaskNames : n \in Seq((1 .. I8 - 1) \ {NEWLINE})
  /\ ThreadCounts \subseteq Nat \ {0} /\ TaskNames # {} /\ ThreadCounts # {}
  BY StatusAssumption, ParseAssumption, SMT

(* The characters of a name are bytes and none is zero. *)
LEMMA NameFacts ==
  ASSUME NEW name \in TaskNames
  PROVE  /\ name \in Seq(0 .. I8 - 1) /\ name \in Seq(Nat \ {NUL}) /\ name \in Seq(Nat)
         /\ Len(name) \in Nat
         /\ \A i \in 1 .. Len(name) : name[i] # NUL
<1>1. name \in Seq((1 .. I8 - 1) \ {NEWLINE})
  BY StatusTypes
<1>2. /\ (1 .. I8 - 1) \ {NEWLINE} \subseteq 0 .. I8 - 1
      /\ (1 .. I8 - 1) \ {NEWLINE} \subseteq Nat \ {NUL}
      /\ (1 .. I8 - 1) \ {NEWLINE} \subseteq Nat
  BY StatusTypes DEF NUL
<1>3. name \in Seq(0 .. I8 - 1) /\ name \in Seq(Nat \ {NUL}) /\ name \in Seq(Nat)
  <2>1. PICK C, B : C = (1 .. I8 - 1) \ {NEWLINE} /\ B = 0 .. I8 - 1
    OBVIOUS
  <2>2. /\ C \subseteq B /\ C \subseteq Nat \ {NUL} /\ C \subseteq Nat /\ name \in Seq(C)
    BY <1>1, <1>2, <2>1, Zenon
  <2>3. name \in Seq(B)
    BY <2>2, SeqWiden
  <2>4. name \in Seq(Nat \ {NUL})
    BY <2>2, SeqWiden
  <2>5. name \in Seq(Nat)
    BY <2>2, SeqWiden
  <2> QED BY <2>1, <2>3, <2>4, <2>5, Zenon
<1>4. Len(name) \in Nat /\ \A i \in 1 .. Len(name) : name[i] # NUL
  BY <1>3
<1> QED BY <1>1, <1>3, <1>4

(* The byte num_threads: what an i8 can hold is stored as it is. *)
LEMMA ThreadsFacts ==
  ASSUME NEW t \in Nat
  PROVE  LET byte == ThreadsOf(Append(Decimal[t], NEWLINE))
         IN  byte \in 0 .. I8 - 1 /\ (t < I8 \div 2 => byte = t)
<1>1. PICK digits, val : digits = Decimal[t] /\ val = Append(digits, NEWLINE)
  OBVIOUS
<1>2. digits \in Seq(Digits) /\ Len(digits) \in Nat
  BY <1>1, DecimalDigits
<1>3. digits \in Seq(Int) /\ NEWLINE \in Int
  <2>1. Digits \subseteq Int /\ NEWLINE \in Int
    BY DEF Digits, NEWLINE
  <2> QED BY <1>2, <2>1, SeqWiden
<1>4. /\ val \in Seq(Int) /\ Len(val) = Len(digits) + 1
      /\ \A i \in 1 .. Len(digits) : val[i] = digits[i]
      /\ val[Len(digits) + 1] = NEWLINE
  BY <1>1, <1>3, AppendProperties
<1>5. PICK u : u = parse_u64(val, 8)
  OBVIOUS
<1>6. u \in Nat
  <2>1. u \in 0 .. U64 - 1
    BY <1>4, <1>5, ParseType
  <2> QED BY <2>1, StatusTypes
<1>7. u % I8 \in 0 .. I8 - 1
  <2>1. I8 \in Nat \ {0}
    BY StatusTypes
  <2> QED BY <1>6, <2>1
<1>8. ASSUME t < I8 \div 2 PROVE u % I8 = t
  <2>1. t < I8 /\ t \in 0 .. U64 - 1 /\ t \in 0 .. I8 - 1
    BY <1>8, StatusTypes
  <2>2. Len(digits) <= 8
    <3>1. t < 100000000
      BY <2>1, StatusAssumption, SMT
    <3> QED BY <1>1, <3>1, DecimalShort, SMT
  <2>3. NEWLINE \notin Digits
    BY DEF NEWLINE, Digits
  <2>4. Len(val) \in Nat /\ Len(digits) < Len(val) /\ 8 \in Nat
    BY <1>2, <1>4
  <2>5. u = t
    BY <1>1, <1>4, <1>5, <2>1, <2>2, <2>3, <2>4, ParseReadsBack
  <2>6. I8 \in Nat \ {0}
    BY StatusTypes
  <2> QED BY <2>1, <2>5, <2>6
<1>9. ThreadsOf(Append(Decimal[t], NEWLINE)) = u % I8
  BY <1>1, <1>5 DEF ThreadsOf
<1> QED BY <1>7, <1>8, <1>9

LEMMA StatusInitInv == StatusInit => StatusInv
<1> SUFFICES ASSUME StatusInit PROVE StatusInv
  OBVIOUS
<1>1. task \in Task
  <2>1. PICK n \in TaskNames, c \in ThreadCounts : TRUE
    BY StatusTypes
  <2>2. [pid |-> 1, name |-> n, threads |-> c] \in Task
    BY <2>1 DEF Task
  <2> QED BY <2>2 DEF StatusInit
<1>2. PICK b : b = Zeroes(BEFORE_PID)
  OBVIOUS
<1>3. b \in Seq(0 .. I8 - 1) /\ Len(b) = BEFORE_PID
  <2>1. b = [i \in 1 .. BEFORE_PID |-> 0] /\ BEFORE_PID \in Nat /\ 0 \in 0 .. I8 - 1
    BY <1>2, StatusTypes DEF Zeroes, NUL
  <2>2. b \in [1 .. BEFORE_PID -> 0 .. I8 - 1]
    BY <2>1
  <2> QED BY <2>1, <2>2
<1>4. entry = [bytes |-> b, pid |-> 0]
  BY <1>2 DEF StatusInit
<1>5. 0 \in 0 .. MaxStatusReads
  BY StatusTypes
<1>6. StatusTypeOK
  <2>1. entry.bytes = b /\ entry.pid \in {0, 1, 2}
    BY <1>4
  <2>2. /\ st_pc = "idle" /\ st_result = "none" /\ st_lived \in BOOLEAN
        /\ st_reads \in 0 .. MaxStatusReads
    BY <1>5 DEF StatusInit
  <2> QED BY <1>1, <1>3, <2>1, <2>2, Zenon DEF StatusTypeOK
<1> QED BY <1>4, <1>6 DEF StatusInit, StatusInv

(* Byte for byte, what copying a text and its zero does to a buffer that    *)
(* may be too short for them.                                               *)
LEMMA CopyTextAt ==
  ASSUME NEW buf, NEW src \in Seq(Nat), Len(buf) \in Nat, NEW i \in 1 .. Len(buf)
  PROVE  /\ i <= Len(src) => CopyText(buf, src)[i] = src[i]
         /\ i = Len(src) + 1 => CopyText(buf, src)[i] = NUL
<1>1. PICK all : all = Append(src, NUL)
  OBVIOUS
<1>2. NUL \in Nat
  BY DEF NUL
<1>3. /\ Len(src) \in Nat /\ Len(all) = Len(src) + 1 /\ all[Len(src) + 1] = NUL
      /\ \A j \in 1 .. Len(src) : all[j] = src[j]
  BY <1>1, <1>2, AppendProperties
<1>4. CopyText(buf, src)[i] = IF i <= Len(all) THEN all[i] ELSE buf[i]
  BY <1>1 DEF CopyText, MemCpy
<1> QED BY <1>3, <1>4

LEMMA StatusNameInv ==
  ASSUME StatusInv, StatusName
  PROVE  StatusInv'
<1>1. PICK bytes, name, new : bytes = entry.bytes /\ name = task.name /\ new = CopyText(bytes, name)
  OBVIOUS
<1>2. PICK pid \in PidsWithName : entry' = [bytes |-> WithName(entry.bytes), pid |-> pid]
  BY DEF StatusName
<1>3. /\ st_pc = "Name" /\ st_pc' = "Threads"
      /\ entry'.bytes = new /\ entry'.pid = pid /\ DOMAIN entry' = {"bytes", "pid"}
      /\ UNCHANGED <<task, st_result, st_lived, st_reads>>
  BY <1>1, <1>2 DEF StatusName, WithName
<1>4. /\ bytes \in Seq(0 .. I8 - 1) /\ Len(bytes) = BEFORE_PID /\ name \in TaskNames
      /\ entry.pid \in {0, 1, 2} /\ entry.pid = task.pid
  BY <1>1, <1>3 DEF StatusInv, StatusTypeOK, Task
<1>5. name \in Seq(0 .. I8 - 1) /\ name \in Seq(Nat) /\ Len(name) \in Nat
  BY <1>4, NameFacts
<1>6. NUL \in 0 .. I8 - 1 /\ BEFORE_PID \in Nat
  BY StatusTypes DEF NUL
<1>7. new \in Seq(0 .. I8 - 1) /\ Len(new) = BEFORE_PID
  BY <1>1, <1>4, <1>5, <1>6, CopyTextType
<1>8. \A i \in 1 .. BEFORE_PID :
        (i <= Len(name) => new[i] = name[i]) /\ (i = Len(name) + 1 => new[i] = NUL)
  BY <1>1, <1>4, <1>5, <1>6, CopyTextAt
<1>9. pid \in {0, 1, 2} /\ (Len(name) < BEFORE_PID => pid = task'.pid)
  BY <1>1, <1>2, <1>3, <1>4 DEF PidsWithName
<1>10. StatusTypeOK'
  BY <1>3, <1>7, <1>9 DEF StatusInv, StatusTypeOK
<1>11. NameCopied'
  <2>1. Len(name) < BEFORE_PID => Len(name) + 1 \in 1 .. BEFORE_PID
    BY <1>5, <1>6
  <2> QED BY <1>1, <1>3, <1>8, <2>1 DEF NameCopied
<1>12. st_result' = "none"
  BY <1>3 DEF StatusInv
<1> QED BY <1>1, <1>3, <1>9, <1>10, <1>11, <1>12 DEF StatusInv

(* Storing the number of threads leaves the name in its field. *)
LEMMA StatusThreadsInv ==
  ASSUME StatusInv, StatusThreads
  PROVE  StatusInv'
<1>1. PICK bytes, name, t, byte, new :
        /\ bytes = entry.bytes /\ name = task.name /\ t = task.threads
        /\ byte = ThreadsOf(Append(Decimal[t], NEWLINE))
        /\ new = [bytes EXCEPT ![NAME + 1] = byte]
  OBVIOUS
<1>2. DOMAIN entry = {"bytes", "pid"}
  BY DEF StatusInv
<1>3. /\ st_pc = "Threads" /\ st_pc' = "close"
      /\ entry'.bytes = new /\ entry'.pid = entry.pid /\ DOMAIN entry' = {"bytes", "pid"}
      /\ UNCHANGED <<task, st_result, st_lived, st_reads>>
  BY <1>1, <1>2 DEF StatusThreads
<1>4. /\ bytes \in Seq(0 .. I8 - 1) /\ Len(bytes) = BEFORE_PID /\ name \in TaskNames
      /\ t \in Nat
  BY <1>1, StatusTypes DEF StatusInv, StatusTypeOK, Task
<1>5. /\ name \in Seq(Nat \ {NUL}) /\ name \in Seq(Nat) /\ Len(name) \in Nat
      /\ \A i \in 1 .. Len(name) : name[i] # NUL
  BY <1>4, NameFacts
<1>6. byte \in 0 .. I8 - 1 /\ (t < I8 \div 2 => byte = t)
  BY <1>1, <1>4, ThreadsFacts
<1>7. NAME \in Nat /\ NAME + 1 \in 1 .. BEFORE_PID /\ BEFORE_PID \in Nat
  BY StatusTypes
<1>8. /\ new \in Seq(0 .. I8 - 1) /\ Len(new) = BEFORE_PID /\ new[NAME + 1] = byte
      /\ \A i \in 1 .. BEFORE_PID : i # NAME + 1 => new[i] = bytes[i]
  <2>1. PICK B : B = 0 .. I8 - 1
    OBVIOUS
  <2>2. bytes \in Seq(B) /\ byte \in B
    BY <1>4, <1>6, <2>1, Zenon
  <2>3. bytes \in [1 .. BEFORE_PID -> B]
    BY <1>4, <2>2
  <2>4. /\ new \in [1 .. BEFORE_PID -> B] /\ new[NAME + 1] = byte
        /\ \A i \in 1 .. BEFORE_PID : i # NAME + 1 => new[i] = bytes[i]
    BY <1>1, <1>7, <2>2, <2>3
  <2>5. new \in Seq(B) /\ Len(new) = BEFORE_PID
    BY <1>7, <2>4
  <2> QED BY <2>1, <2>4, <2>5, Zenon
<1>9. new \in Seq(Nat)
  <2>1. 0 .. I8 - 1 \subseteq Nat
    BY StatusTypes
  <2> QED BY <1>8, <2>1, SeqWiden
<1>10. /\ \A i \in 1 .. BEFORE_PID : i <= Len(name) => bytes[i] = name[i]
       /\ Len(name) < BEFORE_PID => bytes[Len(name) + 1] = NUL
  BY <1>1, <1>3 DEF StatusInv, NameCopied
<1>11. ASSUME Len(name) < NAME PROVE Text(new) = name
  <2>1. ASSUME NEW i \in 1 .. Len(name) PROVE new[i] = name[i]
    <3>1. i \in 1 .. BEFORE_PID /\ i # NAME + 1 /\ i <= Len(name)
      BY <1>5, <1>7, <1>11
    <3> QED BY <1>8, <1>10, <3>1
  <2>2. /\ Len(name) + 1 \in 1 .. BEFORE_PID /\ Len(name) + 1 # NAME + 1
        /\ Len(name) < BEFORE_PID
    BY <1>5, <1>7, <1>11
  <2>3. new[Len(name) + 1] = NUL
    BY <1>8, <1>10, <2>2
  <2>4. Len(name) < Len(new)
    BY <1>8, <2>2
  <2> QED BY <1>5, <1>9, <2>1, <2>3, <2>4, TextExact
<1>12. ASSUME Len(name) >= NAME PROVE SubSeq(Text(new), 1, NAME) = SubSeq(name, 1, NAME)
  <2>1. ASSUME NEW i \in 1 .. NAME PROVE new[i] = name[i] /\ new[i] # NUL
    <3>1. i \in 1 .. Len(name) /\ i <= Len(name) /\ i \in 1 .. BEFORE_PID /\ i # NAME + 1
      BY <1>5, <1>7, <1>12
    <3> QED BY <1>5, <1>8, <1>10, <3>1
  <2>2. NAME \in 0 .. Len(new)
    BY <1>7, <1>8
  <2>3. SubSeq(Text(new), 1, NAME) = SubSeq(new, 1, NAME)
    BY <1>9, <2>1, <2>2, TextStarts
  <2>4. SubSeq(new, 1, NAME) = SubSeq(name, 1, NAME)
    <3>1. \A i \in 1 .. NAME : new[i] \in Nat /\ name[i] \in Nat
      <4>1. \A i \in 1 .. NAME : i \in 1 .. Len(new) /\ i \in 1 .. Len(name)
        BY <1>5, <1>7, <1>8, <1>12
      <4> QED BY <1>5, <1>9, <4>1
    <3>2. PICK u, v : u = SubSeq(new, 1, NAME) /\ v = SubSeq(name, 1, NAME)
      OBVIOUS
    <3>3. 1 <= NAME /\ NAME - 1 + 1 = NAME
      BY StatusTypes
    <3>4. /\ u \in Seq(Nat) /\ Len(u) = NAME
          /\ \A i \in 1 .. NAME : u[i] = new[1 + i - 1]
      BY <1>7, <1>9, <3>1, <3>2, <3>3, SubSeqProperties
    <3>5. /\ v \in Seq(Nat) /\ Len(v) = NAME
          /\ \A i \in 1 .. NAME : v[i] = name[1 + i - 1]
      BY <1>5, <1>7, <3>1, <3>2, <3>3, SubSeqProperties
    <3>6. \A i \in 1 .. NAME : u[i] = v[i]
      BY <2>1, <3>4, <3>5
    <3>7. u = v
      BY <3>4, <3>5, <3>6, SeqEqual
    <3> QED BY <3>2, <3>7
  <2> QED BY <2>3, <2>4
<1>13. HoldsTask'
  <2>1. Len(task'.name) < BEFORE_PID => entry'.pid = task'.pid
    BY <1>3 DEF StatusInv
  <2>2. task'.threads < I8 \div 2 => num_threads' = task'.threads
    BY <1>1, <1>3, <1>6, <1>8 DEF num_threads
  <2> QED BY <1>1, <1>3, <1>11, <1>12, <2>1, <2>2 DEF HoldsTask
<1>14. StatusTypeOK'
  BY <1>3, <1>8 DEF StatusInv, StatusTypeOK
<1>15. st_result' = "none"
  BY <1>3 DEF StatusInv
<1> QED BY <1>3, <1>13, <1>14, <1>15 DEF StatusInv

LEMMA StatusStepInv ==
  ASSUME StatusInv, [StatusNext]_stVars
  PROVE  StatusInv'
<1>1. ASSUME NEW t \in Task, StatusOpen(t) PROVE StatusInv'
  <2>1. /\ st_reads \in Nat /\ st_reads + 1 \in 0 .. MaxStatusReads
    BY <1>1, StatusTypes DEF StatusOpen, StatusInv, StatusTypeOK
  <2>2. /\ entry'.bytes = entry.bytes /\ entry'.pid = t.pid /\ DOMAIN entry' = {"bytes", "pid"}
        /\ t.pid \in {0, 1, 2}
    BY <1>1 DEF StatusOpen, StatusInv, Task
  <2> QED BY <1>1, <2>1, <2>2 DEF StatusOpen, StatusInv, StatusTypeOK
<1>2. CASE StatusOpenFails
  <2>1. /\ st_reads \in Nat /\ st_reads + 1 \in 0 .. MaxStatusReads
    BY <1>2, StatusTypes DEF StatusOpenFails, StatusInv, StatusTypeOK
  <2> QED BY <1>2, <2>1 DEF StatusOpenFails, StatusInv, StatusTypeOK
<1>3. CASE StatusFirstRead
  BY <1>3 DEF StatusFirstRead, StatusInv, StatusTypeOK
<1>4. CASE StatusClose
  BY <1>4 DEF StatusClose, StatusInv, StatusTypeOK, HoldsTask, num_threads
<1>5. CASE UNCHANGED stVars
  <2>1. StatusTypeOK'
    BY <1>5 DEF stVars, StatusInv, StatusTypeOK
  <2>2. (HoldsTask => HoldsTask') /\ (NameCopied => NameCopied')
    BY <1>5 DEF stVars, HoldsTask, num_threads, NameCopied
  <2> QED BY <1>5, <2>1, <2>2 DEF stVars, StatusInv
<1> QED BY <1>1, <1>2, <1>3, <1>4, <1>5, StatusNameInv, StatusThreadsInv DEF StatusNext

(* When process_read returns ERR_OK for a process that was there, the entry *)
(* holds it, for names of every length, every number of threads, any number *)
(* of reads of the same entry and exits at every point.                     *)
THEOREM EntryRead == StatusSpec => []EntryOfProcess
<1>1. StatusInv => EntryOfProcess
  BY DEF StatusInv, EntryOfProcess
<1> QED BY <1>1, StatusInitInv, StatusStepInv, PTL DEF StatusSpec

===============================================================================
