----------------------------- MODULE DeviceInfo ------------------------------
(***************************************************************************)
(* device_read and device_up_time of libres/resources.cc: the quoted name  *)
(* in /etc/os-release, then the seconds of /proc/uptime as days, hours and *)
(* minutes.  A failing device_up_time aborts (assert).                     *)
(***************************************************************************)
EXTENDS Parse

CONSTANTS
  OsNames,       \* what may follow NAME= in a line: with quotes, with one, without
  ProcVersion,   \* the text of /proc/version, which the code does not read
  Uptimes,       \* seconds
  MaxOsLines     \* bound: lines of /etc/os-release

QUOTE == 34

(* Lines are shorter than the buffer of fgets, which is as long as the      *)
(* field os_version: a name between quotes always fits.                     *)
ASSUME DeviceAssumption ==
  /\ OsNames \subseteq Seq(Nat \ {NUL, NEWLINE})
  /\ ProcVersion \in Seq(Nat \ {NUL, NEWLINE})
  /\ Uptimes \subseteq Nat /\ MaxOsLines \in Nat

VARIABLES
  device,      \* os_version as text, uptime as days, hours and minutes
  os_release,  \* the lines of /etc/os-release: what follows NAME=, or nothing
  dev_line,    \* the line to be read next
  dev_result,  \* what device_read returned, "aborted", or "none"
  seconds      \* the uptime when device_up_time read it

devVars == <<device, os_release, dev_line, dev_result, seconds>>

DeviceStart(file) ==
  /\ device = [os_version |-> <<>>, uptime |-> <<0, 0, 0>>]
  /\ os_release = file /\ dev_line = 0
  /\ dev_result = "none" /\ seconds = 0

DeviceInit ==
  \E n \in 0 .. MaxOsLines : \E file \in [1 .. n -> OsNames \cup {<<>>}] : DeviceStart(file)

DeviceOpen ==
  /\ dev_line = 0 /\ dev_result = "none"
  /\ \/ dev_line' = 1 /\ UNCHANGED dev_result
     \/ dev_result' = "ERR_IO" /\ UNCHANGED dev_line
  /\ UNCHANGED <<device, os_release, seconds>>

HasTwoQuotes(text) == \E i, j \in DOMAIN text : i < j /\ text[i] = QUOTE /\ text[j] = QUOTE

(* The text between the first two quotes. *)
Quoted(text) ==
  LET rest == SubSeq(text, FirstIn(text, {QUOTE}) + 1, Len(text))
  IN  SubSeq(rest, 1, FirstIn(rest, {QUOTE}) - 1)

DeviceLine ==
  /\ dev_line \in DOMAIN os_release /\ dev_line' = dev_line + 1
  /\ LET text == os_release[dev_line]
     IN  device' = IF HasTwoQuotes(text) THEN [device EXCEPT !.os_version = Quoted(text)] ELSE device
  /\ UNCHANGED <<os_release, dev_result, seconds>>

(* Mutant: the minutes of the whole day. *)
DayHourMin_day(s) == <<s \div 86400, (s % 86400) \div 3600, (s % 86400) \div 60>>

DayHourMin(s) == <<s \div 86400, (s % 86400) \div 3600, (s % 3600) \div 60>>

device_up_time(s) ==
  /\ dev_line = Len(os_release) + 1 /\ dev_result = "none"
  /\ \/ /\ device' = [device EXCEPT !.uptime = DayHourMin(s)]
        /\ seconds' = s /\ dev_result' = "ERR_OK"
     \/ dev_result' = "aborted" /\ UNCHANGED <<device, seconds>>
  /\ UNCHANGED <<os_release, dev_line>>

DeviceNext == DeviceOpen \/ DeviceLine \/ \E s \in Uptimes : device_up_time(s)

DeviceSpec == DeviceInit /\ [][DeviceNext]_devVars

-----------------------------------------------------------------------------
(* Properties *)

(* After device_read returned ERR_OK the name is the text between the       *)
(* quotes of the last NAME line that has two of them, whatever other lines  *)
(* come before and after it, and days, hours and minutes are a proper time  *)
(* less than a minute short of the uptime.                                  *)
DeviceDescribed ==
  LET named == {i \in DOMAIN os_release : HasTwoQuotes(os_release[i])}
      up == device.uptime
  IN  dev_result = "ERR_OK" =>
        /\ up[2] \in 0 .. 23 /\ up[3] \in 0 .. 59
        /\ seconds - (86400 * up[1] + 3600 * up[2] + 60 * up[3]) \in 0 .. 59
        /\ named = {} => device.os_version = <<>>
        /\ \A i \in named :
             (\A j \in named : j <= i) => device.os_version = Quoted(os_release[i])

(* "Reads OS version from /proc/version": the version device_read leaves is *)
(* what that file says.                                                     *)
VersionFromProc ==
  dev_result = "ERR_OK" => device.os_version = ProcVersion

-----------------------------------------------------------------------------
(* The inductive invariant of the proofs *)

(* The lines before k with a name between two quotes. *)
NamedBefore(k) == {i \in DOMAIN os_release : i < k /\ HasTwoQuotes(os_release[i])}

(* After every line the name is that of the last named line so far. *)
DeviceInv ==
  /\ os_release \in Seq(OsNames \cup {<<>>})
  /\ dev_line \in 0 .. Len(os_release) + 1
  /\ DOMAIN device = {"os_version", "uptime"}
  /\ NamedBefore(dev_line) = {} => device.os_version = <<>>
  /\ \A i \in NamedBefore(dev_line) :
       (\A j \in NamedBefore(dev_line) : j <= i) => device.os_version = Quoted(os_release[i])
  /\ dev_result = "ERR_OK" =>
       /\ dev_line = Len(os_release) + 1
       /\ seconds \in Nat /\ device.uptime = DayHourMin(seconds)

=============================================================================
