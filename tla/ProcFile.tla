------------------------------- MODULE ProcFile ------------------------------
(***************************************************************************)
(* parse_proc_files of base/base_parse.c: one pass over the bytes of a     *)
(* file, with the start of the line and the first colon in it as the only  *)
(* memory, filling an array of entries guessed to be long enough.          *)
(*                                                                         *)
(* Positions count from 1; delim is 0 where the code has -1.               *)
(***************************************************************************)
EXTENDS Parse, FiniteSets

CONSTANTS
  KEY,           \* sizeof key and sizeof value: 16 in the code
  ENTRIES,       \* 256 in the code
  ProcFiles      \* contents of a file, at most 4096 bytes

ASSUME ProcFileAssumption ==
  /\ KEY \in Nat \ {0} /\ ENTRIES \in Nat
  /\ ProcFiles \subseteq Seq(Nat \ {NUL})

VARIABLES
  pf_file,       \* the bytes that read finds
  pf_granted,    \* which of the three allocations the arena grants: the first so many
  pf_index,
  pf_line_start,
  pf_delim,
  pf_entries,    \* the entries written so far
  pf_end         \* "no", "null", "returned", "fault" or "overrun"

pfVars == <<pf_file, pf_granted, pf_index, pf_line_start, pf_delim, pf_entries, pf_end>>

ProcFileStart(file, granted) ==
  /\ pf_file = file /\ pf_granted = granted
  /\ pf_index = 0 /\ pf_line_start = 1 /\ pf_delim = 0
  /\ pf_entries = <<>>
  /\ pf_end = "no"

ProcFileInit ==
  \E file \in ProcFiles, granted \in 0 .. 3 : ProcFileStart(file, granted)

(* open fails, or there is nothing to read. *)
OpenFails ==
  /\ pf_end = "no" /\ pf_index = 0
  /\ pf_end' = "null"
  /\ UNCHANGED <<pf_file, pf_granted, pf_index, pf_line_start, pf_delim, pf_entries>>

(* read fails and -1 is taken for the number of bytes. *)
ReadFails ==
  /\ pf_end = "no" /\ pf_index = 0
  /\ pf_end' = "fault"
  /\ UNCHANGED <<pf_file, pf_granted, pf_index, pf_line_start, pf_delim, pf_entries>>

(* Into a null buffer read fails, and a null pf is written to. *)
ReadFile ==
  /\ pf_end = "no" /\ pf_index = 0
  /\ pf_file # <<>>
  /\ pf_index' = 1
  /\ pf_end' = IF pf_granted < 2 THEN "fault" ELSE "no"
  /\ UNCHANGED <<pf_file, pf_granted, pf_line_start, pf_delim, pf_entries>>

Scanning == pf_end = "no" /\ pf_index \in DOMAIN pf_file

Here == pf_file[pf_index]

Clip(len) == IF len >= KEY THEN KEY - 1 ELSE len

(* Mutant: one blank is skipped. *)
ValStart_one == IF pf_file[pf_delim + 1] = SPACE THEN pf_delim + 2 ELSE pf_delim + 1

(* Blanks after the colon are skipped up to the end of the line. *)
ValStart ==
  pf_delim + FirstNotIn(SubSeq(pf_file, pf_delim + 1, pf_index - 1), {SPACE, TAB})

(* One character less than key_len is copied; the arena has zeroes there.   *)
KeyOf == SubSeq(pf_file, pf_line_start, pf_line_start + Clip(pf_delim - pf_line_start) - 2)

ValueOf == SubSeq(pf_file, ValStart, ValStart + Clip(pf_index - ValStart) - 1)

ScanColon ==
  /\ Scanning /\ Here = COLON /\ pf_delim = 0
  /\ pf_delim' = pf_index /\ pf_index' = pf_index + 1
  /\ UNCHANGED <<pf_file, pf_granted, pf_line_start, pf_entries, pf_end>>

ScanOther ==
  /\ Scanning /\ Here # NEWLINE
  /\ Here = COLON => pf_delim # 0
  /\ pf_index' = pf_index + 1
  /\ UNCHANGED <<pf_file, pf_granted, pf_line_start, pf_delim, pf_entries, pf_end>>

(* Mutant: the copy of an empty key does nothing. *)
EndEntry_signed ==
  IF pf_granted < 3 THEN "fault"
  ELSE IF Len(pf_entries) >= ENTRIES THEN "overrun" ELSE "no"

(* A key of length 0 makes the length of the copy wrap around; an entry     *)
(* past the guess is written behind the array.                              *)
EndEntry ==
  IF pf_granted < 3 \/ pf_delim = pf_line_start THEN "fault"
  ELSE IF Len(pf_entries) >= ENTRIES THEN "overrun" ELSE "no"

ScanNewline ==
  /\ Scanning /\ Here = NEWLINE
  /\ IF pf_delim = 0 THEN UNCHANGED <<pf_entries, pf_end>>
     ELSE /\ pf_end' = EndEntry
          /\ pf_entries' = IF EndEntry = "no"
                           THEN Append(pf_entries, [key |-> KeyOf, value |-> ValueOf])
                           ELSE pf_entries
  /\ pf_line_start' = pf_index + 1 /\ pf_delim' = 0
  /\ pf_index' = pf_index + 1
  /\ UNCHANGED <<pf_file, pf_granted>>

ScanEnd ==
  /\ pf_end = "no" /\ pf_index > 0 /\ pf_index = Len(pf_file) + 1
  /\ pf_end' = "returned"
  /\ UNCHANGED <<pf_file, pf_granted, pf_index, pf_line_start, pf_delim, pf_entries>>

ProcFileNext == OpenFails \/ ReadFails \/ ReadFile \/ ScanColon \/ ScanOther \/ ScanNewline \/ ScanEnd

ProcFileSpec == ProcFileInit /\ [][ProcFileNext]_pfVars

-----------------------------------------------------------------------------
(* Properties.  The reference looks at whole lines: the intervals between   *)
(* consecutive newlines.                                                    *)

Newlines(file) == {i \in DOMAIN file : file[i] = NEWLINE}

(* The line that ends at the newline e, without it. *)
LineTo(file, e) ==
  LET before == {i \in Newlines(file) : i < e}
      s == IF before = {} THEN 0 ELSE CHOOSE i \in before : \A j \in before : j <= i
  IN  SubSeq(file, s + 1, e - 1)

HasColon(line) == \E i \in DOMAIN line : line[i] = COLON

(* The newlines before position k that end a line with a colon. *)
EntryEnds(file, k) == {e \in Newlines(file) : e < k /\ HasColon(LineTo(file, e))}

(* The number of the entry that ends at e. *)
Rank(ends, e) == Cardinality({d \in ends : d <= e})

EntryFor(line) ==
  LET colon == FirstIn(line, {COLON})
      rest == SubSeq(line, colon + 1, Len(line))
      val == SubSeq(rest, FirstNotIn(rest, {SPACE, TAB}), Len(rest))
  IN  [key |-> SubSeq(line, 1, Clip(colon - 1) - 1), value |-> SubSeq(val, 1, Clip(Len(val)))]

(* Types; the scanner stays inside the file, a delimiter inside its line,   *)
(* and every text it keeps leaves room for its zero.                        *)
ProcFileTypeOK ==
  /\ pf_index \in 0 .. Len(pf_file) + 1
  /\ pf_line_start \in 1 .. Len(pf_file) + 1
  /\ pf_delim # 0 => pf_delim \in pf_line_start .. pf_index - 1
  /\ \A i \in DOMAIN pf_entries : Len(pf_entries[i].key) < KEY /\ Len(pf_entries[i].value) < KEY
  /\ pf_end \in {"no", "null", "returned", "fault", "overrun"}

(* parse_proc_files finds the entries that splitting the file into lines    *)
(* finds: one for every line with a colon that ends in a newline, in their  *)
(* order, with the text before the first colon (less one character) and the *)
(* text after it without leading blanks, cut to the fields.                 *)
EntriesOfLines ==
  LET ends == EntryEnds(pf_file, pf_index)
  IN  pf_end \in {"no", "returned"} =>
        /\ Len(pf_entries) = Cardinality(ends)
        /\ \A e \in ends : pf_entries[Rank(ends, e)] = EntryFor(LineTo(pf_file, e))

(* With an arena that grants everything and a read that works, a fault      *)
(* comes from a line that starts with a colon and from nothing else, and    *)
(* the array is overrun by the first entry too many and by nothing else.    *)
FaultOnlyOnEmptyKey ==
  LET ends == EntryEnds(pf_file, pf_index)
  IN  pf_granted = 3 /\ pf_index > 0 =>
        /\ pf_end = "fault" <=> \E e \in ends : LineTo(pf_file, e)[1] = COLON
        /\ pf_end = "overrun" => Cardinality(ends) = ENTRIES + 1

-----------------------------------------------------------------------------
(* The inductive invariant of the proofs *)

(* What the two positions that the scanner keeps say of the line so far. *)
LineInv ==
  /\ pf_line_start \in 1 .. pf_index
  /\ pf_line_start = 1 \/ pf_file[pf_line_start - 1] = NEWLINE
  /\ \A i \in pf_line_start .. pf_index - 1 : pf_file[i] # NEWLINE
  /\ pf_delim = 0 => \A i \in pf_line_start .. pf_index - 1 : pf_file[i] # COLON
  /\ pf_delim # 0 =>
       /\ pf_delim \in pf_line_start .. pf_index - 1 /\ pf_file[pf_delim] = COLON
       /\ \A i \in pf_line_start .. pf_delim - 1 : pf_file[i] # COLON

ProcFileInv ==
  /\ pf_file \in ProcFiles /\ pf_index \in 0 .. Len(pf_file) + 1
  /\ pf_entries \in Seq([key : Seq(Nat), value : Seq(Nat)])
  /\ pf_index = 0 => pf_entries = <<>> /\ pf_line_start = 1 /\ pf_delim = 0
  /\ pf_index > 0 /\ pf_end \in {"no", "returned"} =>
       /\ LineInv
       /\ Len(pf_entries) <= ENTRIES
       /\ \A e \in EntryEnds(pf_file, pf_index) : LineTo(pf_file, e)[1] # COLON
  /\ EntriesOfLines
  /\ FaultOnlyOnEmptyKey

=============================================================================
