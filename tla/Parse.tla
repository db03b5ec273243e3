-------------------------------- MODULE Parse --------------------------------
(***************************************************************************)
(* Characters, C strings and the helpers of base/base_parse.c that the     *)
(* readers share.  A character is its ASCII code, a buffer a sequence.     *)
(***************************************************************************)
EXTENDS Integers, Sequences

CONSTANT U64    \* 2^64 in the code

ASSUME ParseAssumption == U64 \in Nat \ {0}

NUL == 0
TAB == 9
NEWLINE == 10
SPACE == 32
COLON == 58

Digits == 48 .. 57

Zeroes(n) == [i \in 1 .. n |-> NUL]

(* The position of the first character of buf that is among chars, or one   *)
(* past the end: strchr, strcspn and the scanning loops.                    *)
FirstIn(buf, chars) ==
  LET hits == {i \in 1 .. Len(buf) : buf[i] \in chars}
  IN  IF hits = {} THEN Len(buf) + 1 ELSE CHOOSE i \in hits : \A j \in hits : i <= j

(* The same for the first that is not. *)
FirstNotIn(buf, chars) == FirstIn([i \in 1 .. Len(buf) |-> buf[i] \in chars], {FALSE})

(* What a C string function sees of a buffer. *)
Text(buf) == SubSeq(buf, 1, FirstIn(buf, {NUL}) - 1)

(* memcpy of all of src to the start of buf. *)
MemCpy(buf, src) == [i \in 1 .. Len(buf) |-> IF i <= Len(src) THEN src[i] ELSE buf[i]]

(* The same with a terminating zero after it. *)
CopyText(buf, src) == MemCpy(buf, Append(src, NUL))

(* The number of digits parse_u64 takes: up to another character or len. *)
DigitRun(buf, len) ==
  LET run == FirstNotIn(buf, Digits) - 1 IN IF run < len THEN run ELSE len

parse_u64(buf, len) ==
  LET value[i \in 0 .. Len(buf)] ==
        IF i = 0 THEN 0 ELSE (10 * value[i - 1] + (buf[i] - 48)) % U64
  IN  value[DigitRun(buf, len)]

(* Whether compare_string finds a difference: sizeof of a char is 1, so it  *)
(* looks at two characters, the zero at the end of a short one included.    *)
compare_string(s, t) == \E i \in 1 .. 2 : s[i] # t[i]

(* The decimal digits of n, as the kernel prints them. *)
Decimal[n \in Nat] ==
  IF n < 10 THEN <<48 + n>> ELSE Append(Decimal[n \div 10], 48 + (n % 10))

=============================================================================
