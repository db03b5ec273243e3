----------------------------- MODULE ParseProofs ------------------------------
(***************************************************************************)
(* Lemmas about the helpers the readers share: texts in buffers, the first *)
(* of some characters, what the kernel prints of a number and what         *)
(* parse_u64 makes of it; and the theorems about parse_proc_files, for     *)
(* every file.                                                             *)
(***************************************************************************)
EXTENDS ProcFile, SequenceTheorems, FiniteSetTheorems, WellFoundedInduction, TLAPS

-----------------------------------------------------------------------------
(* The least and the greatest of a set of numbers *)

LEMMA LeastExists ==
  ASSUME NEW S, S \subseteq Nat, S # {}
  PROVE  \E m \in S : \A j \in S : m <= j
<1>1. PICK m \in S : \A j \in S : ~(<<j, m>> \in OpToRel(<, Nat))
  BY NatLessThanWellFounded, WFMin
<1>2. \A j \in S : <<j, m>> \in Nat \X Nat /\ (j < m => <<j, m>> \in OpToRel(<, Nat))
  BY DEF OpToRel
<1>3. ASSUME NEW j \in S PROVE m <= j
  <2>1. ~(j < m) /\ j \in Nat /\ m \in Nat
    BY <1>1, <1>2
  <2> QED BY <2>1
<1> QED BY <1>3

LEMMA GreatestExists ==
  ASSUME NEW n \in Nat, NEW S, S \subseteq 1 .. n, S # {}
  PROVE  \E m \in S : \A j \in S : j <= m
<1> DEFINE T == {n - j : j \in S}
<1>1. T \subseteq Nat /\ T # {}
  <2>1. \A j \in S : n - j \in Nat
    OBVIOUS
  <2>2. T \subseteq Nat
    BY <2>1
  <2>3. PICK j : j \in S
    OBVIOUS
  <2>4. n - j \in T
    BY <2>3
  <2> QED BY <2>2, <2>4
<1>2. PICK t \in T : \A u \in T : t <= u
  BY <1>1, LeastExists
<1>3. PICK m \in S : t = n - m
  OBVIOUS
<1>4. ASSUME NEW j \in S PROVE j <= m
  <2>1. n - m <= n - j
    BY <1>2, <1>3
  <2>2. m \in Int /\ j \in Int
    OBVIOUS
  <2> QED BY <2>1, <2>2
<1> QED BY <1>4

(* Induction over the numbers, with the set of those that have been reached *)
(* in the place of a predicate.                                             *)
LEMMA SetInduction ==
  ASSUME NEW S, \A n \in Nat : (\A k \in 0 .. n - 1 : k \in S) => n \in S
  PROVE  \A n \in Nat : n \in S
<1> SUFFICES ASSUME Nat \ S # {} PROVE FALSE
  OBVIOUS
<1>1. PICK m \in Nat \ S : \A j \in Nat \ S : m <= j
  BY LeastExists
<1>2. \A k \in 0 .. m - 1 : k \in S
  <2> SUFFICES ASSUME NEW k \in 0 .. m - 1, k \notin S PROVE FALSE
    OBVIOUS
  <2>1. k \in Nat \ S /\ ~(m <= k)
    BY <1>1
  <2> QED BY <1>1, <2>1
<1> QED BY <1>1, <1>2

(* The same from each number to the next. *)
LEMMA UpInduction ==
  ASSUME NEW S, 0 \in S, \A n \in Nat : n \in S => n + 1 \in S
  PROVE  \A n \in Nat : n \in S
<1>1. ASSUME NEW n \in Nat, \A k \in 0 .. n - 1 : k \in S PROVE n \in S
  <2>1. CASE n = 0
    BY <2>1
  <2>2. CASE n # 0
    <3>1. n - 1 \in Nat /\ n - 1 \in 0 .. n - 1 /\ (n - 1) + 1 = n
      BY <2>2
    <3>2. n - 1 \in S
      BY <1>1, <3>1
    <3>3. (n - 1) + 1 \in S
      BY <3>1, <3>2
    <3> QED BY <3>1, <3>3
  <2> QED BY <2>1, <2>2
<1> QED BY <1>1, SetInduction

-----------------------------------------------------------------------------
(* Parts of sequences *)

(* A sequence over a set is one over a larger set. *)
LEMMA SeqWiden ==
  ASSUME NEW S, NEW T, S \subseteq T, NEW s \in Seq(S)
  PROVE  s \in Seq(T)
<1>1. Len(s) \in Nat /\ s \in [1 .. Len(s) -> S]
  OBVIOUS
<1>2. s \in [1 .. Len(s) -> T]
  BY <1>1
<1> QED BY <1>1, <1>2

(* A part of a part of a sequence. *)
LEMMA PartOfPart ==
  ASSUME NEW s \in Seq(Nat), NEW i \in Nat \ {0}, NEW j \in Nat, i <= j + 1, j <= Len(s),
         NEW m \in Nat \ {0}, NEW n \in Int, n <= j - i + 1
  PROVE  SubSeq(SubSeq(s, i, j), m, n) = SubSeq(s, i + m - 1, i + n - 1)
<1>0. Len(s) \in Nat
  OBVIOUS
<1>1. PICK t : t = SubSeq(s, i, j)
  OBVIOUS
<1>2. \A k \in i .. j : s[k] \in Nat
  BY <1>0
<1>3. /\ t \in Seq(Nat) /\ Len(t) = j - i + 1
      /\ \A k \in 1 .. j - i + 1 : t[k] = s[i + k - 1]
  BY <1>1, <1>2, SubSeqProperties
<1>4. CASE n < m
  <2>1. SubSeq(t, m, n) = << >>
    BY <1>4, SubSeqEmpty
  <2>2. SubSeq(s, i + m - 1, i + n - 1) = << >>
    BY <1>4, SubSeqEmpty
  <2> QED BY <1>1, <2>1, <2>2
<1>5. CASE m <= n
  <2>1. PICK a, b : a = i + m - 1 /\ b = i + n - 1
    OBVIOUS
  <2>2. a \in Int /\ b \in Int /\ a <= b /\ b - a + 1 = n - m + 1 /\ a >= 1 /\ b <= Len(s)
    BY <1>0, <1>5, <2>1
  <2>3. \A k \in m .. n : t[k] \in Nat
    BY <1>3, <1>5
  <2>4. \A k \in a .. b : s[k] \in Nat
    BY <1>0, <2>2
  <2>5. PICK u, v : u = SubSeq(t, m, n) /\ v = SubSeq(s, a, b)
    OBVIOUS
  <2>6. /\ u \in Seq(Nat) /\ Len(u) = n - m + 1
        /\ \A k \in 1 .. n - m + 1 : u[k] = t[m + k - 1]
    BY <1>5, <2>3, <2>5, SubSeqProperties
  <2>7. /\ v \in Seq(Nat) /\ Len(v) = n - m + 1
        /\ \A k \in 1 .. n - m + 1 : v[k] = s[a + k - 1]
    BY <2>2, <2>4, <2>5, SubSeqProperties
  <2>8. ASSUME NEW k \in 1 .. n - m + 1 PROVE u[k] = v[k]
    <3>1. m + k - 1 \in 1 .. j - i + 1 /\ i + (m + k - 1) - 1 = a + k - 1
      BY <1>5, <2>1
    <3>2. t[m + k - 1] = s[i + (m + k - 1) - 1]
      BY <1>3, <3>1
    <3> QED BY <2>6, <2>7, <3>1, <3>2
  <2>9. u = v
    BY <2>6, <2>7, <2>8, SeqEqual
  <2> QED BY <1>1, <2>1, <2>5, <2>9
<1> QED BY <1>4, <1>5

-----------------------------------------------------------------------------
(* The first of some characters *)

(* What FirstIn finds, and what is enough for it to be found. *)
LEMMA FirstInFacts ==
  ASSUME NEW buf, Len(buf) \in Nat, NEW chars
  PROVE  FirstIn(buf, chars) \in 1 .. Len(buf) + 1
<1> DEFINE hits == {i \in 1 .. Len(buf) : buf[i] \in chars}
<1>1. CASE hits = {}
  <2>1. FirstIn(buf, chars) = Len(buf) + 1
    BY <1>1 DEF FirstIn
  <2> QED BY <2>1
<1>2. CASE hits # {}
  <2>1. hits \subseteq Nat
    OBVIOUS
  <2>2. \E m \in hits : \A j \in hits : m <= j
    BY <1>2, <2>1, LeastExists
  <2>3. FirstIn(buf, chars) = CHOOSE i \in hits : \A j \in hits : i <= j
    BY <1>2 DEF FirstIn
  <2>4. FirstIn(buf, chars) \in hits
    <3> HIDE DEF hits
    <3> QED BY <2>2, <2>3
  <2> QED BY <2>4
<1> QED BY <1>1, <1>2

LEMMA FirstInIs ==
  ASSUME NEW buf, Len(buf) \in Nat, NEW chars, NEW n \in 1 .. Len(buf), buf[n] \in chars,
         \A i \in 1 .. n - 1 : buf[i] \notin chars
  PROVE  FirstIn(buf, chars) = n
<1> DEFINE hits == {i \in 1 .. Len(buf) : buf[i] \in chars}
<1>1. n \in hits
  OBVIOUS
<1>2. \A i \in hits : i \in Nat /\ n <= i
  <2> SUFFICES ASSUME NEW i \in hits, i < n PROVE FALSE
    OBVIOUS
  <2>1. i \in 1 .. n - 1 /\ buf[i] \in chars
    OBVIOUS
  <2> QED BY <2>1
<1>3. FirstIn(buf, chars) = CHOOSE i \in hits : \A j \in hits : i <= j
  BY <1>1 DEF FirstIn
<1> HIDE DEF hits
<1>4. \A i \in hits : (\A j \in hits : i <= j) => i = n
  BY <1>1, <1>2
<1> QED BY <1>1, <1>2, <1>3, <1>4

(* What is before the first of the characters. *)
LEMMA FirstInAfter ==
  ASSUME NEW buf, Len(buf) \in Nat, NEW chars, NEW n \in 0 .. Len(buf),
         \A i \in 1 .. n : buf[i] \notin chars
  PROVE  FirstIn(buf, chars) \in n + 1 .. Len(buf) + 1
<1> DEFINE hits == {i \in 1 .. Len(buf) : buf[i] \in chars}
<1>1. CASE hits = {}
  <2>1. FirstIn(buf, chars) = Len(buf) + 1
    BY <1>1 DEF FirstIn
  <2> QED BY <2>1
<1>2. CASE hits # {}
  <2>1. hits \subseteq Nat
    OBVIOUS
  <2>2. \E m \in hits : \A j \in hits : m <= j
    BY <1>2, <2>1, LeastExists
  <2>3. FirstIn(buf, chars) = CHOOSE i \in hits : \A j \in hits : i <= j
    BY <1>2 DEF FirstIn
  <2>4. PICK f \in hits : FirstIn(buf, chars) = f
    <3> HIDE DEF hits
    <3> QED BY <2>2, <2>3
  <2>5. f \in 1 .. Len(buf) /\ f \notin 1 .. n
    BY <2>4
  <2> QED BY <2>4, <2>5
<1> QED BY <1>1, <1>2

LEMMA FirstNotInFacts ==
  ASSUME NEW buf, Len(buf) \in Nat, NEW chars
  PROVE  FirstNotIn(buf, chars) \in 1 .. Len(buf) + 1
<1> DEFINE flags == [i \in 1 .. Len(buf) |-> buf[i] \in chars]
<1> DEFINE S == {flags[i] : i \in 1 .. Len(buf)}
<1>1. Len(flags) = Len(buf)
  <2>1. \A i \in 1 .. Len(buf) : flags[i] \in S
    OBVIOUS
  <2>2. flags = [i \in 1 .. Len(buf) |-> flags[i]]
    OBVIOUS
  <2> HIDE DEF S, flags
  <2> QED BY <2>1, <2>2
<1> HIDE DEF flags
<1>2. FirstIn(flags, {FALSE}) \in 1 .. Len(flags) + 1
  BY <1>1, FirstInFacts
<1> QED BY <1>1, <1>2 DEF FirstNotIn, flags

LEMMA FirstNotInIs ==
  ASSUME NEW buf, Len(buf) \in Nat, NEW chars, NEW n \in 1 .. Len(buf), buf[n] \notin chars,
         \A i \in 1 .. n - 1 : buf[i] \in chars
  PROVE  FirstNotIn(buf, chars) = n
<1> DEFINE flags == [i \in 1 .. Len(buf) |-> buf[i] \in chars]
<1> DEFINE S == {flags[i] : i \in 1 .. Len(buf)}
<1>1. Len(flags) = Len(buf)
  <2>1. \A i \in 1 .. Len(buf) : flags[i] \in S
    OBVIOUS
  <2>2. flags = [i \in 1 .. Len(buf) |-> flags[i]]
    OBVIOUS
  <2> HIDE DEF S, flags
  <2> QED BY <2>1, <2>2
<1>2. \A i \in 1 .. Len(buf) : flags[i] = (buf[i] \in chars)
  OBVIOUS
<1>3. flags[n] \in {FALSE}
  <2>1. flags[n] = (buf[n] \in chars)
    BY <1>2
  <2> HIDE DEF flags
  <2>2. (buf[n] \in chars) = FALSE
    OBVIOUS
  <2>3. flags[n] = FALSE
    BY <2>1, <2>2
  <2> QED BY <2>3
<1>4. \A i \in 1 .. n - 1 : i \in 1 .. Len(buf)
  OBVIOUS
<1>5. \A i \in 1 .. n - 1 : flags[i] \notin {FALSE}
  BY <1>2, <1>4
<1> HIDE DEF flags
<1>6. FirstIn(flags, {FALSE}) = n
  BY <1>1, <1>3, <1>5, FirstInIs
<1> QED BY <1>6 DEF FirstNotIn, flags

-----------------------------------------------------------------------------
(* Texts in buffers *)

(* A buffer that starts with the characters of src and a zero holds src. *)
LEMMA TextExact ==
  ASSUME NEW buf \in Seq(Nat), NEW src \in Seq(Nat \ {NUL}), Len(src) < Len(buf),
         \A i \in 1 .. Len(src) : buf[i] = src[i],
         buf[Len(src) + 1] = NUL
  PROVE  Text(buf) = src
<1> DEFINE hits == {i \in 1 .. Len(buf) : buf[i] \in {NUL}}
           n == Len(src) + 1
<1>1. Len(src) \in Nat /\ Len(buf) \in Nat /\ \A i \in 1 .. Len(src) : src[i] # NUL
  OBVIOUS
<1>2. n \in hits
  BY <1>1
<1>3. \A i \in hits : n <= i
  <2> SUFFICES ASSUME NEW i \in 1 .. Len(buf), buf[i] = NUL, i <= Len(src) PROVE FALSE
    BY <1>1
  <2>1. i \in 1 .. Len(src)
    BY <1>1
  <2> QED BY <1>1, <2>1
<1>4. FirstIn(buf, {NUL}) = n
  <2>1. FirstIn(buf, {NUL}) = CHOOSE i \in hits : \A j \in hits : i <= j
    BY <1>2 DEF FirstIn
  <2>2. \A i \in hits : i \in Nat
    BY <1>1
  <2> HIDE DEF hits
  <2>3. \A i \in hits : (\A j \in hits : i <= j) => i = n
    BY <1>1, <1>2, <1>3, <2>2
  <2> QED BY <1>2, <1>3, <2>1, <2>3
<1>5. Text(buf) = SubSeq(buf, 1, Len(src))
  <2>1. FirstIn(buf, {NUL}) - 1 = Len(src)
    BY <1>1, <1>4
  <2> QED BY <2>1 DEF Text
<1> QED BY <1>1, <1>5

(* A text shorter than its buffer ends with a zero. *)
LEMMA TextEnds ==
  ASSUME NEW buf \in Seq(Nat), Len(Text(buf)) < Len(buf)
  PROVE  buf[Len(Text(buf)) + 1] = NUL
<1> DEFINE hits == {i \in 1 .. Len(buf) : buf[i] \in {NUL}}
           n == FirstIn(buf, {NUL})
<1>1. Len(buf) \in Nat
  OBVIOUS
<1>2. CASE hits = {}
  <2>1. n = Len(buf) + 1
    BY <1>2 DEF FirstIn
  <2>2. Len(Text(buf)) = Len(buf)
    BY <1>1, <2>1 DEF Text
  <2> QED BY <1>1, <2>2
<1>3. ASSUME NEW k \in hits, \A j \in hits : k <= j
      PROVE  buf[Len(Text(buf)) + 1] = NUL
  <2>1. n = CHOOSE i \in hits : \A j \in hits : i <= j
    BY <1>3 DEF FirstIn
  <2>2. n \in hits
    BY <1>3, <2>1
  <2>3. Len(Text(buf)) = n - 1
    BY <1>1, <2>2 DEF Text
  <2> QED BY <1>1, <2>2, <2>3
<1>4. CASE hits # {}
  <2>1. PICK k \in hits : \A j \in hits : k <= j
    <3>1. hits \subseteq Nat
      OBVIOUS
    <3> QED BY <1>4, <3>1, LeastExists
  <2> QED BY <2>1, <1>3
<1> QED BY <1>2, <1>4

(* A buffer that starts with characters that are not zero holds them. *)
LEMMA TextStarts ==
  ASSUME NEW buf \in Seq(Nat), NEW n \in 0 .. Len(buf), \A i \in 1 .. n : buf[i] # NUL
  PROVE  SubSeq(Text(buf), 1, n) = SubSeq(buf, 1, n)
<1>0. Len(buf) \in Nat
  OBVIOUS
<1>1. PICK f : f = FirstIn(buf, {NUL})
  OBVIOUS
<1>2. f \in n + 1 .. Len(buf) + 1
  <2>1. \A i \in 1 .. n : buf[i] \notin {NUL}
    OBVIOUS
  <2> QED BY <1>0, <1>1, <2>1, FirstInAfter
<1>3. Text(buf) = SubSeq(buf, 1, f - 1)
  BY <1>1 DEF Text
<1>4. PICK j : j = f - 1
  OBVIOUS
<1>5. j \in Nat /\ j <= Len(buf) /\ n \in Int /\ n <= j - 1 + 1 /\ 1 <= j + 1
      /\ 1 \in Nat \ {0} /\ 1 + 1 - 1 = 1 /\ 1 + n - 1 = n
  BY <1>0, <1>2, <1>4
<1>6. SubSeq(SubSeq(buf, 1, j), 1, n) = SubSeq(buf, 1 + 1 - 1, 1 + n - 1)
  BY <1>5, PartOfPart
<1> QED BY <1>3, <1>4, <1>5, <1>6

(* memcpy of a text and its zero into a buffer that is long enough *)
LEMMA CopyTextFacts ==
  ASSUME NEW buf \in Seq(Nat), NEW src \in Seq(Nat \ {NUL}), Len(src) < Len(buf)
  PROVE  /\ CopyText(buf, src) \in Seq(Nat) /\ Len(CopyText(buf, src)) = Len(buf)
         /\ \A i \in 1 .. Len(src) : CopyText(buf, src)[i] = src[i]
         /\ CopyText(buf, src)[Len(src) + 1] = NUL
<1> DEFINE all == Append(src, NUL)
<1>1. /\ Len(src) \in Nat /\ Len(buf) \in Nat
      /\ \A i \in 1 .. Len(buf) : buf[i] \in Nat
      /\ \A i \in 1 .. Len(src) : src[i] \in Nat
  OBVIOUS
<1>2. /\ all \in Seq(Nat) /\ Len(all) = Len(src) + 1
      /\ \A i \in 1 .. Len(src) : all[i] = src[i]
      /\ all[Len(src) + 1] = NUL
  <2>1. NUL \in Nat
    BY DEF NUL
  <2> QED BY <2>1
<1>3. CopyText(buf, src) = [i \in 1 .. Len(buf) |-> IF i <= Len(all) THEN all[i] ELSE buf[i]]
  BY DEF CopyText, MemCpy
<1> HIDE DEF all
<1>4. \A i \in 1 .. Len(buf) : (IF i <= Len(all) THEN all[i] ELSE buf[i]) \in Nat
  BY <1>1, <1>2
<1>5. CopyText(buf, src) \in [1 .. Len(buf) -> Nat]
  BY <1>3, <1>4
<1>6. CopyText(buf, src) \in Seq(Nat) /\ Len(CopyText(buf, src)) = Len(buf)
  <2>1. PICK n, c : n = Len(buf) /\ c = CopyText(buf, src)
    OBVIOUS
  <2>2. n \in Nat /\ c \in [1 .. n -> Nat]
    BY <1>1, <1>5, <2>1
  <2>3. c \in Seq(Nat) /\ Len(c) = n
    BY <2>2
  <2> QED BY <2>1, <2>3
<1>7. \A i \in 1 .. Len(src) + 1 : CopyText(buf, src)[i] = all[i]
  BY <1>1, <1>2, <1>3
<1>8. CopyText(buf, src)[Len(src) + 1] = NUL
  <2>1. Len(src) + 1 \in 1 .. Len(src) + 1
    BY <1>1
  <2> QED BY <1>2, <1>7, <2>1
<1>9. \A i \in 1 .. Len(src) : CopyText(buf, src)[i] = src[i]
  <2>1. \A i \in 1 .. Len(src) : i \in 1 .. Len(src) + 1
    BY <1>1
  <2> QED BY <1>2, <1>7, <2>1
<1> QED BY <1>6, <1>8, <1>9

(* The bytes of a copy are those of the buffer and of the text. *)
LEMMA CopyTextType ==
  ASSUME NEW S, NUL \in S, NEW buf \in Seq(S), NEW src \in Seq(S)
  PROVE  CopyText(buf, src) \in Seq(S) /\ Len(CopyText(buf, src)) = Len(buf)
<1> DEFINE all == Append(src, NUL)
<1>1. /\ Len(src) \in Nat /\ Len(buf) \in Nat
      /\ \A i \in 1 .. Len(buf) : buf[i] \in S
  OBVIOUS
<1>2. all \in Seq(S) /\ Len(all) = Len(src) + 1
  BY AppendProperties
<1>3. CopyText(buf, src) = [i \in 1 .. Len(buf) |-> IF i <= Len(all) THEN all[i] ELSE buf[i]]
  BY DEF CopyText, MemCpy
<1> HIDE DEF all
<1>4. \A i \in 1 .. Len(all) : all[i] \in S
  BY <1>2
<1>5. \A i \in 1 .. Len(buf) : (IF i <= Len(all) THEN all[i] ELSE buf[i]) \in S
  BY <1>1, <1>2, <1>4
<1>6. PICK n, c : n = Len(buf) /\ c = CopyText(buf, src)
  OBVIOUS
<1>7. n \in Nat /\ c \in [1 .. n -> S]
  BY <1>1, <1>3, <1>5, <1>6
<1>8. c \in Seq(S) /\ Len(c) = n
  BY <1>7
<1> QED BY <1>6, <1>8

-----------------------------------------------------------------------------
(* What Decimal is *)

(* One step of the definition of Decimal. *)
DigitsOf(g, n) == IF n < 10 THEN <<48 + n>> ELSE Append(g[n \div 10], 48 + (n % 10))

(* g satisfies the definition up to n. *)
DigitsTo(g, n) == \A k \in 0 .. n : g[k] = DigitsOf(g, k)

(* Division by ten. *)
LEMMA Tenth ==
  ASSUME NEW n \in Nat, n >= 10
  PROVE  /\ n \div 10 \in 1 .. n - 1 /\ n % 10 \in 0 .. 9
         /\ n = 10 * (n \div 10) + (n % 10)
OBVIOUS

(* For every n something satisfies it up to n, and any two of them agree. *)
LEMMA DigitsToExists == \A n \in Nat : \E g : DigitsTo(g, n)
<1> DEFINE S == {n \in Nat : \E g : DigitsTo(g, n)}
<1>1. 0 \in S
  <2>1. PICK g : g = [k \in {0} |-> <<48 + k>>]
    OBVIOUS
  <2>2. DigitsTo(g, 0)
    BY <2>1 DEF DigitsTo, DigitsOf
  <2> QED BY <2>2
<1>2. ASSUME NEW n \in Nat, n \in S PROVE n + 1 \in S
  <2>1. PICK g : DigitsTo(g, n)
    BY <1>2
  <2>2. PICK h : h = [k \in 0 .. n + 1 |-> DigitsOf(g, k)]
    OBVIOUS
  <2>3. \A k \in 0 .. n : h[k] = g[k]
    <3>1. \A k \in 0 .. n : k \in 0 .. n + 1
      OBVIOUS
    <3> QED BY <2>1, <2>2, <3>1 DEF DigitsTo
  <2>4. ASSUME NEW k \in 0 .. n + 1 PROVE h[k] = DigitsOf(h, k)
    <3>1. h[k] = DigitsOf(g, k)
      BY <2>2
    <3>2. CASE k < 10
      BY <3>1, <3>2 DEF DigitsOf
    <3>3. CASE ~(k < 10)
      <4>1. k \in Nat /\ k >= 10 /\ k <= n + 1
        BY <3>3
      <4>2. k \div 10 \in 1 .. k - 1
        BY <4>1, Tenth
      <4>3. k \div 10 \in 0 .. n
        BY <4>1, <4>2
      <4>4. h[k \div 10] = g[k \div 10]
        BY <2>3, <4>3
      <4> QED BY <3>1, <3>3, <4>4 DEF DigitsOf
    <3> QED BY <3>2, <3>3
  <2>5. DigitsTo(h, n + 1)
    BY <2>4 DEF DigitsTo
  <2>6. n + 1 \in Nat
    OBVIOUS
  <2> QED BY <2>5, <2>6
<1> HIDE DEF S
<1>3. \A n \in Nat : n \in S
  BY <1>1, <1>2, UpInduction
<1> QED BY <1>3 DEF S

LEMMA DigitsToAgree ==
  ASSUME NEW m \in Nat, NEW n \in Nat, m <= n, NEW g, NEW h, DigitsTo(g, m), DigitsTo(h, n)
  PROVE  g[m] = h[m]
<1> DEFINE S == {k \in Nat : k <= m => g[k] = h[k]}
<1>1. ASSUME NEW k \in Nat, \A j \in 0 .. k - 1 : j \in S PROVE k \in S
  <2> SUFFICES ASSUME k <= m PROVE g[k] = h[k]
    OBVIOUS
  <2>1. k \in 0 .. m /\ k \in 0 .. n
    OBVIOUS
  <2>2. g[k] = DigitsOf(g, k) /\ h[k] = DigitsOf(h, k)
    BY <2>1 DEF DigitsTo
  <2>3. CASE k < 10
    BY <2>2, <2>3 DEF DigitsOf
  <2>4. CASE ~(k < 10)
    <3>1. k \div 10 \in 1 .. k - 1
      BY <2>4, Tenth
    <3>2. k \div 10 \in 0 .. k - 1 /\ k \div 10 <= m
      BY <3>1
    <3>3. g[k \div 10] = h[k \div 10]
      BY <1>1, <3>2
    <3> QED BY <2>2, <2>4, <3>3 DEF DigitsOf
  <2> QED BY <2>3, <2>4
<1> HIDE DEF S
<1>2. m \in S
  BY <1>1, SetInduction
<1> QED BY <1>2 DEF S

(* Decimal satisfies its definition. *)
LEMMA DecimalIs == \A n \in Nat : Decimal[n] = DigitsOf(Decimal, n)
<1> DEFINE G(n) == CHOOSE g : DigitsTo(g, n)
           f == [n \in Nat |-> G(n)[n]]
<1>1. \A n \in Nat : DigitsTo(G(n), n)
  BY DigitsToExists
<1> HIDE DEF G
<1>2. ASSUME NEW n \in Nat PROVE f[n] = DigitsOf(f, n)
  <2>1. G(n)[n] = DigitsOf(G(n), n)
    <3>1. n \in 0 .. n
      OBVIOUS
    <3> QED BY <1>1, <3>1 DEF DigitsTo
  <2>2. CASE n < 10
    BY <2>1, <2>2 DEF DigitsOf
  <2>3. CASE ~(n < 10)
    <3>1. PICK m : m = n \div 10
      OBVIOUS
    <3>2. m \in Nat /\ m <= n
      <4>1. n \div 10 \in 1 .. n - 1
        BY <2>3, Tenth
      <4> QED BY <3>1, <4>1
    <3>3. G(m)[m] = G(n)[m]
      BY <1>1, <3>2, DigitsToAgree
    <3>4. f[m] = G(m)[m]
      BY <3>2
    <3>5. f[n] = G(n)[n]
      OBVIOUS
    <3> HIDE DEF f
    <3> QED BY <2>1, <2>3, <3>1, <3>3, <3>4, <3>5 DEF DigitsOf
  <2> QED BY <2>2, <2>3
<1>3. f = [n \in Nat |-> DigitsOf(f, n)]
  <2>1. f = [n \in Nat |-> f[n]]
    OBVIOUS
  <2> HIDE DEF f
  <2> QED BY <1>2, <2>1
<1>4. \E e : e = [n \in Nat |-> DigitsOf(e, n)]
  <2> HIDE DEF f
  <2> QED BY <1>3
<1>5. Decimal = CHOOSE e : e = [n \in Nat |-> DigitsOf(e, n)]
  BY DEF Decimal, DigitsOf
<1>6. Decimal = [n \in Nat |-> DigitsOf(Decimal, n)]
  BY <1>4, <1>5
<1>7. PICK D : D = Decimal
  OBVIOUS
<1>8. D = [n \in Nat |-> DigitsOf(D, n)]
  BY <1>6, <1>7
<1>9. \A n \in Nat : D[n] = DigitsOf(D, n)
  BY <1>8
<1> QED BY <1>7, <1>9

(* The digits of a number are digits, and at least one. *)
LEMMA DecimalDigits ==
  \A n \in Nat : Decimal[n] \in Seq(Digits) /\ Len(Decimal[n]) \in Nat \ {0}
<1> DEFINE S == {n \in Nat : Decimal[n] \in Seq(Digits) /\ Len(Decimal[n]) \in Nat \ {0}}
<1>1. ASSUME NEW n \in Nat, \A k \in 0 .. n - 1 : k \in S PROVE n \in S
  <2>1. Decimal[n] = DigitsOf(Decimal, n)
    BY DecimalIs
  <2>2. CASE n < 10
    <3>1. 48 + n \in Digits
      BY <2>2 DEF Digits
    <3>2. Decimal[n] = <<48 + n>>
      BY <2>1, <2>2 DEF DigitsOf
    <3>3. PICK c : c = 48 + n
      OBVIOUS
    <3>4. <<c>> \in Seq(Digits) /\ Len(<<c>>) \in Nat \ {0}
      BY <3>1, <3>3
    <3> QED BY <3>2, <3>3, <3>4
  <2>3. CASE ~(n < 10)
    <3>1. PICK m, d : m = n \div 10 /\ d = 48 + (n % 10)
      OBVIOUS
    <3>2. m \in 0 .. n - 1 /\ d \in Digits
      <4>1. n \div 10 \in 1 .. n - 1 /\ n % 10 \in 0 .. 9
        BY <2>3, Tenth
      <4> QED BY <3>1, <4>1 DEF Digits
    <3>3. Decimal[m] \in Seq(Digits)
      BY <1>1, <3>2
    <3>4. Decimal[n] = Append(Decimal[m], d)
      BY <2>1, <2>3, <3>1 DEF DigitsOf
    <3>5. PICK s : s = Decimal[m]
      OBVIOUS
    <3>6. Append(s, d) \in Seq(Digits) /\ Len(Append(s, d)) = Len(s) + 1 /\ Len(s) \in Nat
      BY <3>2, <3>3, <3>5, AppendProperties
    <3>7. Len(s) + 1 \in Nat \ {0}
      BY <3>6
    <3> QED BY <3>4, <3>5, <3>6, <3>7
  <2> QED BY <2>2, <2>3
<1> HIDE DEF S
<1>2. \A n \in Nat : n \in S
  BY <1>1, SetInduction
<1> QED BY <1>2 DEF S

(* A number of more than one digit ends with its remainder by ten. *)
LEMMA DecimalStep ==
  ASSUME NEW n \in Nat, n >= 10
  PROVE  /\ n \div 10 \in Nat /\ n \div 10 < n /\ n % 10 \in 0 .. 9
         /\ n = 10 * (n \div 10) + (n % 10)
         /\ Decimal[n] = Append(Decimal[n \div 10], 48 + (n % 10))
         /\ Len(Decimal[n]) = Len(Decimal[n \div 10]) + 1
<1>1. n \div 10 \in 1 .. n - 1 /\ n % 10 \in 0 .. 9 /\ n = 10 * (n \div 10) + (n % 10)
  BY Tenth
<1>2. n \div 10 \in Nat /\ n \div 10 < n
  BY <1>1
<1>3. Decimal[n] = Append(Decimal[n \div 10], 48 + (n % 10))
  <2>1. ~(n < 10) /\ Decimal[n] = DigitsOf(Decimal, n)
    BY DecimalIs
  <2> QED BY <2>1 DEF DigitsOf
<1>4. PICK s, d : s = Decimal[n \div 10] /\ d = 48 + (n % 10)
  OBVIOUS
<1>5. s \in Seq(Digits) /\ d \in Digits
  BY <1>1, <1>2, <1>4, DecimalDigits DEF Digits
<1>6. Len(Append(s, d)) = Len(s) + 1
  BY <1>5, AppendProperties
<1> QED BY <1>1, <1>2, <1>3, <1>4, <1>6

(* Ten times the bound costs one digit; eight digits are enough below 10^8. *)
LEMMA LongerByOne ==
  ASSUME NEW b \in Nat, NEW k \in Nat,
         \A n \in Nat : n < b => Len(Decimal[n]) <= k
  PROVE  \A n \in Nat : n < 10 * b => Len(Decimal[n]) <= k + 1
<1> SUFFICES ASSUME NEW n \in Nat, n < 10 * b PROVE Len(Decimal[n]) <= k + 1
  OBVIOUS
<1>1. CASE n < 10
  <2>1. Decimal[n] = <<48 + n>>
    BY <1>1, DecimalIs DEF DigitsOf
  <2>2. Len(Decimal[n]) = 1
    BY <2>1
  <2> QED BY <2>2
<1>2. CASE ~(n < 10)
  <2>1. PICK m, r : m = n \div 10 /\ r = n % 10
    OBVIOUS
  <2>2. m \in Nat /\ n = 10 * m + r /\ r \in 0 .. 9 /\ Len(Decimal[n]) = Len(Decimal[m]) + 1
    <3>1. n >= 10
      BY <1>2
    <3> QED BY <2>1, <3>1, DecimalStep, Zenon
  <2>3. m < b
    BY <2>2
  <2>4. Len(Decimal[m]) <= k /\ Len(Decimal[m]) \in Nat
    BY <2>2, <2>3, DecimalDigits
  <2> QED BY <2>2, <2>4
<1> QED BY <1>1, <1>2

LEMMA DecimalShort == \A n \in Nat : n < 100000000 => Len(Decimal[n]) <= 8
<1> DEFINE Short(b, k) == \A m \in Nat : m < b => Len(Decimal[m]) <= k
<1>1. ASSUME NEW b \in Nat, NEW k \in Nat, Short(b, k) PROVE Short(10 * b, k + 1)
  BY <1>1, LongerByOne
<1>2. Short(10, 1)
  <2> SUFFICES ASSUME NEW m \in Nat, m < 10 PROVE Len(Decimal[m]) <= 1
    BY DEF Short
  <2>1. Decimal[m] = <<48 + m>>
    BY DecimalIs DEF DigitsOf
  <2> QED BY <2>1
<1> HIDE DEF Short
<1>3. Short(100, 2)
  BY <1>1, <1>2, SMT
<1>4. Short(1000, 3)
  BY <1>1, <1>3, SMT
<1>5. Short(10000, 4)
  BY <1>1, <1>4, SMT
<1>6. Short(100000, 5)
  BY <1>1, <1>5, SMT
<1>7. Short(1000000, 6)
  BY <1>1, <1>6, SMT
<1>8. Short(10000000, 7)
  BY <1>1, <1>7, SMT
<1>9. Short(100000000, 8)
  BY <1>1, <1>8, SMT
<1> QED BY <1>9, SMT DEF Short

-----------------------------------------------------------------------------
(* What parse_u64 is *)

(* The value after i characters, from that after one less. *)
Accumulate(buf, v, i) == IF i = 0 THEN 0 ELSE (10 * v[i - 1] + (buf[i] - 48)) % U64

(* v has the value after every number of characters up to n. *)
Values(buf, v, n) == v = [i \in 0 .. n |-> Accumulate(buf, v, i)]

(* There are such values for every number of characters. *)
LEMMA ValuesExist == ASSUME NEW buf PROVE \A n \in Nat : \E v : Values(buf, v, n)
<1> DEFINE S == {n \in Nat : \E v : Values(buf, v, n)}
<1>1. 0 \in S
  <2>1. PICK v : v = [i \in 0 .. 0 |-> 0]
    OBVIOUS
  <2>2. \A i \in 0 .. 0 : Accumulate(buf, v, i) = 0
    BY DEF Accumulate
  <2>3. Values(buf, v, 0)
    BY <2>1, <2>2 DEF Values
  <2> QED BY <2>3
<1>2. ASSUME NEW n \in Nat, n \in S PROVE n + 1 \in S
  <2>1. PICK v : Values(buf, v, n)
    BY <1>2
  <2>2. PICK w : w = [i \in 0 .. n + 1 |-> Accumulate(buf, v, i)]
    OBVIOUS
  <2>3. \A i \in 0 .. n : w[i] = v[i]
    <3>1. \A i \in 0 .. n : i \in 0 .. n + 1 /\ v[i] = Accumulate(buf, v, i)
      BY <2>1 DEF Values
    <3> QED BY <2>2, <3>1
  <2>4. ASSUME NEW i \in 0 .. n + 1 PROVE Accumulate(buf, v, i) = Accumulate(buf, w, i)
    <3>1. CASE i = 0
      BY <3>1 DEF Accumulate
    <3>2. CASE i # 0
      <4>1. i - 1 \in 0 .. n
        BY <3>2
      <4>2. w[i - 1] = v[i - 1]
        BY <2>3, <4>1
      <4> QED BY <3>2, <4>2 DEF Accumulate
    <3> QED BY <3>1, <3>2
  <2>5. w = [i \in 0 .. n + 1 |-> Accumulate(buf, w, i)]
    BY <2>2, <2>4
  <2>6. Values(buf, w, n + 1)
    BY <2>5 DEF Values
  <2>7. n + 1 \in Nat
    OBVIOUS
  <2> QED BY <2>6, <2>7
<1> HIDE DEF S
<1>3. \A n \in Nat : n \in S
  BY <1>1, <1>2, UpInduction
<1> QED BY <1>3 DEF S

(* parse_u64 returns the last of the values. *)
LEMMA ParseValues ==
  ASSUME NEW buf, Len(buf) \in Nat, NEW len
  PROVE  \E v : Values(buf, v, Len(buf)) /\ parse_u64(buf, len) = v[DigitRun(buf, len)]
<1>1. PICK v : v = CHOOSE w : Values(buf, w, Len(buf))
  OBVIOUS
<1>2. Values(buf, v, Len(buf))
  BY <1>1, ValuesExist
<1>3. parse_u64(buf, len) = (CHOOSE w : Values(buf, w, Len(buf)))[DigitRun(buf, len)]
  BY DEF parse_u64, Values, Accumulate
<1> QED BY <1>1, <1>2, <1>3

(* The run of digits stays in the buffer. *)
LEMMA DigitRunFacts ==
  ASSUME NEW buf, Len(buf) \in Nat, NEW len \in Nat
  PROVE  DigitRun(buf, len) \in 0 .. Len(buf)
<1>1. PICK f : f = FirstNotIn(buf, Digits)
  OBVIOUS
<1>2. f \in 1 .. Len(buf) + 1
  BY <1>1, FirstNotInFacts
<1>3. DigitRun(buf, len) = IF f - 1 < len THEN f - 1 ELSE len
  BY <1>1 DEF DigitRun
<1> QED BY <1>2, <1>3

(* A u64 is a remainder, and wraps around only when it must. *)
LEMMA Remainder ==
  ASSUME NEW a \in Int
  PROVE  a % U64 \in 0 .. U64 - 1 /\ (a \in 0 .. U64 - 1 => a % U64 = a)
  BY ParseAssumption

(* parse_u64 returns a u64. *)
LEMMA ParseType ==
  ASSUME NEW buf \in Seq(Int), NEW len \in Nat
  PROVE  parse_u64(buf, len) \in 0 .. U64 - 1
<1>0. Len(buf) \in Nat /\ \A i \in 1 .. Len(buf) : buf[i] \in Int
  OBVIOUS
<1>1. PICK v : Values(buf, v, Len(buf)) /\ parse_u64(buf, len) = v[DigitRun(buf, len)]
  BY <1>0, ParseValues
<1> DEFINE S == {n \in Nat : n <= Len(buf) => v[n] \in 0 .. U64 - 1}
<1>2. v[0] = 0
  BY <1>0, <1>1 DEF Values, Accumulate
<1>3. 0 \in S
  BY <1>2, ParseAssumption
<1>4. ASSUME NEW n \in Nat, n \in S PROVE n + 1 \in S
  <2> SUFFICES ASSUME n + 1 <= Len(buf) PROVE v[n + 1] \in 0 .. U64 - 1
    OBVIOUS
  <2>1. n + 1 \in 0 .. Len(buf) /\ n + 1 # 0 /\ (n + 1) - 1 = n /\ n + 1 \in 1 .. Len(buf)
    BY <1>0
  <2>2. v[n + 1] = (10 * v[n] + (buf[n + 1] - 48)) % U64
    BY <1>1, <2>1 DEF Values, Accumulate
  <2>3. v[n] \in Int /\ buf[n + 1] \in Int
    <3>1. v[n] \in 0 .. U64 - 1
      BY <1>0, <1>4
    <3> QED BY <1>0, <2>1, <3>1
  <2>4. 10 * v[n] + (buf[n + 1] - 48) \in Int
    BY <2>3
  <2> QED BY <2>2, <2>4, Remainder
<1> HIDE DEF S
<1>5. \A n \in Nat : n \in S
  BY <1>3, <1>4, UpInduction
<1>6. DigitRun(buf, len) \in 0 .. Len(buf)
  BY <1>0, DigitRunFacts
<1>7. DigitRun(buf, len) \in Nat /\ DigitRun(buf, len) <= Len(buf)
  BY <1>0, <1>6
<1> QED BY <1>1, <1>5, <1>7 DEF S

(* parse_u64 reads back what the kernel prints: the digits of a number and  *)
(* another character after them.                                            *)
THEOREM ParseReadsBack ==
  ASSUME NEW buf, Len(buf) \in Nat, NEW n \in 0 .. U64 - 1, NEW len \in Nat,
         Len(Decimal[n]) <= len, Len(Decimal[n]) < Len(buf),
         \A i \in 1 .. Len(Decimal[n]) : buf[i] = Decimal[n][i],
         buf[Len(Decimal[n]) + 1] \notin Digits
  PROVE  parse_u64(buf, len) = n
<1>0. n \in Nat /\ U64 \in Nat
  BY ParseAssumption
<1>1. PICK v : Values(buf, v, Len(buf)) /\ parse_u64(buf, len) = v[DigitRun(buf, len)]
  BY ParseValues
<1>2. ASSUME NEW i \in Nat, i < Len(buf)
      PROVE  v[i + 1] = (10 * v[i] + (buf[i + 1] - 48)) % U64
  <2>1. i + 1 \in 0 .. Len(buf) /\ i + 1 # 0 /\ (i + 1) - 1 = i
    BY <1>2
  <2> QED BY <1>1, <2>1 DEF Values, Accumulate
<1>3. v[0] = 0
  BY <1>1 DEF Values, Accumulate
<1> DEFINE Starts(m) == /\ m < U64 /\ Len(Decimal[m]) < Len(buf)
                        /\ \A i \in 1 .. Len(Decimal[m]) : buf[i] = Decimal[m][i]
           S == {m \in Nat : Starts(m) => v[Len(Decimal[m])] = m}
<1>4. ASSUME NEW m \in Nat, \A k \in 0 .. m - 1 : k \in S PROVE m \in S
  <2> SUFFICES ASSUME Starts(m) PROVE v[Len(Decimal[m])] = m
    OBVIOUS
  <2>0. m \in Int /\ m \in 0 .. U64 - 1
    BY <1>0
  <2>1. CASE m < 10
    <3>1. Decimal[m] = <<48 + m>>
      BY <2>1, DecimalIs DEF DigitsOf
    <3>2. Len(Decimal[m]) = 1 /\ Decimal[m][1] = 48 + m
      BY <3>1
    <3>3. buf[1] = 48 + m
      BY <3>2
    <3>4. v[1] = m % U64
      <4>1. v[1] = (10 * 0 + ((48 + m) - 48)) % U64
        BY <1>2, <1>3, <3>2, <3>3
      <4> QED BY <4>1
    <3> QED BY <2>0, <3>2, <3>4, Remainder
  <2>2. CASE ~(m < 10)
    <3>1. PICK q, r, s : q = m \div 10 /\ r = m % 10 /\ s = Decimal[q]
      OBVIOUS
    <3>2. /\ q \in Nat /\ q < m /\ r \in 0 .. 9 /\ m = 10 * q + r
          /\ Decimal[m] = Append(s, 48 + r) /\ Len(Decimal[m]) = Len(s) + 1
      BY <2>2, <3>1, DecimalStep
    <3>3. s \in Seq(Digits) /\ Len(s) \in Nat
      BY <3>1, <3>2, DecimalDigits
    <3>4. /\ \A i \in 1 .. Len(s) : Decimal[m][i] = s[i] /\ i \in 1 .. Len(s) + 1
          /\ Decimal[m][Len(s) + 1] = 48 + r /\ Len(s) + 1 \in 1 .. Len(s) + 1
      <4>1. /\ Append(s, 48 + r)[Len(s) + 1] = 48 + r
            /\ \A i \in 1 .. Len(s) : Append(s, 48 + r)[i] = s[i]
        BY <3>3
      <4>2. \A i \in 1 .. Len(s) : i \in 1 .. Len(s) + 1
        BY <3>3
      <4>3. Len(s) + 1 \in 1 .. Len(s) + 1
        BY <3>3
      <4> QED BY <3>2, <4>1, <4>2, <4>3
    <3>5. /\ \A i \in 1 .. Len(s) : buf[i] = s[i]
          /\ buf[Len(s) + 1] = 48 + r
      BY <3>2, <3>4
    <3>6. q < U64 /\ Len(s) < Len(buf)
      BY <1>0, <3>2, <3>3
    <3>7. v[Len(s)] = q
      <4>1. q \in 0 .. m - 1
        BY <3>2
      <4>2. q \in S
        BY <1>4, <4>1
      <4> QED BY <3>1, <3>5, <3>6, <4>2
    <3>8. v[Len(s) + 1] = (10 * q + ((48 + r) - 48)) % U64
      BY <1>2, <3>3, <3>5, <3>6, <3>7
    <3>9. 10 * q + ((48 + r) - 48) = m
      BY <3>2
    <3> QED BY <2>0, <3>2, <3>8, <3>9, Remainder
  <2> QED BY <2>1, <2>2
<1>5. v[Len(Decimal[n])] = n
  <2>1. Starts(n)
    BY <1>0
  <2> HIDE DEF Starts
  <2>2. n \in S
    <3> HIDE DEF S
    <3> QED BY <1>0, <1>4, SetInduction
  <2> QED BY <2>1, <2>2
<1>6. DigitRun(buf, len) = Len(Decimal[n])
  <2>1. PICK s : s = Decimal[n]
    OBVIOUS
  <2>2. s \in Seq(Digits) /\ Len(s) \in Nat
    BY <1>0, <2>1, DecimalDigits
  <2>3. \A i \in 1 .. Len(s) : s[i] \in Digits
    BY <2>2
  <2>4. /\ Len(s) + 1 \in 1 .. Len(buf) /\ (Len(s) + 1) - 1 = Len(s) /\ Len(s) <= len
    BY <2>1, <2>2
  <2>5. \A i \in 1 .. Len(s) : buf[i] \in Digits
    BY <2>1, <2>3
  <2>6. FirstNotIn(buf, Digits) = Len(s) + 1
    BY <2>1, <2>4, <2>5, FirstNotInIs
  <2>7. DigitRun(buf, len) = IF Len(s) < len THEN Len(s) ELSE len
    BY <2>4, <2>6 DEF DigitRun
  <2> QED BY <2>1, <2>2, <2>4, <2>7
<1> QED BY <1>1, <1>5, <1>6

-----------------------------------------------------------------------------
(* The scanner of parse_proc_files *)

(* The line that ends at e starts behind the last newline before it. *)
LEMMA LineToIs ==
  ASSUME NEW file \in Seq(Nat), NEW e \in 1 .. Len(file), NEW ls \in 1 .. e,
         ls = 1 \/ file[ls - 1] = NEWLINE,
         \A i \in ls .. e - 1 : file[i] # NEWLINE
  PROVE  LineTo(file, e) = SubSeq(file, ls, e - 1)
<1> DEFINE before == {i \in Newlines(file) : i < e}
           s == IF before = {} THEN 0 ELSE CHOOSE i \in before : \A j \in before : j <= i
<1>0. Len(file) \in Nat /\ DOMAIN file = 1 .. Len(file)
  OBVIOUS
<1>1. \A i \in before : i \in 1 .. ls - 1
  BY <1>0 DEF Newlines
<1>2. s = ls - 1
  <2>1. CASE ls = 1
    <3>1. before = {}
      BY <1>1, <2>1
    <3> QED BY <2>1, <3>1
  <2>2. CASE ls # 1
    <3>1. ls - 1 \in before
      BY <1>0, <2>2 DEF Newlines
    <3>2. \A j \in before : j \in Nat /\ j <= ls - 1
      BY <1>1
    <3>3. s = CHOOSE i \in before : \A j \in before : j <= i
      BY <3>1
    <3> HIDE DEF before, s
    <3>4. \A i \in before : (\A j \in before : j <= i) => i = ls - 1
      BY <3>1, <3>2
    <3> QED BY <3>1, <3>2, <3>3, <3>4
  <2> QED BY <2>1, <2>2
<1>3. LineTo(file, e) = SubSeq(file, s + 1, e - 1)
  BY DEF LineTo
<1>4. s + 1 = ls
  BY <1>2
<1> QED BY <1>3, <1>4

(* The length and the characters of a line. *)
LEMMA LineFacts ==
  ASSUME NEW file \in Seq(Nat), NEW e \in 1 .. Len(file), NEW ls \in 1 .. e
  PROVE  /\ SubSeq(file, ls, e - 1) \in Seq(Nat)
         /\ Len(SubSeq(file, ls, e - 1)) = e - ls
         /\ \A i \in 1 .. e - ls : SubSeq(file, ls, e - 1)[i] = file[ls + i - 1]
<1>1. \A i \in ls .. e - 1 : file[i] \in Nat
  OBVIOUS
<1>2. PICK t : t = SubSeq(file, ls, e - 1)
  OBVIOUS
<1>3. /\ t \in Seq(Nat) /\ Len(t) = IF ls <= e - 1 THEN (e - 1) - ls + 1 ELSE 0
      /\ \A i \in 1 .. (e - 1) - ls + 1 : t[i] = file[ls + i - 1]
  BY <1>1, <1>2, SubSeqProperties
<1>4. (e - 1) - ls + 1 = e - ls /\ (~(ls <= e - 1) => e - ls = 0)
  OBVIOUS
<1> QED BY <1>2, <1>3, <1>4

(* A line has a colon when one of its characters in the file is one. *)
LEMMA HasColonIs ==
  ASSUME NEW file \in Seq(Nat), NEW e \in 1 .. Len(file), NEW ls \in 1 .. e
  PROVE  HasColon(SubSeq(file, ls, e - 1)) <=> \E i \in ls .. e - 1 : file[i] = COLON
<1>1. PICK t : t = SubSeq(file, ls, e - 1)
  OBVIOUS
<1>2. /\ t \in Seq(Nat) /\ Len(t) = e - ls
      /\ \A i \in 1 .. e - ls : t[i] = file[ls + i - 1]
  BY <1>1, LineFacts
<1>3. DOMAIN t = 1 .. e - ls
  BY <1>2
<1>4. ASSUME NEW i \in 1 .. e - ls, t[i] = COLON PROVE \E k \in ls .. e - 1 : file[k] = COLON
  <2>1. ls + i - 1 \in ls .. e - 1
    OBVIOUS
  <2>2. file[ls + i - 1] = COLON
    BY <1>2, <1>4
  <2> QED BY <2>1, <2>2
<1>5. ASSUME NEW k \in ls .. e - 1, file[k] = COLON PROVE \E i \in 1 .. e - ls : t[i] = COLON
  <2>1. PICK i : i = k - ls + 1
    OBVIOUS
  <2>2. i \in 1 .. e - ls /\ ls + i - 1 = k
    BY <2>1
  <2>3. t[i] = file[k]
    BY <1>2, <2>2
  <2> QED BY <1>5, <2>2, <2>3
<1> QED BY <1>1, <1>3, <1>4, <1>5 DEF HasColon

LEMMA ClipFacts ==
  ASSUME NEW n \in Nat
  PROVE  Clip(n) \in Nat /\ Clip(n) <= n
BY ProcFileAssumption DEF Clip

(* The first n characters of a line, or of its rest. *)
LEMMA CutIs ==
  ASSUME NEW file \in Seq(Nat), NEW e \in 1 .. Len(file), NEW a \in 1 .. e,
         NEW n \in Int, n <= e - a
  PROVE  /\ SubSeq(SubSeq(file, a, e - 1), 1, n) = SubSeq(file, a, a + n - 1)
         /\ SubSeq(file, a, a + n - 1) \in Seq(Nat)
<1>1. Len(file) \in Nat
  OBVIOUS
<1>2. a \in Nat \ {0} /\ e - 1 \in Nat /\ a <= (e - 1) + 1 /\ n <= (e - 1) - a + 1
  OBVIOUS
<1>3. e - 1 <= Len(file) /\ a + 1 - 1 = a
  BY <1>1
<1>4. SubSeq(SubSeq(file, a, e - 1), 1, n) = SubSeq(file, a + 1 - 1, a + n - 1)
  BY <1>2, <1>3, PartOfPart
<1>5. \A i \in a .. a + n - 1 : file[i] \in Nat
  BY <1>1
<1>6. SubSeq(file, a, a + n - 1) \in Seq(Nat)
  BY <1>5, SubSeqProperties
<1> QED BY <1>3, <1>4, <1>6

(* The colon of a line, what follows it, and the key before it. *)
LEMMA KeyIs ==
  ASSUME NEW file \in Seq(Nat), NEW e \in 1 .. Len(file), NEW ls \in 1 .. e,
         NEW d \in ls .. e - 1, file[d] = COLON, \A i \in ls .. d - 1 : file[i] # COLON
  PROVE  LET line == SubSeq(file, ls, e - 1)
         IN  /\ FirstIn(line, {COLON}) = d - ls + 1
             /\ SubSeq(line, (d - ls + 1) + 1, Len(line)) = SubSeq(file, d + 1, e - 1)
             /\ SubSeq(line, 1, Clip(d - ls) - 1) = SubSeq(file, ls, ls + Clip(d - ls) - 2)
             /\ SubSeq(file, ls, ls + Clip(d - ls) - 2) \in Seq(Nat)
<1>0. Len(file) \in Nat
  OBVIOUS
<1> PICK line : line = SubSeq(file, ls, e - 1)
  OBVIOUS
<1>1. /\ line \in Seq(Nat) /\ Len(line) = e - ls
      /\ \A i \in 1 .. e - ls : line[i] = file[ls + i - 1]
  BY LineFacts
<1>2. PICK n : n = d - ls + 1
  OBVIOUS
<1>3. n \in 1 .. e - ls /\ ls + n - 1 = d
  BY <1>2
<1>4. FirstIn(line, {COLON}) = n
  <2>1. n \in 1 .. Len(line) /\ Len(line) \in Nat
    BY <1>1, <1>3
  <2>2. line[n] \in {COLON}
    BY <1>1, <1>3
  <2>3. ASSUME NEW i \in 1 .. n - 1 PROVE line[i] \notin {COLON}
    <3>1. i \in 1 .. e - ls /\ ls + i - 1 \in ls .. d - 1
      BY <1>3
    <3> QED BY <1>1, <3>1
  <2> QED BY <2>1, <2>2, <2>3, FirstInIs
<1>5. SubSeq(line, n + 1, Len(line)) = SubSeq(file, d + 1, e - 1)
  <2>1. PICK j, m, k : j = e - 1 /\ m = n + 1 /\ k = e - ls
    OBVIOUS
  <2>2. m \in Nat \ {0} /\ ls + m - 1 = d + 1 /\ ls + k - 1 = e - 1
    BY <1>3, <2>1
  <2>3. ls \in Nat \ {0} /\ j \in Nat /\ ls <= j + 1 /\ j <= Len(file)
        /\ k \in Int /\ k <= j - ls + 1
    BY <1>0, <2>1
  <2>4. SubSeq(SubSeq(file, ls, j), m, k) = SubSeq(file, ls + m - 1, ls + k - 1)
    BY <2>2, <2>3, PartOfPart
  <2> QED BY <1>1, <2>1, <2>2, <2>4
<1>6. PICK b : b = Clip(d - ls)
  OBVIOUS
<1>7. b - 1 \in Int /\ b - 1 <= e - ls /\ ls + (b - 1) - 1 = ls + b - 2
  <2>1. d - ls \in Nat
    OBVIOUS
  <2>2. b \in Nat /\ b <= d - ls
    BY <1>6, <2>1, ClipFacts
  <2> QED BY <2>2
<1>8. SubSeq(line, 1, b - 1) = SubSeq(file, ls, ls + (b - 1) - 1)
      /\ SubSeq(file, ls, ls + (b - 1) - 1) \in Seq(Nat)
  BY <1>7, CutIs
<1> QED BY <1>2, <1>4, <1>5, <1>6, <1>7, <1>8

(* The value of a line from its first character that is no blank. *)
LEMMA ValueIs ==
  ASSUME NEW file \in Seq(Nat), NEW e \in 1 .. Len(file), NEW a \in 1 .. e,
         NEW f \in 1 .. (e - a) + 1
  PROVE  LET rest == SubSeq(file, a, e - 1)
             val == SubSeq(rest, f, Len(rest))
             vs == a + f - 1
         IN  /\ SubSeq(val, 1, Clip(Len(val))) = SubSeq(file, vs, vs + Clip(e - vs) - 1)
             /\ SubSeq(file, vs, vs + Clip(e - vs) - 1) \in Seq(Nat)
<1>0. Len(file) \in Nat
  OBVIOUS
<1> PICK rest : rest = SubSeq(file, a, e - 1)
  OBVIOUS
<1>1. rest \in Seq(Nat) /\ Len(rest) = e - a
  BY LineFacts
<1>2. PICK vs : vs = a + f - 1
  OBVIOUS
<1>3. vs \in 1 .. e /\ a + (e - a) - 1 = e - 1
  BY <1>2
<1>4. SubSeq(rest, f, Len(rest)) = SubSeq(file, vs, e - 1)
  <2>1. PICK j, k : j = e - 1 /\ k = e - a
    OBVIOUS
  <2>2. a \in Nat \ {0} /\ j \in Nat /\ a <= j + 1 /\ j <= Len(file)
        /\ f \in Nat \ {0} /\ k \in Int /\ k <= j - a + 1
    BY <1>0, <2>1
  <2>3. SubSeq(SubSeq(file, a, j), f, k) = SubSeq(file, a + f - 1, a + k - 1)
    BY <2>2, PartOfPart
  <2> QED BY <1>1, <1>2, <1>3, <2>1, <2>3
<1>5. PICK val : val = SubSeq(file, vs, e - 1)
  OBVIOUS
<1>6. Len(val) = e - vs
  BY <1>3, <1>5, LineFacts
<1>7. PICK c : c = Clip(e - vs)
  OBVIOUS
<1>8. c \in Int /\ c <= e - vs
  <2>1. e - vs \in Nat
    BY <1>3
  <2> QED BY <1>7, <2>1, ClipFacts
<1>9. SubSeq(val, 1, c) = SubSeq(file, vs, vs + c - 1) /\ SubSeq(file, vs, vs + c - 1) \in Seq(Nat)
  BY <1>3, <1>5, <1>8, CutIs
<1> QED BY <1>1, <1>2, <1>4, <1>5, <1>6, <1>7, <1>9

(* The scanner's copies are the entry that the line as a whole describes. *)
LEMMA EntryForIs ==
  ASSUME NEW file \in Seq(Nat), NEW e \in 1 .. Len(file), NEW ls \in 1 .. e,
         NEW d \in ls .. e - 1, file[d] = COLON, \A i \in ls .. d - 1 : file[i] # COLON
  PROVE  LET vs == d + FirstNotIn(SubSeq(file, d + 1, e - 1), {SPACE, TAB})
             key == SubSeq(file, ls, ls + Clip(d - ls) - 2)
             value == SubSeq(file, vs, vs + Clip(e - vs) - 1)
         IN  /\ EntryFor(SubSeq(file, ls, e - 1)) = [key |-> key, value |-> value]
             /\ key \in Seq(Nat) /\ value \in Seq(Nat)
<1>1. PICK line, rest : line = SubSeq(file, ls, e - 1) /\ rest = SubSeq(file, d + 1, e - 1)
  OBVIOUS
<1>2. PICK key : key = SubSeq(file, ls, ls + Clip(d - ls) - 2)
  OBVIOUS
<1>3. /\ FirstIn(line, {COLON}) = d - ls + 1
      /\ SubSeq(line, (d - ls + 1) + 1, Len(line)) = rest
      /\ SubSeq(line, 1, Clip(d - ls) - 1) = key /\ key \in Seq(Nat)
  <2> DEFINE whole == SubSeq(file, ls, e - 1)
  <2>1. /\ FirstIn(whole, {COLON}) = d - ls + 1
        /\ SubSeq(whole, (d - ls + 1) + 1, Len(whole)) = SubSeq(file, d + 1, e - 1)
        /\ SubSeq(whole, 1, Clip(d - ls) - 1) = SubSeq(file, ls, ls + Clip(d - ls) - 2)
        /\ SubSeq(file, ls, ls + Clip(d - ls) - 2) \in Seq(Nat)
    BY KeyIs
  <2> QED BY <1>1, <1>2, <2>1
<1>4. d \in Int /\ d + 1 \in 1 .. e /\ e - (d + 1) \in Nat
  OBVIOUS
<1>5. PICK a : a = d + 1
  OBVIOUS
<1>6. Len(rest) = e - a
  BY <1>1, <1>4, <1>5, LineFacts
<1>7. PICK f : f = FirstNotIn(rest, {SPACE, TAB})
  OBVIOUS
<1>8. f \in 1 .. (e - a) + 1
  BY <1>4, <1>5, <1>6, <1>7, FirstNotInFacts
<1>9. PICK vs : vs = a + f - 1
  OBVIOUS
<1>10. vs = d + f
  <2>1. f \in Int
    BY <1>8
  <2> QED BY <1>4, <1>5, <1>9, <2>1
<1>11. PICK val, value : /\ val = SubSeq(rest, f, Len(rest))
                         /\ value = SubSeq(file, vs, vs + Clip(e - vs) - 1)
  OBVIOUS
<1>12. SubSeq(val, 1, Clip(Len(val))) = value /\ value \in Seq(Nat)
  <2> DEFINE tail == SubSeq(file, a, e - 1)
             text == SubSeq(tail, f, Len(tail))
             start == a + f - 1
  <2>1. a \in 1 .. e /\ rest = tail
    BY <1>1, <1>4, <1>5
  <2>2. /\ SubSeq(text, 1, Clip(Len(text))) = SubSeq(file, start, start + Clip(e - start) - 1)
        /\ SubSeq(file, start, start + Clip(e - start) - 1) \in Seq(Nat)
    BY <1>8, <2>1, ValueIs
  <2> QED BY <1>9, <1>11, <2>1, <2>2
<1>13. (d - ls + 1) - 1 = d - ls
  OBVIOUS
<1>14. EntryFor(line) = [key |-> key, value |-> value]
  BY <1>3, <1>7, <1>11, <1>12, <1>13 DEF EntryFor
<1> QED BY <1>1, <1>2, <1>3, <1>7, <1>10, <1>11, <1>12, <1>14

(* The ends of entries below k are finitely many, and what is added at k. *)
LEMMA EntryEndsFacts ==
  ASSUME NEW file \in Seq(Nat), NEW k \in 1 .. Len(file)
  PROVE  /\ IsFiniteSet(EntryEnds(file, k)) /\ Cardinality(EntryEnds(file, k)) \in Nat
         /\ EntryEnds(file, k) \subseteq 1 .. k - 1
         /\ ~(file[k] = NEWLINE /\ HasColon(LineTo(file, k)))
              => EntryEnds(file, k + 1) = EntryEnds(file, k)
         /\ file[k] = NEWLINE /\ HasColon(LineTo(file, k))
              => EntryEnds(file, k + 1) = EntryEnds(file, k) \cup {k}
<1>0. Len(file) \in Nat /\ DOMAIN file = 1 .. Len(file)
  OBVIOUS
<1>1. EntryEnds(file, k) \in SUBSET (1 .. k - 1)
  BY <1>0 DEF EntryEnds, Newlines
<1>2. IsFiniteSet(1 .. k - 1)
  BY FS_Interval
<1>3. IsFiniteSet(EntryEnds(file, k))
  BY <1>1, <1>2, FS_Subset
<1>4. Cardinality(EntryEnds(file, k)) \in Nat
  BY <1>3, FS_CardinalityType
<1>5. \A i \in 1 .. Len(file) : i < k + 1 <=> i < k \/ i = k
  OBVIOUS
<1>6. EntryEnds(file, k + 1) = EntryEnds(file, k)
        \cup (IF file[k] = NEWLINE /\ HasColon(LineTo(file, k)) THEN {k} ELSE {})
  <2>1. ASSUME NEW x PROVE x \in EntryEnds(file, k + 1) <=>
          (x \in EntryEnds(file, k) \/ (x = k /\ file[k] = NEWLINE /\ HasColon(LineTo(file, k))))
    BY <1>0, <1>5 DEF EntryEnds, Newlines
  <2> QED BY <2>1
<1> QED BY <1>1, <1>3, <1>4, <1>6

(* Ranks count from 1 to the number of ends, and a later end changes none. *)
LEMMA RankFacts ==
  ASSUME NEW k \in Nat, NEW E, E \subseteq 1 .. k - 1, IsFiniteSet(E)
  PROVE  /\ \A e \in E : Rank(E, e) \in 1 .. Cardinality(E) /\ Rank(E \cup {k}, e) = Rank(E, e)
         /\ Cardinality(E \cup {k}) = Cardinality(E) + 1
         /\ Rank(E \cup {k}, k) = Cardinality(E) + 1
<1>1. Cardinality(E) \in Nat
  BY FS_CardinalityType
<1>2. k \notin E
  OBVIOUS
<1>3. Cardinality(E \cup {k}) = Cardinality(E) + 1
  BY <1>2, FS_AddElement
<1>4. {d \in E \cup {k} : d <= k} = E \cup {k}
  <2>1. \A d \in E \cup {k} : d <= k
    OBVIOUS
  <2> QED BY <2>1
<1>5. ASSUME NEW e \in E
      PROVE  Rank(E, e) \in 1 .. Cardinality(E) /\ Rank(E \cup {k}, e) = Rank(E, e)
  <2>1. PICK D : D = {d \in E : d <= e}
    OBVIOUS
  <2>2. D \in SUBSET E /\ e \in D
    BY <2>1
  <2>3. IsFiniteSet(D) /\ Cardinality(D) <= Cardinality(E)
    BY <2>2, FS_Subset
  <2>4. Cardinality(D) \in Nat
    BY <2>3, FS_CardinalityType
  <2>5. Cardinality(D) # 0
    BY <2>2, <2>3, FS_EmptySet
  <2>6. {d \in E \cup {k} : d <= e} = D
    BY <2>1
  <2>7. Rank(E, e) = Cardinality(D) /\ Rank(E \cup {k}, e) = Cardinality(D)
    BY <2>1, <2>6 DEF Rank
  <2> QED BY <1>1, <2>3, <2>4, <2>5, <2>7
<1> QED BY <1>3, <1>4, <1>5 DEF Rank

(* The entries written are those of the lines that end before k. *)
Matches(file, entries, k) ==
  /\ Len(entries) = Cardinality(EntryEnds(file, k))
  /\ \A e \in EntryEnds(file, k) :
       entries[Rank(EntryEnds(file, k), e)] = EntryFor(LineTo(file, e))

LEMMA MatchesAppend ==
  ASSUME NEW file \in Seq(Nat), NEW k \in 1 .. Len(file),
         file[k] = NEWLINE, HasColon(LineTo(file, k)),
         NEW S, NEW entries \in Seq(S), Matches(file, entries, k),
         NEW x \in S, x = EntryFor(LineTo(file, k))
  PROVE  Matches(file, Append(entries, x), k + 1)
<1>1. PICK E : E = EntryEnds(file, k)
  OBVIOUS
<1>2. /\ IsFiniteSet(E) /\ Cardinality(E) \in Nat /\ E \subseteq 1 .. k - 1
      /\ EntryEnds(file, k + 1) = E \cup {k}
  BY <1>1, EntryEndsFacts
<1>3. k \in Nat
  OBVIOUS
<1>4. /\ \A e \in E : Rank(E, e) \in 1 .. Cardinality(E) /\ Rank(E \cup {k}, e) = Rank(E, e)
      /\ Cardinality(E \cup {k}) = Cardinality(E) + 1
      /\ Rank(E \cup {k}, k) = Cardinality(E) + 1
  BY <1>2, <1>3, RankFacts
<1>5. /\ Len(entries) = Cardinality(E)
      /\ \A e \in E : entries[Rank(E, e)] = EntryFor(LineTo(file, e))
  BY <1>1 DEF Matches
<1>6. PICK F : F = Append(entries, x)
  OBVIOUS
<1>7. /\ Len(F) = Len(entries) + 1
      /\ \A i \in 1 .. Len(entries) : F[i] = entries[i]
      /\ F[Len(entries) + 1] = x
  BY <1>6, AppendProperties
<1>8. ASSUME NEW e \in E \cup {k} PROVE F[Rank(E \cup {k}, e)] = EntryFor(LineTo(file, e))
  <2>1. CASE e = k
    BY <1>4, <1>5, <1>7, <2>1
  <2>2. CASE e \in E
    <3>1. PICK r : r = Rank(E, e)
      OBVIOUS
    <3>2. r \in 1 .. Len(entries) /\ Rank(E \cup {k}, e) = r /\ entries[r] = EntryFor(LineTo(file, e))
      BY <1>4, <1>5, <2>2, <3>1
    <3> QED BY <1>7, <3>2
  <2> QED BY <2>1, <2>2
<1> QED BY <1>2, <1>4, <1>5, <1>6, <1>7, <1>8 DEF Matches

LEMMA EntriesAre ==
  EntriesOfLines <=> (pf_end \in {"no", "returned"} => Matches(pf_file, pf_entries, pf_index))
BY DEF EntriesOfLines, Matches

LEMMA FileIsText ==
  ASSUME NEW file \in ProcFiles
  PROVE  file \in Seq(Nat)
<1>1. file \in Seq(Nat \ {NUL})
  BY ProcFileAssumption
<1> QED BY <1>1

LEMMA NoEndsAtStart ==
  ASSUME NEW file \in Seq(Nat), NEW k \in {0, 1}
  PROVE  EntryEnds(file, k) = {} /\ Matches(file, <<>>, k)
<1>1. DOMAIN file = 1 .. Len(file) /\ Len(file) \in Nat
  OBVIOUS
<1>2. EntryEnds(file, k) = {}
  BY <1>1 DEF EntryEnds, Newlines
<1>3. Cardinality({}) = 0
  BY FS_EmptySet
<1> QED BY <1>2, <1>3 DEF Matches

LEMMA ProcFileInitInv == ProcFileInit => ProcFileInv
<1> SUFFICES ASSUME NEW file \in ProcFiles, NEW granted \in 0 .. 3, ProcFileStart(file, granted)
             PROVE  ProcFileInv
  BY DEF ProcFileInit
<1>1. /\ pf_file = file /\ pf_index = 0 /\ pf_line_start = 1 /\ pf_delim = 0
      /\ pf_entries = <<>> /\ pf_end = "no"
  BY DEF ProcFileStart
<1>2. file \in Seq(Nat) /\ Len(file) \in Nat
  BY FileIsText
<1>3. Matches(pf_file, pf_entries, pf_index)
  BY <1>1, <1>2, NoEndsAtStart
<1>4. EntriesOfLines
  BY <1>3, EntriesAre
<1>5. FaultOnlyOnEmptyKey
  BY <1>1 DEF FaultOnlyOnEmptyKey
<1>6. pf_entries \in Seq([key : Seq(Nat), value : Seq(Nat)])
  BY <1>1
<1> QED BY <1>1, <1>2, <1>4, <1>5, <1>6 DEF ProcFileInv

LEMMA NothingRead ==
  ASSUME ProcFileInv, OpenFails \/ ReadFails
  PROVE  ProcFileInv'
<1>1. /\ pf_file' = pf_file /\ pf_index' = 0 /\ pf_index = 0 /\ pf_line_start' = pf_line_start
      /\ pf_delim' = pf_delim /\ pf_entries' = pf_entries /\ pf_end' \notin {"no", "returned"}
  BY DEF OpenFails, ReadFails
<1>2. EntriesOfLines'
  BY <1>1 DEF EntriesOfLines
<1>3. FaultOnlyOnEmptyKey'
  BY <1>1 DEF FaultOnlyOnEmptyKey
<1> QED BY <1>1, <1>2, <1>3 DEF ProcFileInv

LEMMA FileRead ==
  ASSUME ProcFileInv, ReadFile
  PROVE  ProcFileInv'
<1>1. /\ pf_file' = pf_file /\ pf_index' = 1 /\ pf_line_start' = 1 /\ pf_delim' = 0
      /\ pf_entries' = <<>> /\ pf_granted' = pf_granted /\ pf_file # <<>>
      /\ pf_end' = IF pf_granted < 2 THEN "fault" ELSE "no"
  BY DEF ReadFile, ProcFileInv
<1>2. pf_file \in ProcFiles /\ pf_file \in Seq(Nat)
  BY FileIsText DEF ProcFileInv
<1>3. Len(pf_file) \in Nat /\ Len(pf_file) # 0
  BY <1>1, <1>2
<1>4. EntryEnds(pf_file, 1) = {} /\ Matches(pf_file, <<>>, 1)
  BY <1>2, NoEndsAtStart
<1>5. EntriesOfLines'
  BY <1>1, <1>4 DEF EntriesOfLines, Matches
<1>6. FaultOnlyOnEmptyKey'
  BY <1>1, <1>4 DEF FaultOnlyOnEmptyKey
<1>7. LineInv'
  BY <1>1 DEF LineInv
<1>8. Len(pf_entries') <= ENTRIES /\ pf_entries' \in Seq([key : Seq(Nat), value : Seq(Nat)])
  BY <1>1, ProcFileAssumption
<1>9. \A e \in EntryEnds(pf_file, pf_index)' : LineTo(pf_file, e)'[1] # COLON
  BY <1>1, <1>4
<1> QED BY <1>1, <1>2, <1>3, <1>5, <1>6, <1>7, <1>8, <1>9 DEF ProcFileInv

(* What the scanner knows while it scans. *)
LEMMA ScanFacts ==
  ASSUME ProcFileInv, Scanning
  PROVE  /\ pf_file \in ProcFiles /\ pf_file \in Seq(Nat) /\ Len(pf_file) \in Nat
         /\ pf_index \in 1 .. Len(pf_file) /\ pf_end = "no"
         /\ LineInv /\ Len(pf_entries) <= ENTRIES
         /\ pf_entries \in Seq([key : Seq(Nat), value : Seq(Nat)])
         /\ \A e \in EntryEnds(pf_file, pf_index) : LineTo(pf_file, e)[1] # COLON
         /\ Matches(pf_file, pf_entries, pf_index)
         /\ LineTo(pf_file, pf_index) = SubSeq(pf_file, pf_line_start, pf_index - 1)
         /\ HasColon(LineTo(pf_file, pf_index)) <=> pf_delim # 0
<1>1. pf_file \in ProcFiles /\ pf_file \in Seq(Nat) /\ Len(pf_file) \in Nat
  BY FileIsText DEF ProcFileInv
<1>2. pf_index \in 1 .. Len(pf_file) /\ pf_end = "no"
  BY <1>1 DEF Scanning
<1>3. /\ LineInv /\ Len(pf_entries) <= ENTRIES
      /\ pf_entries \in Seq([key : Seq(Nat), value : Seq(Nat)])
      /\ \A e \in EntryEnds(pf_file, pf_index) : LineTo(pf_file, e)[1] # COLON
  BY <1>2 DEF ProcFileInv
<1>4. Matches(pf_file, pf_entries, pf_index)
  BY <1>2, EntriesAre DEF ProcFileInv
<1>5. PICK f, e, ls : f = pf_file /\ e = pf_index /\ ls = pf_line_start
  OBVIOUS
<1>6. /\ f \in Seq(Nat) /\ e \in 1 .. Len(f) /\ ls \in 1 .. e
      /\ ls = 1 \/ f[ls - 1] = NEWLINE
      /\ \A i \in ls .. e - 1 : f[i] # NEWLINE
  BY <1>1, <1>2, <1>3, <1>5 DEF LineInv
<1>7. LineTo(f, e) = SubSeq(f, ls, e - 1)
  BY <1>6, LineToIs
<1>8. HasColon(SubSeq(f, ls, e - 1)) <=> \E i \in ls .. e - 1 : f[i] = COLON
  BY <1>6, HasColonIs
<1>9. (\E i \in ls .. e - 1 : f[i] = COLON) <=> pf_delim # 0
  BY <1>3, <1>5 DEF LineInv
<1> QED BY <1>1, <1>2, <1>3, <1>4, <1>5, <1>7, <1>8, <1>9

(* A step to the next character that ends no entry. *)
LEMMA PlainStep ==
  ASSUME ProcFileInv, Scanning, LineInv',
         pf_file' = pf_file, pf_granted' = pf_granted, pf_index' = pf_index + 1,
         pf_entries' = pf_entries, pf_end' = pf_end,
         Here # NEWLINE \/ pf_delim = 0
  PROVE  ProcFileInv'
<1>1. PICK f, k : f = pf_file /\ k = pf_index
  OBVIOUS
<1>2. /\ f \in ProcFiles /\ f \in Seq(Nat) /\ Len(f) \in Nat /\ k \in 1 .. Len(f)
      /\ ~(f[k] = NEWLINE /\ HasColon(LineTo(f, k)))
  BY <1>1, ScanFacts DEF Here
<1>3. EntryEnds(f, k + 1) = EntryEnds(f, k)
  BY <1>2, EntryEndsFacts
<1>4. pf_file' = f /\ pf_index' = k + 1 /\ pf_end' = "no" /\ k + 1 > 0 /\ k > 0
  BY <1>1, <1>2, ScanFacts
<1>5. Matches(f, pf_entries, k + 1)
  BY <1>1, <1>3, ScanFacts DEF Matches
<1>6. EntriesOfLines'
  BY <1>4, <1>5 DEF EntriesOfLines, Matches
<1>7. \A e \in EntryEnds(f, k + 1) : LineTo(f, e)[1] # COLON
  BY <1>1, <1>3, ScanFacts
<1>8. FaultOnlyOnEmptyKey'
  BY <1>4, <1>7 DEF FaultOnlyOnEmptyKey
<1>9. pf_index' \in 0 .. Len(pf_file') + 1
  BY <1>2, <1>4
<1>10. /\ Len(pf_entries') <= ENTRIES /\ pf_file' \in ProcFiles
       /\ pf_entries' \in Seq([key : Seq(Nat), value : Seq(Nat)])
  BY <1>1, <1>2, <1>4, ScanFacts
<1>11. ~(pf_index' = 0)
  BY <1>2, <1>4
<1> QED BY <1>4, <1>6, <1>7, <1>8, <1>9, <1>10, <1>11 DEF ProcFileInv

LEMMA ColonStep ==
  ASSUME ProcFileInv, ScanColon \/ ScanOther
  PROVE  ProcFileInv'
<1>1. /\ Scanning /\ pf_file' = pf_file /\ pf_granted' = pf_granted /\ pf_index' = pf_index + 1
      /\ pf_entries' = pf_entries /\ pf_end' = pf_end /\ pf_line_start' = pf_line_start
      /\ pf_file[pf_index] # NEWLINE
      /\ \/ pf_file[pf_index] = COLON /\ pf_delim = 0 /\ pf_delim' = pf_index
         \/ (pf_file[pf_index] = COLON => pf_delim # 0) /\ pf_delim' = pf_delim
  BY DEF ScanColon, ScanOther, Here, COLON, NEWLINE
<1>2. LineInv /\ pf_index \in 1 .. Len(pf_file) /\ Len(pf_file) \in Nat
  BY <1>1, ScanFacts
<1>3. LineInv'
  <2>1. PICK k, ls : k = pf_index /\ ls = pf_line_start
    OBVIOUS
  <2>2. k \in Nat \ {0} /\ ls \in 1 .. k
    BY <1>2, <2>1 DEF LineInv
  <2>3. \A i \in ls .. (k + 1) - 1 : i \in ls .. k - 1 \/ i = k
    BY <2>2
  <2>4. ls \in 1 .. k + 1 /\ k \in ls .. (k + 1) - 1 /\ ls .. k - 1 \subseteq ls .. (k + 1) - 1
    BY <2>2
  <2>5. pf_index' = k + 1 /\ pf_line_start' = ls
    BY <1>1, <2>1
  <2>6. CASE pf_file[pf_index] = COLON /\ pf_delim = 0 /\ pf_delim' = pf_index
    BY <1>1, <1>2, <2>1, <2>2, <2>3, <2>4, <2>5, <2>6 DEF LineInv
  <2>7. CASE (pf_file[pf_index] = COLON => pf_delim # 0) /\ pf_delim' = pf_delim
    BY <1>1, <1>2, <2>1, <2>2, <2>3, <2>4, <2>5, <2>7 DEF LineInv
  <2> QED BY <1>1, <2>6, <2>7
<1> QED BY <1>1, <1>3, PlainStep DEF Here

LEMMA NewlineStep ==
  ASSUME ProcFileInv, ScanNewline
  PROVE  ProcFileInv'
<1> DEFINE Entry == [key : Seq(Nat), value : Seq(Nat)]
<1>1. /\ Scanning /\ Here = NEWLINE /\ pf_file' = pf_file /\ pf_granted' = pf_granted
      /\ pf_line_start' = pf_index + 1 /\ pf_delim' = 0 /\ pf_index' = pf_index + 1
  BY DEF ScanNewline
<1>2. PICK f, k, ls, d : f = pf_file /\ k = pf_index /\ ls = pf_line_start /\ d = pf_delim
  OBVIOUS
<1>3. /\ f \in ProcFiles /\ f \in Seq(Nat) /\ Len(f) \in Nat /\ k \in 1 .. Len(f)
      /\ LineInv /\ f[k] = NEWLINE
  BY <1>1, <1>2, ScanFacts DEF Here
<1>4. LineInv'
  <2>1. /\ pf_line_start' = k + 1 /\ pf_index' = k + 1 /\ pf_delim' = 0 /\ pf_file' = f
        /\ (k + 1) - 1 = k /\ k + 1 \in 1 .. k + 1 /\ (k + 1) .. ((k + 1) - 1) = {}
    BY <1>1, <1>2, <1>3
  <2> QED BY <1>3, <2>1 DEF LineInv
<1>5. CASE pf_delim = 0
  <2>1. pf_entries' = pf_entries /\ pf_end' = pf_end
    BY <1>5 DEF ScanNewline
  <2> QED BY <1>1, <1>4, <1>5, <2>1, PlainStep
<1>6. CASE pf_delim # 0
  <2>1. /\ pf_end' = EndEntry
        /\ pf_entries' = IF EndEntry = "no"
                         THEN Append(pf_entries, [key |-> KeyOf, value |-> ValueOf])
                         ELSE pf_entries
    BY <1>6 DEF ScanNewline
  <2>2. /\ ls \in 1 .. k /\ d \in ls .. k - 1 /\ f[d] = COLON
        /\ \A i \in ls .. d - 1 : f[i] # COLON
    BY <1>2, <1>3, <1>6 DEF LineInv
  <2>3. HasColon(LineTo(f, k)) /\ LineTo(f, k) = SubSeq(f, ls, k - 1)
    BY <1>1, <1>2, <1>6, ScanFacts
  <2>4. PICK x : x = [key |-> KeyOf, value |-> ValueOf]
    OBVIOUS
  <2>5. x = EntryFor(LineTo(f, k)) /\ x \in Entry
    <3>1. PICK vs : vs = d + FirstNotIn(SubSeq(f, d + 1, k - 1), {SPACE, TAB})
      OBVIOUS
    <3>2. /\ EntryFor(SubSeq(f, ls, k - 1)) =
               [key |-> SubSeq(f, ls, ls + Clip(d - ls) - 2),
                value |-> SubSeq(f, vs, vs + Clip(k - vs) - 1)]
          /\ SubSeq(f, ls, ls + Clip(d - ls) - 2) \in Seq(Nat)
          /\ SubSeq(f, vs, vs + Clip(k - vs) - 1) \in Seq(Nat)
      BY <1>3, <2>2, <3>1, EntryForIs
    <3>3. /\ KeyOf = SubSeq(f, ls, ls + Clip(d - ls) - 2)
          /\ ValueOf = SubSeq(f, vs, vs + Clip(k - vs) - 1)
      BY <1>2, <3>1 DEF KeyOf, ValueOf, ValStart
    <3> QED BY <2>3, <2>4, <3>2, <3>3
  <2>6. PICK E : E = EntryEnds(f, k)
    OBVIOUS
  <2>7. /\ EntryEnds(f, k + 1) = E \cup {k} /\ IsFiniteSet(E) /\ E \subseteq 1 .. k - 1
        /\ Cardinality(E) \in Nat
    BY <1>3, <2>3, <2>6, EntryEndsFacts
  <2>8. Cardinality(E \cup {k}) = Cardinality(E) + 1
    <3>1. k \in Nat
      BY <1>3
    <3> QED BY <2>7, <3>1, RankFacts
  <2>9. LineTo(f, k)[1] = f[ls]
    <3>1. 1 \in 1 .. k - ls /\ ls + 1 - 1 = ls
      BY <1>3, <2>2
    <3>2. SubSeq(f, ls, k - 1)[1] = f[ls + 1 - 1]
      BY <1>3, <2>2, <3>1, LineFacts
    <3> QED BY <2>3, <3>1, <3>2
  <2>10. f[ls] = COLON <=> d = ls
    <3>1. d # ls => ls \in ls .. d - 1
      BY <2>2
    <3> QED BY <2>2, <3>1
  <2>11. \A e \in E : LineTo(f, e)[1] # COLON
    BY <1>1, <1>2, <2>6, ScanFacts
  <2>12. /\ Matches(f, pf_entries, k) /\ Len(pf_entries) <= ENTRIES
         /\ pf_entries \in Seq(Entry) /\ Len(pf_entries) \in Nat
    BY <1>1, <1>2, ScanFacts
  <2>13. Len(pf_entries) = Cardinality(E)
    BY <2>6, <2>12 DEF Matches
  <2>14. pf_file' = f /\ pf_index' = k + 1 /\ k + 1 > 0 /\ k + 1 # 0 /\ k + 1 \in 0 .. Len(f) + 1
    BY <1>1, <1>2, <1>3
  <2>15. EntryEnds(pf_file, pf_index)' = E \cup {k}
    BY <2>7, <2>14
  <2>16. CASE EndEntry = "no"
    <3>1. pf_end' = "no" /\ pf_entries' = Append(pf_entries, x)
      BY <2>1, <2>4, <2>16
    <3>2. d # ls /\ ~(Len(pf_entries) >= ENTRIES)
      BY <1>2, <2>16 DEF EndEntry
    <3>3. Matches(f, Append(pf_entries, x), k + 1)
      BY <1>3, <2>3, <2>5, <2>12, MatchesAppend
    <3>4. EntriesOfLines'
      BY <2>14, <3>1, <3>3 DEF EntriesOfLines, Matches
    <3>5. \A e \in E \cup {k} : LineTo(f, e)[1] # COLON
      BY <2>9, <2>10, <2>11, <3>2
    <3>6. FaultOnlyOnEmptyKey'
      BY <2>14, <2>15, <3>1, <3>5 DEF FaultOnlyOnEmptyKey
    <3>7. Append(pf_entries, x) \in Seq(Entry) /\ Len(Append(pf_entries, x)) = Len(pf_entries) + 1
      BY <2>5, <2>12, AppendProperties
    <3>8. Len(pf_entries') <= ENTRIES /\ pf_entries' \in Seq(Entry)
      BY <2>12, <3>1, <3>2, <3>7, ProcFileAssumption
    <3> QED BY <1>3, <1>4, <2>14, <2>15, <3>4, <3>5, <3>6, <3>8 DEF ProcFileInv
  <2>17. CASE EndEntry # "no"
    <3>1. pf_entries' = pf_entries /\ pf_end' = EndEntry /\ pf_end' \in {"fault", "overrun"}
      BY <2>1, <2>17 DEF EndEntry
    <3>2. EntriesOfLines'
      BY <3>1 DEF EntriesOfLines
    <3>3. ASSUME pf_granted = 3
          PROVE  /\ EndEntry = "fault" <=> d = ls
                 /\ EndEntry = "overrun" => Len(pf_entries) >= ENTRIES
      BY <1>2, <3>3 DEF EndEntry
    <3>4. FaultOnlyOnEmptyKey'
      <4>1. (\E e \in E \cup {k} : LineTo(f, e)[1] = COLON) <=> d = ls
        BY <2>9, <2>10, <2>11
      <4>2. Len(pf_entries) >= ENTRIES => Cardinality(E \cup {k}) = ENTRIES + 1
        BY <2>8, <2>12, <2>13, ProcFileAssumption
      <4> QED BY <1>1, <2>14, <2>15, <3>1, <3>3, <4>1, <4>2 DEF FaultOnlyOnEmptyKey
    <3> QED BY <1>3, <2>12, <2>14, <3>1, <3>2, <3>4 DEF ProcFileInv
  <2> QED BY <2>16, <2>17
<1> QED BY <1>5, <1>6

LEMMA EndStep ==
  ASSUME ProcFileInv, ScanEnd
  PROVE  ProcFileInv'
<1>1. /\ pf_file' = pf_file /\ pf_granted' = pf_granted /\ pf_index' = pf_index
      /\ pf_line_start' = pf_line_start /\ pf_delim' = pf_delim /\ pf_entries' = pf_entries
      /\ pf_end = "no" /\ pf_end' = "returned" /\ pf_index > 0
  BY DEF ScanEnd
<1>2. EntriesOfLines'
  BY <1>1 DEF EntriesOfLines, ProcFileInv
<1>3. FaultOnlyOnEmptyKey'
  BY <1>1 DEF FaultOnlyOnEmptyKey, ProcFileInv
<1>4. LineInv'
  BY <1>1 DEF LineInv, ProcFileInv
<1> QED BY <1>1, <1>2, <1>3, <1>4 DEF ProcFileInv

LEMMA ProcFileStepInv ==
  ASSUME ProcFileInv, [ProcFileNext]_pfVars
  PROVE  ProcFileInv'
<1>1. CASE UNCHANGED pfVars
  <2>1. /\ pf_file' = pf_file /\ pf_granted' = pf_granted /\ pf_index' = pf_index
        /\ pf_line_start' = pf_line_start /\ pf_delim' = pf_delim
        /\ pf_entries' = pf_entries /\ pf_end' = pf_end
    BY <1>1 DEF pfVars
  <2>2. EntriesOfLines' /\ FaultOnlyOnEmptyKey'
    BY <2>1 DEF EntriesOfLines, FaultOnlyOnEmptyKey, ProcFileInv
  <2> QED BY <2>1, <2>2 DEF LineInv, ProcFileInv
<1> QED BY <1>1, NothingRead, FileRead, ColonStep, NewlineStep, EndStep DEF ProcFileNext

(* The invariant of parse_proc_files: what line_start and delim say of the   *)
(* line so far, and what the entries say of the lines before it.             *)
THEOREM ProcFileInvariance == ProcFileSpec => []ProcFileInv
  BY ProcFileInitInv, ProcFileStepInv, PTL DEF ProcFileSpec

(* The length of a part that is cut out. *)
LEMMA PartLength ==
  ASSUME NEW s, NEW m \in Int, NEW n \in Int
  PROVE  Len(SubSeq(s, m, n)) = IF m <= n THEN n - m + 1 ELSE 0
<1> DEFINE S == {s[i] : i \in m .. n}
<1>1. \A i \in m .. n : s[i] \in S
  OBVIOUS
<1> HIDE DEF S
<1> QED BY <1>1, SubSeqProperties

(* Every copy is shorter than its field. *)
LEMMA CopiesFit ==
  ASSUME pf_line_start \in Int, pf_delim \in Int, pf_index \in Int
  PROVE  Len(KeyOf) < KEY /\ Len(ValueOf) < KEY
<1>1. KEY \in Nat \ {0}
  BY ProcFileAssumption
<1>2. ASSUME NEW n \in Int PROVE Clip(n) \in Int /\ Clip(n) <= KEY - 1
  BY <1>1 DEF Clip
<1>3. Len(KeyOf) < KEY
  <2>1. PICK a, c : a = pf_line_start /\ c = Clip(pf_delim - pf_line_start)
    OBVIOUS
  <2>2. a \in Int /\ c \in Int /\ c <= KEY - 1
    BY <1>2, <2>1
  <2>3. KeyOf = SubSeq(pf_file, a, a + c - 2)
    BY <2>1 DEF KeyOf
  <2>4. Len(KeyOf) = IF a <= a + c - 2 THEN (a + c - 2) - a + 1 ELSE 0
    BY <2>2, <2>3, PartLength
  <2> QED BY <1>1, <2>2, <2>4
<1>4. Len(ValueOf) < KEY
  <2>1. PICK rest : rest = SubSeq(pf_file, pf_delim + 1, pf_index - 1)
    OBVIOUS
  <2>2. Len(rest) = IF pf_delim + 1 <= pf_index - 1 THEN (pf_index - 1) - (pf_delim + 1) + 1 ELSE 0
    BY <2>1, PartLength
  <2>3. Len(rest) \in Nat
    BY <2>2
  <2>4. FirstNotIn(rest, {SPACE, TAB}) \in 1 .. Len(rest) + 1
    BY <2>3, FirstNotInFacts
  <2>5. PICK a, c : a = ValStart /\ c = Clip(pf_index - ValStart)
    OBVIOUS
  <2>6. a \in Int
    BY <2>1, <2>3, <2>4, <2>5 DEF ValStart
  <2>7. c \in Int /\ c <= KEY - 1
    BY <1>2, <2>5, <2>6
  <2>8. ValueOf = SubSeq(pf_file, a, a + c - 1)
    BY <2>5 DEF ValueOf
  <2>9. Len(ValueOf) = IF a <= a + c - 1 THEN (a + c - 1) - a + 1 ELSE 0
    BY <2>6, <2>7, <2>8, PartLength
  <2> QED BY <1>1, <2>6, <2>7, <2>9
<1> QED BY <1>3, <1>4

LEMMA ProcFileStartTypes ==
  ASSUME NEW file, Len(file) \in Nat, NEW granted, ProcFileStart(file, granted)
  PROVE  ProcFileTypeOK
<1>1. /\ pf_file = file /\ pf_index = 0 /\ pf_line_start = 1 /\ pf_delim = 0
      /\ pf_entries = <<>> /\ pf_end = "no"
  BY DEF ProcFileStart
<1>2. Len(pf_entries) = 0 /\ DOMAIN pf_entries = {}
  BY <1>1
<1> QED BY <1>1, <1>2 DEF ProcFileTypeOK

LEMMA ProcFileStepTypes ==
  ASSUME ProcFileInv, ProcFileTypeOK, [ProcFileNext]_pfVars
  PROVE  ProcFileTypeOK'
<1>1. /\ Len(pf_file) \in Nat /\ DOMAIN pf_file = 1 .. Len(pf_file)
  <2>1. pf_file \in Seq(Nat \ {NUL})
    BY ProcFileAssumption DEF ProcFileInv
  <2> QED BY <2>1
<1>2. /\ pf_index \in Nat /\ pf_index <= Len(pf_file) + 1
      /\ pf_line_start \in Nat /\ pf_line_start <= Len(pf_file) + 1 /\ pf_line_start >= 1
  BY <1>1 DEF ProcFileTypeOK
<1>3. ASSUME pf_file' = pf_file, pf_entries' = pf_entries,
             pf_index' \in 0 .. Len(pf_file) + 1, pf_line_start' = pf_line_start,
             pf_delim' = 0 \/ pf_delim' \in pf_line_start .. pf_index' - 1,
             pf_end' \in {"no", "null", "returned", "fault", "overrun"}
      PROVE  ProcFileTypeOK'
  BY <1>3 DEF ProcFileTypeOK
<1>4. pf_delim = 0 \/ pf_delim \in pf_line_start .. pf_index - 1
  BY DEF ProcFileTypeOK
<1>5. CASE OpenFails \/ ReadFails \/ ScanEnd \/ UNCHANGED pfVars
  <2>1. /\ pf_file' = pf_file /\ pf_entries' = pf_entries /\ pf_index' = pf_index
        /\ pf_line_start' = pf_line_start /\ pf_delim' = pf_delim
        /\ pf_end' \in {"no", "null", "returned", "fault", "overrun"}
    BY <1>5 DEF OpenFails, ReadFails, ScanEnd, pfVars, ProcFileTypeOK
  <2>2. pf_index \in 0 .. Len(pf_file) + 1
    BY DEF ProcFileTypeOK
  <2> QED BY <1>3, <1>4, <2>1, <2>2
<1>6. CASE ReadFile
  <2>1. /\ pf_file' = pf_file /\ pf_entries' = pf_entries /\ pf_index' = 1 /\ pf_index = 0
        /\ pf_line_start' = pf_line_start /\ pf_delim' = pf_delim /\ pf_end' \in {"no", "fault"}
    BY <1>6 DEF ReadFile
  <2>2. pf_delim = 0
    BY <2>1 DEF ProcFileInv
  <2>3. pf_index' \in 0 .. Len(pf_file) + 1
    BY <1>1, <2>1
  <2> QED BY <1>3, <2>1, <2>2, <2>3
<1>7. ASSUME Scanning
      PROVE  /\ pf_index \in 1 .. Len(pf_file) /\ pf_line_start <= pf_index /\ pf_end = "no"
             /\ pf_index + 1 \in 0 .. Len(pf_file) + 1 /\ pf_index + 1 \in 1 .. Len(pf_file) + 1
  <2>1. pf_index \in 1 .. Len(pf_file) /\ pf_end = "no" /\ pf_index > 0
    BY <1>1, <1>7 DEF Scanning
  <2>2. pf_line_start \in 1 .. pf_index
    BY <2>1 DEF ProcFileInv, LineInv
  <2> QED BY <1>1, <2>1, <2>2
<1>8. CASE ScanColon
  <2>1. /\ pf_file' = pf_file /\ pf_entries' = pf_entries /\ pf_index' = pf_index + 1
        /\ pf_line_start' = pf_line_start /\ pf_delim' = pf_index /\ pf_end' = pf_end /\ Scanning
    BY <1>8 DEF ScanColon
  <2>2. pf_delim' \in pf_line_start .. pf_index' - 1
    BY <1>2, <1>7, <2>1
  <2> QED BY <1>3, <1>7, <2>1, <2>2
<1>9. CASE ScanOther
  <2>1. /\ pf_file' = pf_file /\ pf_entries' = pf_entries /\ pf_index' = pf_index + 1
        /\ pf_line_start' = pf_line_start /\ pf_delim' = pf_delim /\ pf_end' = pf_end /\ Scanning
    BY <1>9 DEF ScanOther
  <2>2. pf_delim' = 0 \/ pf_delim' \in pf_line_start .. pf_index' - 1
    BY <1>2, <1>4, <2>1
  <2> QED BY <1>3, <1>7, <2>1, <2>2
<1>10. CASE ScanNewline
  <2>1. /\ pf_file' = pf_file /\ pf_index' = pf_index + 1
        /\ pf_line_start' = pf_index + 1 /\ pf_delim' = 0 /\ Scanning
    BY <1>10 DEF ScanNewline
  <2>2. pf_end' \in {"no", "null", "returned", "fault", "overrun"}
    BY <1>10 DEF ScanNewline, EndEntry, ProcFileTypeOK
  <2>3. \A i \in DOMAIN pf_entries' :
             Len(pf_entries'[i].key) < KEY /\ Len(pf_entries'[i].value) < KEY
    <3>1. CASE pf_entries' = pf_entries
      BY <3>1 DEF ProcFileTypeOK
    <3>2. CASE pf_entries' # pf_entries
      <4>1. /\ pf_delim # 0 /\ EndEntry = "no"
            /\ pf_entries' = Append(pf_entries, [key |-> KeyOf, value |-> ValueOf])
        BY <1>10, <3>2 DEF ScanNewline
      <4>2. PICK old, x, new : /\ old = pf_entries /\ x = [key |-> KeyOf, value |-> ValueOf]
                               /\ new = Append(old, x)
        OBVIOUS
      <4>3. Len(x.key) < KEY /\ Len(x.value) < KEY
        <5>1. pf_delim \in Int
          BY <1>2, <1>4, <4>1
        <5> QED BY <1>2, <4>2, <5>1, CopiesFit
      <4>4. old \in Seq([key : Seq(Nat), value : Seq(Nat)])
        BY <4>2 DEF ProcFileInv
      <4>5. /\ Len(old) \in Nat /\ Len(new) = Len(old) + 1 /\ DOMAIN new = 1 .. Len(old) + 1
            /\ new[Len(old) + 1] = x /\ \A i \in 1 .. Len(old) : new[i] = old[i]
        <5>1. PICK T : T = Seq(Nat)
          OBVIOUS
        <5>2. old \in Seq([key : T, value : T])
          BY <4>4, <5>1
        <5> QED BY <4>2, <5>2
      <4>6. \A i \in 1 .. Len(old) : Len(old[i].key) < KEY /\ Len(old[i].value) < KEY
        BY <4>2, <4>4 DEF ProcFileTypeOK
      <4>7. ASSUME NEW i \in 1 .. Len(old) + 1
            PROVE  Len(new[i].key) < KEY /\ Len(new[i].value) < KEY
        <5>1. i = Len(old) + 1 \/ i \in 1 .. Len(old)
          BY <4>5
        <5> QED BY <4>3, <4>5, <4>6, <5>1
      <4> QED BY <4>1, <4>2, <4>5, <4>7
    <3> QED BY <3>1, <3>2
  <2> QED BY <1>7, <2>1, <2>2, <2>3 DEF ProcFileTypeOK
<1> QED BY <1>5, <1>6, <1>8, <1>9, <1>10 DEF ProcFileNext

(* The scanner stays inside the file, a delimiter inside its line, and no   *)
(* text it keeps is as long as its field, for every file.                   *)
THEOREM ProcFileTypes == ProcFileSpec => []ProcFileTypeOK
<1>1. ProcFileInit => ProcFileTypeOK
  <2> SUFFICES ASSUME NEW file \in ProcFiles, NEW granted \in 0 .. 3, ProcFileStart(file, granted)
               PROVE  ProcFileTypeOK
    BY DEF ProcFileInit
  <2>1. Len(file) \in Nat
    BY FileIsText
  <2> QED BY <2>1, ProcFileStartTypes
<1>2. ProcFileInv /\ ProcFileTypeOK /\ [ProcFileNext]_pfVars => ProcFileTypeOK'
  BY ProcFileStepTypes
<1> QED BY <1>1, <1>2, ProcFileInvariance, PTL DEF ProcFileSpec

(* parse_proc_files returns, for every file, the entries that splitting it   *)
(* into lines gives: as many, in the same order, with the same texts.        *)
THEOREM EntriesExact == ProcFileSpec => []EntriesOfLines
<1>1. ProcFileInv => EntriesOfLines
  BY DEF ProcFileInv
<1> QED BY <1>1, ProcFileInvariance, PTL

(* The length of the copy in parse_proc_files wraps around on a line that    *)
(* starts with a colon and on no other, in every file, and the array is      *)
(* overrun by the first entry too many.                                      *)
THEOREM FaultsExact == ProcFileSpec => []FaultOnlyOnEmptyKey
<1>1. ProcFileInv => FaultOnlyOnEmptyKey
  BY DEF ProcFileInv
<1> QED BY <1>1, ProcFileInvariance, PTL

===============================================================================
