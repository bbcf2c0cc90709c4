----------------------------- MODULE TextsProofs -----------------------------
(***************************************************************************)
(* Proofs about what becomes of texts.  Of Texts, for all texts and all     *)
(* sizes of the buffers: the properties follow from what the two           *)
(* conversions promise (ToWide, ToUtf8), and the invariant is inductive as *)
(* it stands.  Of FromChars, for all texts: the parser of ascii_number.h   *)
(* takes what the grammar of FloatReference takes.  And of the arithmetic  *)
(* below it, for all sizes of words and vectors: it is exact.              *)
(***************************************************************************)
EXTENDS Texts, FromChars, FiniteSetTheorems, FunctionTheorems, WellFoundedInduction, TLAPS

(* A text has its lengths in units and bytes; a cut one is none. *)
LEMMA TextLengths ==
    ASSUME NEW t \in Text
    PROVE  t \in [units : Nat, bytes : Nat] /\ t.units <= t.bytes /\ t # Cut
BY TextAssumption DEF Cut

(* What Utf8ToWideChar gives: the text where it fits, none where it does   *)
(* not, and never more than the buffer holds.                              *)
LEMMA ToWide ==
    ASSUME NEW t \in Text, NEW size \in Nat
    PROVE  /\ Utf8ToWideChar(size, t).text = IF t.units < size THEN t ELSE Empty
           /\ Utf8ToWideChar(size, t).text \in Text
           /\ ~(Utf8ToWideChar(size, t).cells > size)
BY TextLengths, TextAssumption DEF Utf8ToWideChar, Empty

(* What WideCharToUtf8 gives: the text and its length where it fits, a cut *)
(* text and 0 where it does not, and never more than the buffer holds.     *)
LEMMA ToUtf8 ==
    ASSUME NEW t \in Text, NEW size \in Nat \ {0}
    PROVE  LET utf8 == WideCharToUtf8(size, t)
           IN  /\ utf8.ret \in Nat
               /\ utf8.text \in Text \union {Cut}
               /\ ~(utf8.cells > size)
               /\ t.bytes < size => utf8.text = t /\ utf8.ret = t.bytes
               /\ t.bytes >= size /\ size > 1 => utf8.text = Cut /\ utf8.ret = 0
               /\ t.bytes >= size /\ size = 1 => utf8.text = Empty /\ utf8.ret = t.bytes
BY TextLengths, TextAssumption DEF WideCharToUtf8, Empty

-------------------------------------------------------------------------------
Inv == TypeOK /\ FieldWholeOrEmpty /\ RecordedAsSent /\ ReadWholeOrNothing

LEMMA InitInv == Init => Inv
<1> SUFFICES ASSUME Init
             PROVE  Inv
    OBVIOUS
<1>1. Empty \in Text /\ Empty.bytes = 0
    BY TextAssumption DEF Empty
<1>2. asked = [name |-> Empty, param |-> Empty] /\ asked \in Pair /\ item = asked
    BY <1>1 DEF Init, Pair
<1>3. got = [by |-> "rust", of |-> Empty, size |-> 2, ret |-> 0, text |-> Empty]
    BY DEF Init
<1>4. got \in Read
    BY <1>1, <1>3 DEF Read
<1>5. ReadWholeOrNothing
    BY <1>1, <1>3 DEF ReadWholeOrNothing
<1>6. TypeOK
    BY <1>1, <1>2, <1>4 DEF Init, TypeOK
<1>7. FieldWholeOrEmpty /\ RecordedAsSent
    BY <1>1, <1>2 DEF Init, FieldWholeOrEmpty, RecordedAsSent
<1>. QED
    BY <1>5, <1>6, <1>7 DEF Inv

(* A setter leaves the text, or none. *)
LEMMA SettersInv ==
    Inv /\ ((\E t \in Text : SetData(t)) \/ SetDataRead) => Inv'
<1> SUFFICES ASSUME Inv, (\E t \in Text : SetData(t)) \/ SetDataRead
             PROVE  Inv'
    OBVIOUS
<1>1. ASSUME NEW t \in Text, SetData(t)
      PROVE  Inv'
    BY <1>1, ToWide, TextAssumption
    DEF SetData, Inv, TypeOK, FieldWholeOrEmpty, RecordedAsSent, ReadWholeOrNothing
<1>2. ASSUME SetDataRead
      PROVE  Inv'
    <2>1. got.of \in Text /\ got.text \in Text /\ got.text \in {got.of, Empty}
        BY <1>2, TextAssumption DEF SetDataRead, Inv, TypeOK, Read, ReadWholeOrNothing
    <2>2. /\ Utf8ToWideChar(DataSize, got.text).text \in Text
          /\ Utf8ToWideChar(DataSize, got.text).text \in {got.text, Empty}
        BY <2>1, ToWide, TextAssumption
    <2>. QED
        BY <1>2, <2>1, <2>2, TextAssumption
        DEF SetDataRead, Inv, TypeOK, FieldWholeOrEmpty, RecordedAsSent, ReadWholeOrNothing
<1>. QED
    BY <1>1, <1>2

(* What SetItem can record is short enough for the name to be converted. *)
LEMMA RequestInv ==
    ASSUME NEW n \in Text, NEW p \in Text
    PROVE  Inv /\ RequestData(n, p) => Inv'
<1> SUFFICES ASSUME Inv, RequestData(n, p)
             PROVE  Inv'
    OBVIOUS
<1>1. [name |-> n, param |-> p] \in Pair
    BY DEF Pair
<1>2. /\ Utf8ToWideChar(NameSize, n).text \in Text
      /\ n.bytes < NameSize => Utf8ToWideChar(NameSize, n).text = n
    BY ToWide, TextLengths, TextAssumption
<1>3. ~aborted' => n.bytes < NameSize /\ item' = [name |-> n, param |-> p]
    BY TextLengths, TextAssumption DEF RequestData
<1>4. TypeOK'
    BY <1>1, <1>2 DEF RequestData, Inv, TypeOK
<1>5. RecordedAsSent'
    BY <1>2, <1>3 DEF RequestData, RecordedAsSent
<1>6. FieldWholeOrEmpty' /\ ReadWholeOrNothing'
    BY DEF RequestData, Inv, FieldWholeOrEmpty, ReadWholeOrNothing
<1>. QED
    BY <1>4, <1>5, <1>6 DEF Inv

(* What each kind of getter reads. *)
LEMMA GettersInv ==
    Inv /\ (\/ \E size \in BuffSize : GetData(size)
            \/ \E size \in RustSize : GetDataRust(size)
            \/ OnReceiveError) => Inv'
<1> SUFFICES ASSUME Inv,
                    \/ \E size \in BuffSize : GetData(size)
                    \/ \E size \in RustSize : GetDataRust(size)
                    \/ OnReceiveError
             PROVE  Inv'
    OBVIOUS
<1>1. answer \in Text /\ Empty \in Text
    BY TextAssumption DEF Inv, TypeOK
<1>2. ASSUME NEW size \in BuffSize, GetData(size)
      PROVE  TypeOK' /\ ReadWholeOrNothing'
    <2>1. size \in Nat \ {0}
        BY TextAssumption
    <2>. QED
        BY <1>1, <1>2, <2>1, ToUtf8, TextLengths
        DEF GetData, Inv, TypeOK, Read, ReadWholeOrNothing
<1>3. ASSUME NEW size \in RustSize, GetDataRust(size)
      PROVE  TypeOK' /\ ReadWholeOrNothing'
    <2>1. size \in Nat \ {0} /\ size > 1
        BY TextAssumption
    <2>2. (answer.bytes = 0) => (answer = Empty)
        BY <1>1, TextAssumption DEF Empty
    <2>3. got'.by = "rust" /\ got'.of = answer /\ got'.size = size
        BY <1>3 DEF GetDataRust
    <2>4. got'.text = IF answer.bytes < size THEN answer ELSE Empty
        BY <1>1, <1>3, <2>1, <2>2, ToUtf8, TextLengths DEF GetDataRust
    <2>5. got' \in Read
        BY <1>1, <1>3, <2>1, <2>4, ToUtf8 DEF GetDataRust, Read
    <2>. QED
        BY <1>3, <2>3, <2>4, <2>5
        DEF GetDataRust, Inv, TypeOK, ReadWholeOrNothing
<1>4. ASSUME OnReceiveError
      PROVE  TypeOK' /\ ReadWholeOrNothing'
    <2>1. ErrorSize \in Nat \ {0}
        BY TextAssumption
    <2>. QED
        BY <1>1, <1>4, <2>1, ToUtf8, TextLengths
        DEF OnReceiveError, Inv, TypeOK, Read, ReadWholeOrNothing
<1>5. FieldWholeOrEmpty' /\ RecordedAsSent'
    BY DEF GetData, GetDataRust, OnReceiveError, Inv, FieldWholeOrEmpty, RecordedAsSent
<1>. QED
    BY <1>2, <1>3, <1>4, <1>5 DEF Inv

(* What is asked about, and what is read of the answer. *)
LEMMA AskInv ==
    ASSUME NEW t \in Text, NEW a \in Text, NEW ask \in AskSize, NEW size \in RustSize
    PROVE  Inv /\ AskControl(t, a, ask, size) => Inv'
<1> SUFFICES ASSUME Inv, AskControl(t, a, ask, size)
             PROVE  Inv'
    OBVIOUS
<1>1. size \in Nat \ {0} /\ size > 1 /\ ask \in Nat /\ Empty \in Text
    BY TextAssumption
<1>2. field' \in Text /\ field' \in {t, Empty} /\ put' = t /\ answer' = a
    BY <1>1, ToWide DEF AskControl
<1>3. got'.by = "rust" /\ got'.of = a /\ got'.size = size
    BY DEF AskControl
<1>4. (a.bytes = 0) => (a = Empty)
    BY TextAssumption DEF Empty
<1>5. got'.text = IF a.bytes < size THEN a ELSE Empty
    BY <1>1, <1>4, ToUtf8, TextLengths DEF AskControl
<1>6. got' \in Read
    BY <1>1, <1>5, ToUtf8 DEF AskControl, Read
<1>7. TypeOK'
    BY <1>2, <1>6 DEF AskControl, Inv, TypeOK
<1>8. FieldWholeOrEmpty' /\ RecordedAsSent' /\ ReadWholeOrNothing'
    BY <1>2, <1>3, <1>5
    DEF AskControl, Inv, FieldWholeOrEmpty, RecordedAsSent, ReadWholeOrNothing
<1>. QED
    BY <1>7, <1>8 DEF Inv

LEMMA Invariance == Spec => []Inv
<1>1. Inv /\ [Next]_vars => Inv'
    <2> SUFFICES ASSUME Inv, [Next]_vars
                 PROVE  Inv'
        OBVIOUS
    <2>1. ASSUME NEW t \in Text, Answer(t)
          PROVE  Inv'
        BY <2>1
        DEF Answer, Inv, TypeOK, FieldWholeOrEmpty, RecordedAsSent, ReadWholeOrNothing
    <2>2. ASSUME NEW len \in 0 .. 2 * FloatSize, GetDataFloat(len)
          PROVE  Inv'
        BY <2>2
        DEF GetDataFloat, Inv, TypeOK, FieldWholeOrEmpty, RecordedAsSent,
            ReadWholeOrNothing
    <2>3. CASE UNCHANGED vars
        BY <2>3
        DEF vars, Inv, TypeOK, FieldWholeOrEmpty, RecordedAsSent, ReadWholeOrNothing
    <2>. QED
        BY <2>1, <2>2, <2>3, SettersInv, RequestInv, GettersInv, AskInv DEF Next
<1>. QED
    BY <1>1, InitInv, PTL DEF Spec

-------------------------------------------------------------------------------
(* Every text in the system is one of the client's or of the control's, or *)
(* known to be cut (EfxMfc.cpp:638-894).                                   *)
THEOREM TypeCorrect == Spec => []TypeOK
BY Invariance, PTL DEF Inv

(* A setter gives the control the whole text or none: Utf8ToWideChar never *)
(* cuts, and what a Rust getter could not read whole it gives as none      *)
(* (EfxMfc.cpp:655-715, efx.rs:588-598).                                   *)
THEOREM SettersNeverCut == Spec => []FieldWholeOrEmpty
BY Invariance, PTL DEF Inv

(* A request that returns is recorded with the client's texts, under the   *)
(* name that the control got (EfxMfc.cpp:717-741, EfxWnd.h:33-35).         *)
THEOREM RequestsAreRecorded == Spec => []RecordedAsSent
BY Invariance, PTL DEF Inv

(* A getter returns the whole text or says that it did not, but for a      *)
(* buffer of one byte (pch.cpp:7-15).                                      *)
THEOREM GettersNeverMislead == Spec => []ReadWholeOrNothing
BY Invariance, PTL DEF Inv

(* Only a floating-point getter of a text that is not plain ASCII may      *)
(* write behind the end of its buffer (EfxMfc.cpp:798-804).                *)
THEOREM ConversionsFit == Spec => OverrunOnlyByFloat
<1> DEFINE FloatStep ==
        (~overrun /\ overrun') =>
            /\ answer.bytes > answer.units /\ 2 * answer.units >= FloatSize
            /\ UNCHANGED <<put, field, asked, query, item, got>>
<1>1. Inv /\ [Next]_vars => [FloatStep]_vars
    <2> SUFFICES ASSUME Inv, Next, ~overrun, overrun'
                 PROVE  FloatStep
        BY DEF vars
    <2>0. /\ answer \in Text
          /\ {DataSize, NameSize, ErrorSize, FloatSize} \subseteq Nat \ {0}
          /\ RustSize \subseteq Nat \ {0} /\ BuffSize \subseteq Nat \ {0}
          /\ AskSize \subseteq Nat \ {0}
        BY TextAssumption DEF Inv, TypeOK
    <2>1. ASSUME NEW len \in 0 .. 2 * FloatSize, GetDataFloat(len)
          PROVE  FloatStep
        <3>1. answer.bytes \in Nat /\ answer.units \in Nat /\ len \in Int
            BY <2>0, <2>1, TextLengths
        <3>2. len + 1 > FloatSize
            BY <2>1 DEF GetDataFloat
        <3>3. answer.bytes > answer.units
            BY <2>0, <2>1, <3>1, <3>2 DEF GetDataFloat
        <3>4. 2 * answer.units >= FloatSize
            BY <2>0, <2>1, <3>1, <3>2 DEF GetDataFloat
        <3>. QED
            BY <2>1, <3>3, <3>4 DEF GetDataFloat
    <2>2. ASSUME NEW t \in Text, SetData(t) \/ Answer(t) \/ \E p \in Text : RequestData(t, p)
          PROVE  FALSE
        BY <2>0, <2>2, ToWide DEF SetData, Answer, RequestData
    <2>3. ASSUME NEW size \in Nat \ {0}, GetData(size) \/ GetDataRust(size)
          PROVE  FALSE
        BY <2>0, <2>3, ToUtf8 DEF GetData, GetDataRust
    <2>4. ~OnReceiveError
        BY <2>0, ToUtf8 DEF OnReceiveError
    <2>5. ASSUME SetDataRead
          PROVE  FALSE
        <3>1. got.text \in Text
            BY <2>5, TextAssumption
            DEF SetDataRead, Inv, TypeOK, Read, ReadWholeOrNothing
        <3>. QED
            BY <2>0, <2>5, <3>1, ToWide DEF SetDataRead
    <2>6. ASSUME NEW t \in Text, NEW a \in Text, NEW ask \in AskSize, NEW size \in RustSize,
                 AskControl(t, a, ask, size)
          PROVE  FALSE
        BY <2>0, <2>6, ToWide, ToUtf8 DEF AskControl
    <2>. QED
        BY <2>0, <2>1, <2>2, <2>3, <2>4, <2>5, <2>6 DEF Next
<1>. QED
    BY <1>1, Invariance, PTL DEF Spec, OverrunOnlyByFloat

-------------------------------------------------------------------------------
LEMMA Smallest ==
    ASSUME NEW S \in SUBSET Nat, S # {}
    PROVE  \E n \in S : \A m \in S : n <= m
<1>1. PICK n \in S : \A m \in S : ~ (<<m, n>> \in OpToRel(<, Nat))
  BY WFMin, NatLessThanWellFounded
<1>2. \A m \in S : ~ (m < n)
  BY <1>1 DEF OpToRel
<1> QED
  BY <1>2

(* A value for every number up to n, each from the one before.             *)
Chain(r, n, b, h) ==
    r[0] = b /\ \A i \in 1 .. n : r[i] = h[<<i, r[i - 1]>>]

LEMMA ChainExists ==
    ASSUME NEW n \in Nat, NEW T, NEW b \in T, NEW h \in [(1 .. n) \X T -> T]
    PROVE  \E r \in [0 .. n -> T] : Chain(r, n, b, h)
<1> DEFINE Bad == {m \in 0 .. n : ~ \E r \in [0 .. m -> T] : Chain(r, m, b, h)}
<1>1. Bad = {}
  <2> SUFFICES ASSUME Bad # {} PROVE FALSE
    OBVIOUS
  <2>1. PICK m \in Bad : \A k \in Bad : m <= k
    <3>1. Bad \in SUBSET Nat
      OBVIOUS
    <3> HIDE DEF Bad
    <3> QED
      BY <3>1, Smallest
  <2>2. m # 0
    <3>1. [i \in 0 .. 0 |-> b] \in [0 .. 0 -> T] /\ Chain([i \in 0 .. 0 |-> b], 0, b, h)
      BY DEF Chain
    <3> QED
      BY <3>1
  <2>3. m \in 1 .. n /\ m - 1 \in 0 .. n /\ m - 1 < m
    BY <2>2
  <2>4. m - 1 \notin Bad
    <3> HIDE DEF Bad
    <3> QED
      BY <2>1, <2>3
  <2>5. PICK r \in [0 .. m - 1 -> T] : Chain(r, m - 1, b, h)
    BY <2>3, <2>4
  <2> DEFINE q == [i \in 0 .. m |-> IF i = m THEN h[<<m, r[m - 1]>>] ELSE r[i]]
  <2>6. r[m - 1] \in T /\ h[<<m, r[m - 1]>>] \in T
    BY <2>3
  <2>7. q \in [0 .. m -> T]
    BY <2>3, <2>6
  <2>8. q[0] = b
    BY <2>3, <2>5 DEF Chain
  <2>9. ASSUME NEW i \in 1 .. m PROVE q[i] = h[<<i, q[i - 1]>>]
    <3>1. q[i - 1] = r[i - 1]
      BY <2>3
    <3>2. CASE i = m
      <4>1. q[m] = h[<<m, r[m - 1]>>]
        BY <2>3
      <4> QED
        BY <3>1, <3>2, <4>1
    <3>3. CASE i # m
      <4>1. i \in 1 .. m - 1 /\ i \in 0 .. m
        BY <2>3, <3>3
      <4>2. q[i] = r[i] /\ r[i] = h[<<i, r[i - 1]>>]
        BY <2>5, <3>3, <4>1 DEF Chain
      <4> QED
        BY <3>1, <4>2
    <3> QED
      BY <3>2, <3>3
  <2>10. Chain(q, m, b, h)
    <3> HIDE DEF q
    <3> QED
      BY <2>8, <2>9 DEF Chain
  <2> QED
    BY <2>7, <2>10
<1>2. n \in 0 .. n
  OBVIOUS
<1> QED
  BY <1>1, <1>2

-------------------------------------------------------------------------------
Runs(s, f, r) ==
    r = [i \in 0 .. Len(s) |-> IF i = 0 THEN "start" ELSE After(r[i - 1], s[i], f)]

LEMMA RunIs == ASSUME NEW s, NEW f PROVE Run(s, f) = (CHOOSE r : Runs(s, f, r))
BY DEF Run, Runs

States == {"start", "sign", "dot", "int", "zero", "leading zero", "point", "frac", "e",
           "exp sign", "exp", "stuck"}

LEMMA AfterTyped == ASSUME NEW q, NEW c, NEW f PROVE After(q, c, f) \in States
BY DEF After, States

LEMMA RunUnfolds ==
    ASSUME NEW s \in Seq(STRING), NEW f
    PROVE  /\ Run(s, f) \in [0 .. Len(s) -> States]
           /\ Run(s, f)[0] = "start"
           /\ \A i \in 1 .. Len(s) : Run(s, f)[i] = After(Run(s, f)[i - 1], s[i], f)
<1> DEFINE n == Len(s)
           h == [p \in (1 .. n) \X States |-> After(p[2], s[p[1]], f)]
<1>1. n \in Nat /\ "start" \in States
  BY DEF States
<1>2. h \in [(1 .. n) \X States -> States]
  BY AfterTyped
<1>3. PICK r \in [0 .. n -> States] : Chain(r, n, "start", h)
  <2> HIDE DEF h, n
  <2> QED
    BY <1>1, <1>2, ChainExists
<1>4. \A i \in 1 .. n : <<i, r[i - 1]>> \in (1 .. n) \X States
  BY <1>1
<1>5. r[0] = "start" /\ \A i \in 1 .. n : r[i] = After(r[i - 1], s[i], f)
  <2>1. \A i \in 1 .. n : h[<<i, r[i - 1]>>] = After(r[i - 1], s[i], f)
    BY <1>4
  <2> HIDE DEF h
  <2> QED
    BY <1>3, <2>1 DEF Chain
<1>6. Runs(s, f, r)
  <2> DEFINE g == [i \in 0 .. n |-> IF i = 0 THEN "start" ELSE After(r[i - 1], s[i], f)]
  <2>1. \A i \in 0 .. n : g[i] = r[i]
    BY <1>1, <1>5
  <2>2. g = r
    BY <2>1
  <2> QED
    BY <2>2 DEF Runs
<1>7. Runs(s, f, Run(s, f))
  BY <1>6, RunIs
<1> DEFINE run == Run(s, f)
<1>8. run = [i \in 0 .. n |-> IF i = 0 THEN "start" ELSE After(run[i - 1], s[i], f)]
  BY <1>7 DEF Runs
<1> HIDE DEF run
<1>9. run[0] = "start" /\ \A i \in 1 .. n : run[i] = After(run[i - 1], s[i], f)
  BY <1>1, <1>8
<1>10. \A i \in 0 .. n : (IF i = 0 THEN "start" ELSE After(run[i - 1], s[i], f)) \in States
  BY <1>1, AfterTyped
<1>11. run \in [0 .. n -> States]
  BY <1>8, <1>10
<1> QED
  BY <1>9, <1>11 DEF run

-------------------------------------------------------------------------------
Digit == {"0", "1", "2", "3", "4", "5", "6", "7", "8", "9"}

LEMMA DigitsAre == DOMAIN Numeral = Digit /\ \A c : IsInteger(c) <=> c \in Digit
BY DEF Numeral, IsInteger, Digit

LEMMA MinIs ==
    ASSUME NEW S \in SUBSET Nat, S # {}
    PROVE  Min(S) \in S /\ \A m \in S : Min(S) <= m
BY Smallest DEF Min

LEMMA EndOfDigitsIs ==
    ASSUME NEW s \in Seq(STRING), NEW p \in 1 .. Len(s) + 1
    PROVE  /\ EndOfDigits(s, p) \in p .. Len(s) + 1
           /\ \A i \in p .. EndOfDigits(s, p) - 1 : s[i] \in Digit
           /\ EndOfDigits(s, p) <= Len(s) => s[EndOfDigits(s, p)] \notin Digit
<1> DEFINE n == Len(s)
           S == {q \in p .. n + 1 : q > n \/ ~IsInteger(s[q])}
<1>1. n \in Nat /\ p \in Nat
  OBVIOUS
<1>2. S \in SUBSET Nat /\ n + 1 \in S
  BY <1>1
<1>3. EndOfDigits(s, p) = Min(S)
  BY DEF EndOfDigits
<1>4. Min(S) \in S /\ \A m \in S : Min(S) <= m
  <2> HIDE DEF S
  <2> QED
    BY <1>2, MinIs
<1> DEFINE e == Min(S)
<1>5. e \in p .. n + 1 /\ (e > n \/ ~IsInteger(s[e])) /\ \A m \in S : e <= m
  BY <1>4
<1>6. ASSUME NEW i \in p .. e - 1 PROVE s[i] \in Digit
  <2>1. i \in p .. n + 1 /\ i <= n /\ i < e
    <3> HIDE DEF e
    <3> QED
      BY <1>1, <1>5
  <2>2. i \notin S
    <3> HIDE DEF e, S
    <3> QED
      BY <1>1, <1>5, <2>1
  <2> QED
    BY <1>1, <2>1, <2>2, DigitsAre
<1> HIDE DEF e
<1> QED
  BY <1>1, <1>3, <1>5, <1>6, DigitsAre DEF e

(* The automaton, seen from the state it is in. *)
LEMMA FromStart ==
    ASSUME NEW q \in {"start", "sign"}, NEW c, NEW f
    PROVE  /\ c \in Digit => After(q, c, f) = IF c = "0" /\ "json" \in f THEN "zero" ELSE "int"
           /\ q = "start" /\ c = "-" => After(q, c, f) = "sign"
           /\ c = "." /\ "json" \notin f => After(q, c, f) = "dot"
           /\ c = "." /\ "json" \in f => After(q, c, f) = "stuck"
           /\ c \notin Digit \union {"-", "."} => After(q, c, f) = "stuck"
           /\ q = "sign" /\ c = "-" => After(q, c, f) = "stuck"
BY DigitsAre, Zenon DEF After, Digit

LEMMA DigitInInteger == ASSUME NEW c \in Digit, NEW f PROVE After("int", c, f) = "int"
BY DigitsAre DEF After, Digit

LEMMA DigitAfterZero == ASSUME NEW c \in Digit, NEW f PROVE After("zero", c, f) = "leading zero"
BY DigitsAre DEF After, Digit

LEMMA DigitInFraction ==
    ASSUME NEW q \in {"dot", "point", "frac"}, NEW c \in Digit, NEW f
    PROVE  After(q, c, f) = "frac"
BY DigitsAre, Zenon DEF After, Digit

LEMMA DigitInExponent ==
    ASSUME NEW q \in {"e", "exp sign", "exp"}, NEW c \in Digit, NEW f
    PROVE  After(q, c, f) = "exp"
BY DigitsAre, Zenon DEF After, Digit

LEMMA PointAfterInteger ==
    ASSUME NEW q \in {"int", "zero"}, NEW f PROVE After(q, ".", f) = "point"
BY DigitsAre DEF After, Digit

LEMMA SignAfterE == ASSUME NEW c \in {"+", "-"}, NEW f PROVE After("e", c, f) = "exp sign"
BY DigitsAre DEF After, Digit

LEMMA NothingAfterE ==
    ASSUME NEW c, c \notin Digit \union {"+", "-"}, NEW f PROVE After("e", c, f) = "stuck"
BY DigitsAre DEF After, Digit

LEMMA OnlyDigits ==
    ASSUME NEW q \in {"dot", "exp sign", "exp"}, NEW c, c \notin Digit, NEW f
    PROVE  After(q, c, f) = "stuck"
BY DigitsAre, Zenon DEF After, Digit

LEMMA PointNeedsDigits ==
    ASSUME NEW c, c \notin Digit, NEW f, "json" \in f PROVE After("point", c, f) = "stuck"
BY DigitsAre DEF After, Digit

LEMMA FromStuck == ASSUME NEW c, NEW f PROVE After("stuck", c, f) = "stuck"
BY DEF After

(* A number is complete: what may follow is its exponent. *)
Complete(q, f) == q \in {"int", "zero", "frac"} \/ (q = "point" /\ "json" \notin f)

LEMMA ExponentByE ==
    ASSUME NEW q, NEW c, NEW f, Complete(q, f),
           \/ "scientific" \in f /\ c \in {"e", "E"}
           \/ "fortran" \in f /\ c \in {"d", "D"}
    PROVE  After(q, c, f) = "e"
BY DigitsAre, Zenon DEF After, Digit, Complete

LEMMA ExponentBySign ==
    ASSUME NEW q, NEW c \in {"+", "-"}, NEW f, Complete(q, f), "fortran" \in f
    PROVE  After(q, c, f) = "exp sign"
BY DigitsAre, Zenon DEF After, Digit, Complete

LEMMA NothingFollows ==
    ASSUME NEW q, NEW c, NEW f, Complete(q, f),
           c \notin Digit, q \in {"int", "zero"} => c # ".",
           ~("scientific" \in f /\ c \in {"e", "E"}),
           ~("fortran" \in f /\ c \in {"d", "D", "+", "-"})
    PROVE  After(q, c, f) = "stuck"
BY DigitsAre, Zenon DEF After, Digit, Complete

(* A sequence of states, one after every character of the text. *)
Walk(r, s, f) ==
    /\ r \in [0 .. Len(s) -> States] /\ r[0] = "start"
    /\ \A i \in 1 .. Len(s) : r[i] = After(r[i - 1], s[i], f)

(* While the characters do not change the state it stays. *)
LEMMA Stays ==
    ASSUME NEW s \in Seq(STRING), NEW f, NEW r, Walk(r, s, f),
           NEW a \in 0 .. Len(s), NEW z \in 0 .. Len(s),
           \A i \in a + 1 .. z : After(r[a], s[i], f) = r[a]
    PROVE  \A i \in a .. z : r[i] = r[a]
<1> DEFINE Bad == {i \in a .. z : r[i] # r[a]}
<1>1. Bad = {}
  <2> SUFFICES ASSUME Bad # {} PROVE FALSE
    OBVIOUS
  <2>1. PICK i \in Bad : \A k \in Bad : i <= k
    <3>1. Bad \in SUBSET Nat
      OBVIOUS
    <3> HIDE DEF Bad
    <3> QED
      BY <3>1, Smallest
  <2>2. i \in a + 1 .. z /\ i - 1 \in a .. z /\ i - 1 < i /\ i \in 1 .. Len(s)
    OBVIOUS
  <2>3. i - 1 \notin Bad
    <3> HIDE DEF Bad
    <3> QED
      BY <2>1, <2>2
  <2>4. r[i - 1] = r[a]
    BY <2>2, <2>3
  <2>5. r[i] = After(r[i - 1], s[i], f) /\ After(r[a], s[i], f) = r[a]
    BY <2>2 DEF Walk
  <2> QED
    BY <2>4, <2>5
<1> QED
  BY <1>1

LEMMA StaysStuck ==
    ASSUME NEW s \in Seq(STRING), NEW f, NEW r, Walk(r, s, f),
           NEW a \in 0 .. Len(s), r[a] = "stuck"
    PROVE  \A i \in a .. Len(s) : r[i] = "stuck"
<1>1. Len(s) \in 0 .. Len(s)
  OBVIOUS
<1>2. \A i \in a + 1 .. Len(s) : After(r[a], s[i], f) = r[a]
  BY FromStuck
<1> QED
  BY <1>1, <1>2, Stays

LEMMA MaxIs ==
    ASSUME NEW S \in SUBSET Int, NEW m \in S, \A k \in S : k <= m
    PROVE  Max(S) = m
<1>1. m \in S /\ \A y \in S : m >= y
  OBVIOUS
<1>2. Max(S) \in S /\ \A y \in S : Max(S) >= y
  BY <1>1 DEF Max
<1>3. Max(S) \in Int /\ m \in Int /\ Max(S) >= m /\ m >= Max(S)
  BY <1>1, <1>2
<1> QED
  BY <1>3

-------------------------------------------------------------------------------
StartDigits(s) == IF s[1] = "-" THEN 2 ELSE 1

(* The states of the integer's digits, and of what stands in their place. *)
IntegerStates(s, f, r, st, e) ==
    /\ st \in 1 .. Len(s) + 1 /\ e \in st .. Len(s) + 1
    /\ \A i \in 0 .. st - 1 : r[i] \in {"start", "sign"}
    /\ e > st /\ "json" \in f /\ s[st] = "0" =>
          /\ r[st] = "zero"
          /\ e > st + 1 => r[st + 1] = "leading zero"
    /\ e > st /\ ~("json" \in f /\ s[st] = "0") => \A i \in st .. e - 1 : r[i] = "int"
    /\ e = st /\ st <= Len(s) =>
          r[st] = IF s[st] = "." /\ "json" \notin f THEN "dot" ELSE "stuck"

LEMMA IntegerWalk ==
    ASSUME NEW s \in Seq(STRING), s # << >>, NEW f, NEW r, Walk(r, s, f),
           NEW st, st = StartDigits(s), NEW e, e = EndOfDigits(s, st)
    PROVE  IntegerStates(s, f, r, st, e)
<1> DEFINE n == Len(s)
<1>1. n \in Nat \ {0}
  OBVIOUS
<1>2. st \in 1 .. n + 1 /\ (st = 2 <=> s[1] = "-") /\ st \in {1, 2}
  BY <1>1 DEF StartDigits
<1>3. /\ e \in st .. n + 1
      /\ \A i \in st .. e - 1 : s[i] \in Digit
      /\ e <= n => s[e] \notin Digit
  BY <1>2, EndOfDigitsIs
<1>4. r[0] = "start" /\ \A i \in 1 .. n : r[i] = After(r[i - 1], s[i], f)
  BY DEF Walk
<1>5. st = 2 => r[1] = "sign"
  <2> SUFFICES ASSUME st = 2 PROVE r[1] = "sign"
    OBVIOUS
  <2>1. r[1] = After("start", "-", f)
    BY <1>1, <1>2, <1>4
  <2> QED
    BY <2>1, FromStart
<1>6. \A i \in 0 .. st - 1 : r[i] \in {"start", "sign"}
  BY <1>2, <1>4, <1>5
<1>7. st = 1 => r[st - 1] = "start" /\ s[st] # "-"
  BY <1>2, <1>4
<1>8. st <= n => r[st] = After(r[st - 1], s[st], f)
  <2>1. st <= n => st \in 1 .. n
    BY <1>2
  <2> QED
    BY <1>4, <2>1
<1>9. r[st - 1] \in {"start", "sign"}
  BY <1>2, <1>6
<1>10. ASSUME e > st
       PROVE  st \in 1 .. n /\ s[st] \in Digit
  BY <1>1, <1>2, <1>3, <1>10
<1>11. ASSUME e > st, "json" \in f, s[st] = "0"
       PROVE  r[st] = "zero" /\ (e > st + 1 => r[st + 1] = "leading zero")
  <2>1. r[st] = "zero"
    BY <1>8, <1>9, <1>10, <1>11, FromStart
  <2>2. ASSUME e > st + 1 PROVE r[st + 1] = "leading zero"
    <3>1. st + 1 \in 1 .. n /\ s[st + 1] \in Digit
      BY <1>1, <1>2, <1>3, <2>2
    <3>2. r[st + 1] = After(r[st], s[st + 1], f)
      <4>1. (st + 1) - 1 = st
        BY <1>2
      <4> QED
        BY <1>4, <3>1, <4>1
    <3>3. After("zero", s[st + 1], f) = "leading zero"
      BY <3>1, DigitAfterZero, Zenon
    <3> QED
      BY <2>1, <3>2, <3>3, Zenon
  <2> QED
    BY <2>1, <2>2, Zenon
<1>12. ASSUME e > st, ~("json" \in f /\ s[st] = "0")
       PROVE  \A i \in st .. e - 1 : r[i] = "int"
  <2>1. r[st] = "int"
    BY <1>8, <1>9, <1>10, <1>12, FromStart
  <2>2. ASSUME NEW i \in st + 1 .. e - 1 PROVE After("int", s[i], f) = "int"
    <3>1. i \in st .. e - 1
      BY <1>2, <1>3
    <3>2. s[i] \in Digit
      BY <1>3, <3>1
    <3> QED
      BY <3>2, DigitInInteger
  <2>3. st \in 0 .. n /\ e - 1 \in 0 .. n
    BY <1>1, <1>2, <1>3, <1>12
  <2> QED
    BY <2>1, <2>2, <2>3, Stays
<1>13. ASSUME e = st, st <= n
       PROVE  r[st] = IF s[st] = "." /\ "json" \notin f THEN "dot" ELSE "stuck"
  <2>1. s[st] \notin Digit /\ r[st] = After(r[st - 1], s[st], f)
    BY <1>3, <1>8, <1>13
  <2>2. r[st - 1] = "start" => s[st] # "-"
    <3>1. st = 2 => r[st - 1] = "sign"
      BY <1>5
    <3> QED
      BY <1>2, <1>7, <3>1
  <2> QED
    BY <1>9, <2>1, <2>2, FromStart
<1> QED
  BY <1>2, <1>3, <1>6, <1>11, <1>12, <1>13, Zenon DEF IntegerStates

LEMMA FractionWalk ==
    ASSUME NEW s \in Seq(STRING), NEW f, NEW r, Walk(r, s, f),
           NEW e \in 1 .. Len(s), r[e] \in {"dot", "point"},
           NEW p, p = EndOfDigits(s, e + 1)
    PROVE  /\ p \in e + 1 .. Len(s) + 1
           /\ \A i \in e + 1 .. p - 1 : r[i] = "frac"
           /\ p <= Len(s) => s[p] \notin Digit
           /\ p = e + 1 /\ p <= Len(s) /\ (r[e] = "dot" \/ "json" \in f) => r[p] = "stuck"
<1> DEFINE n == Len(s)
<1>1. n \in Nat /\ e + 1 \in 1 .. n + 1 /\ e \in Nat /\ (e + 1) - 1 = e
  OBVIOUS
<1>2. /\ p \in e + 1 .. n + 1
      /\ \A i \in e + 1 .. p - 1 : s[i] \in Digit
      /\ p <= n => s[p] \notin Digit
  BY <1>1, EndOfDigitsIs
<1>3. \A i \in 1 .. n : r[i] = After(r[i - 1], s[i], f)
  BY DEF Walk
<1>4. ASSUME p > e + 1 PROVE \A i \in e + 1 .. p - 1 : r[i] = "frac"
  <2>1. e + 1 \in 1 .. n /\ s[e + 1] \in Digit
    BY <1>1, <1>2, <1>4
  <2>2. r[e + 1] = After(r[e], s[e + 1], f)
    BY <1>1, <1>3, <2>1
  <2>3. r[e + 1] = "frac"
    <3>1. \A q \in {"dot", "point"} : After(q, s[e + 1], f) = "frac"
      BY <2>1, DigitInFraction
    <3> QED
      BY <2>2, <3>1
  <2>4. ASSUME NEW i \in (e + 1) + 1 .. p - 1 PROVE After("frac", s[i], f) = "frac"
    <3>1. s[i] \in Digit
      BY <1>1, <1>2
    <3> QED
      BY <3>1, DigitInFraction
  <2>5. e + 1 \in 0 .. n /\ p - 1 \in 0 .. n
    <3>1. p \in Nat /\ p <= n + 1 /\ p > e + 1
      BY <1>1, <1>2, <1>4
    <3> QED
      BY <1>1, <3>1
  <2> QED
    BY <2>3, <2>4, <2>5, Stays
<1>5. ASSUME p = e + 1, p <= n, r[e] = "dot" \/ "json" \in f
      PROVE  r[p] = "stuck"
  <2>1. p \in 1 .. n /\ p - 1 = e /\ s[p] \notin Digit
    BY <1>1, <1>2, <1>5
  <2>2. r[p] = After(r[e], s[p], f)
    BY <1>3, <2>1
  <2>3. After("dot", s[p], f) = "stuck"
    BY <2>1, OnlyDigits, Zenon
  <2>4. "json" \in f => After("point", s[p], f) = "stuck"
    BY <2>1, PointNeedsDigits
  <2> QED
    BY <1>5, <2>2, <2>3, <2>4
<1>6. p = e + 1 \/ p > e + 1
  BY <1>1, <1>2
<1>7. p = e + 1 => \A i \in e + 1 .. p - 1 : r[i] = "frac"
  BY <1>1
<1> QED
  BY <1>2, <1>4, <1>5, <1>6, <1>7

-------------------------------------------------------------------------------
LEMMA LengthIs ==
    ASSUME NEW s \in Seq(STRING), NEW f, NEW m \in 0 .. Len(s),
           ~Forbidden(Run(s, f), f), m # 0 => Run(s, f)[m] \in Accepting(f),
           \A i \in m + 1 .. Len(s) : Run(s, f)[i] \notin Accepting(f)
    PROVE  NumberLength(s, f) = m
<1> DEFINE S == {0} \union {i \in 1 .. Len(s) : Run(s, f)[i] \in Accepting(f)}
<1>1. NumberLength(s, f) = Max(S)
  BY DEF NumberLength
<1>2. S \in SUBSET Int /\ m \in S
  OBVIOUS
<1>3. \A k \in S : k <= m
  OBVIOUS
<1> HIDE DEF S
<1> QED
  BY <1>1, <1>2, <1>3, MaxIs

LEMMA NoLength ==
    ASSUME NEW s \in Seq(STRING), NEW f,
           \/ Forbidden(Run(s, f), f)
           \/ \A i \in 1 .. Len(s) : Run(s, f)[i] \notin Accepting(f)
    PROVE  NumberLength(s, f) = 0
<1>1. CASE Forbidden(Run(s, f), f)
  BY <1>1 DEF NumberLength
<1>2. CASE ~Forbidden(Run(s, f), f)
  <2>1. 0 \in 0 .. Len(s) /\ \A i \in 0 + 1 .. Len(s) : i \in 1 .. Len(s)
    OBVIOUS
  <2> QED
    BY <1>2, <2>1, LengthIs
<1> QED
  BY <1>1, <1>2

LEMMA IsWalk == ASSUME NEW s \in Seq(STRING), NEW f PROVE Walk(Run(s, f), s, f)
BY RunUnfolds DEF Walk

(* What JSON forbids happens before the exponent or never. *)
Late == {"e", "exp sign", "exp", "stuck"}
Lawful(r, p) ==
    \A i \in 0 .. p - 1 :
        r[i] # "leading zero" /\ (r[i] = "point" => i + 1 \in 0 .. p - 1 /\ r[i + 1] # "stuck")

LEMMA NotForbidden ==
    ASSUME NEW s \in Seq(STRING), NEW f, NEW r, Walk(r, s, f), NEW p \in 1 .. Len(s) + 1,
           Lawful(r, p), \A i \in p .. Len(s) : r[i] \in Late
    PROVE  ~Forbidden(r, f)
<1>1. Len(s) \in Nat /\ p \in Nat /\ p <= Len(s) + 1
  OBVIOUS
<1>2. DOMAIN r = 0 .. Len(s)
  BY DEF Walk
<1>3. ASSUME NEW i \in 0 .. Len(s)
      PROVE  r[i] # "leading zero" /\ (r[i] = "point" => i + 1 \in 0 .. Len(s) /\ r[i + 1] # "stuck")
  <2>1. CASE i <= p - 1
    <3>1. i \in 0 .. p - 1
      BY <1>1, <2>1
    <3>2. i + 1 \in 0 .. p - 1 => i + 1 \in 0 .. Len(s)
      BY <1>1
    <3> QED
      BY <3>1, <3>2, Zenon DEF Lawful
  <2>2. CASE i > p - 1
    <3>1. i \in p .. Len(s)
      BY <1>1, <2>2
    <3>2. r[i] \in Late
      BY <3>1
    <3> QED
      BY <3>2, Zenon DEF Late
  <2>3. i <= p - 1 \/ i > p - 1
    BY <1>1
  <2> QED
    BY <2>1, <2>2, <2>3, Zenon
<1> QED
  BY <1>2, <1>3, Zenon DEF Forbidden

-------------------------------------------------------------------------------
(* Where the digits of an exponent that starts at p begin, and the states  *)
(* before them.                                                            *)
LEMMA ExponentStart ==
    ASSUME NEW s \in Seq(STRING), NEW f, NEW r, Walk(r, s, f), NEW p \in 1 .. Len(s),
           Complete(r[p - 1], f), StartsExponent(s, p, f),
           NEW a, a = ExponentDigits(s, p).first
    PROVE  /\ a \in p + 1 .. Len(s) + 1
           /\ \A i \in p .. a - 1 : r[i] \in {"e", "exp sign"}
           /\ r[a - 1] = "e" /\ a <= Len(s) => s[a] \notin {"+", "-"}
<1>1. p \in Nat /\ Len(s) \in Nat /\ p <= Len(s) /\ p >= 1
  OBVIOUS
<1>2. \A i \in 1 .. Len(s) : r[i] = After(r[i - 1], s[i], f)
  BY DEF Walk
<1>3. r[p] = After(r[p - 1], s[p], f)
  BY <1>2
<1>4. \/ "scientific" \in f /\ s[p] \in {"e", "E"}
      \/ "fortran" \in f /\ s[p] \in {"+", "-", "d", "D"}
  BY DEF StartsExponent, At
<1>5. s[p] \notin Digit /\ s[p] # "."
  BY <1>4 DEF Digit
<1>6. CASE s[p] \in {"e", "E", "d", "D"}
  <2>1. r[p] = "e"
    BY <1>3, <1>4, <1>6, ExponentByE
  <2>2. a = IF At(s, p + 1, {"-", "+"}) THEN p + 2 ELSE p + 1
    BY <1>1, <1>6 DEF ExponentDigits, At
  <2>3. CASE At(s, p + 1, {"-", "+"})
    <3>1. p + 1 \in 1 .. Len(s) /\ s[p + 1] \in {"+", "-"} /\ (p + 1) - 1 = p
      BY <1>1, <2>3 DEF At
    <3>2. r[p + 1] = After(r[p], s[p + 1], f)
      BY <1>2, <3>1
    <3>3. After("e", s[p + 1], f) = "exp sign"
      BY <3>1, SignAfterE, Zenon
    <3>4. r[p + 1] = "exp sign"
      BY <2>1, <3>2, <3>3, Zenon
    <3>5. a = p + 2
      BY <2>2, <2>3
    <3>6. a \in p + 1 .. Len(s) + 1 /\ a - 1 = p + 1 /\ \A i \in p .. a - 1 : i = p \/ i = p + 1
      BY <1>1, <3>1, <3>5
    <3> QED
      BY <2>1, <3>4, <3>5, <3>6, Zenon
  <2>4. CASE ~At(s, p + 1, {"-", "+"})
    <3>1. a = p + 1 /\ a \in p + 1 .. Len(s) + 1 /\ a - 1 = p
      BY <1>1, <2>2, <2>4
    <3>2. \A i \in p .. a - 1 : i = p
      BY <1>1, <3>1
    <3>3. a <= Len(s) => s[a] \notin {"+", "-"}
      BY <2>4, <3>1 DEF At
    <3> QED
      BY <2>1, <3>1, <3>2, <3>3, Zenon
  <2> QED
    BY <2>3, <2>4, Zenon
<1>7. CASE s[p] \notin {"e", "E", "d", "D"}
  <2>1. s[p] \in {"+", "-"} /\ "fortran" \in f
    BY <1>4, <1>7
  <2>2. r[p] = "exp sign"
    BY <1>3, <2>1, ExponentBySign, Zenon
  <2>3. a = p + 1
    BY <1>1, <1>7, <2>1 DEF ExponentDigits, At
  <2>4. a \in p + 1 .. Len(s) + 1 /\ a - 1 = p /\ \A i \in p .. a - 1 : i = p
    BY <1>1, <2>3
  <2> QED
    BY <2>2, <2>4, Zenon
<1> QED
  BY <1>6, <1>7, Zenon

(* What the exponent, if there is one, does to the length.  Before it the  *)
(* number is complete and no state is an exponent's.                       *)
Whole(r, s, f, p) ==
    /\ Complete(r[p - 1], f)
    /\ p <= Len(s) => s[p] \notin Digit
    /\ p <= Len(s) /\ r[p - 1] \in {"int", "zero"} => s[p] # "."
    /\ \A i \in 1 .. p - 1 : r[i] # "exp"
    /\ "json" \in f => Lawful(r, p)

LEMMA AcceptingIs ==
    ASSUME NEW f
    PROVE  /\ "exp" \in Accepting(f)
           /\ \A q : Complete(q, f) /\ "fixed" \in f => q \in Accepting(f)
           /\ \A q \in {"e", "exp sign", "stuck"} : q \notin Accepting(f)
           /\ "fixed" \notin f => Accepting(f) = {"exp"}
BY DEF Accepting, Complete

LEMMA LateStates ==
    ASSUME NEW q \in {"e", "exp sign", "stuck"}
    PROVE  q \in Late
BY Zenon DEF Late

(* Without an exponent. *)
LEMMA PlainLength ==
    ASSUME NEW s \in Seq(STRING), NEW f, NEW r, r = Run(s, f),
           NEW p \in 2 .. Len(s) + 1, Whole(r, s, f, p),
           \A i \in p .. Len(s) : r[i] \in Late /\ r[i] # "exp"
    PROVE  NumberLength(s, f) = IF "fixed" \in f THEN p - 1 ELSE 0
<1>0. Walk(r, s, f)
  BY IsWalk
<1>1. Len(s) \in Nat /\ p \in 1 .. Len(s) + 1 /\ p - 1 \in 0 .. Len(s) /\ p - 1 # 0 /\ (p - 1) + 1 = p
  OBVIOUS
<1>2. ~Forbidden(r, f)
  <2>1. CASE "json" \in f
    <3>1. Lawful(r, p)
      BY <2>1 DEF Whole
    <3>2. \A i \in p .. Len(s) : r[i] \in Late
      OBVIOUS
    <3> QED
      BY <1>0, <1>1, <3>1, <3>2, NotForbidden
  <2>2. CASE "json" \notin f
    BY <2>2, Zenon DEF Forbidden
  <2> QED
    BY <2>1, <2>2
<1>3. CASE "fixed" \in f
  <2>1. r[p - 1] \in Accepting(f)
    BY <1>3, AcceptingIs, Zenon DEF Whole
  <2>2. ASSUME NEW i \in p .. Len(s) PROVE r[i] \notin Accepting(f)
    <3>1. r[i] \in {"e", "exp sign", "stuck"}
      BY Zenon DEF Late
    <3> QED
      BY <3>1, AcceptingIs, ZenonT(30)
  <2>3. NumberLength(s, f) = p - 1
    BY <1>1, <1>2, <2>1, <2>2, LengthIs
  <2> QED
    BY <1>3, <2>3
<1>4. CASE "fixed" \notin f
  <2>1. ASSUME NEW i \in 1 .. Len(s) PROVE r[i] # "exp"
    <3>1. i \in 1 .. p - 1 \/ i \in p .. Len(s)
      BY <1>1
    <3> QED
      BY <3>1 DEF Whole
  <2>2. \A i \in 1 .. Len(s) : r[i] \notin Accepting(f)
    BY <1>4, <2>1, AcceptingIs, Zenon
  <2> QED
    BY <1>4, <2>2, NoLength
<1> QED
  BY <1>3, <1>4

EndOfNumber(s, p, f) ==
    IF HasExponent(s, p, f) THEN EndOfDigits(s, ExponentDigits(s, p).first) ELSE p

LEMMA NoneIsEmpty == ASSUME NEW q \in Seq(STRING) PROVE q = << >> <=> Len(q) = 0
OBVIOUS

LEMMA ExponentWalk ==
    ASSUME NEW s \in Seq(STRING), NEW f, "fixed" \in f \/ "scientific" \in f,
           NEW r, r = Run(s, f),
           NEW p \in 2 .. Len(s) + 1, Whole(r, s, f, p)
    PROVE  /\ ExponentIsRight(s, p, f) => NumberLength(s, f) = EndOfNumber(s, p, f) - 1
           /\ ~ExponentIsRight(s, p, f) => NumberLength(s, f) = 0
           /\ EndOfNumber(s, p, f) \in p .. Len(s) + 1
<1>0. Walk(r, s, f)
  BY IsWalk
<1>1. Len(s) \in Nat /\ p \in Nat /\ p >= 2 /\ p <= Len(s) + 1
  OBVIOUS
<1>2. \A i \in 1 .. Len(s) : r[i] = After(r[i - 1], s[i], f)
  BY <1>0 DEF Walk
<1>3. CASE ~StartsExponent(s, p, f)
  <2>1. ASSUME p <= Len(s) PROVE \A i \in p .. Len(s) : r[i] = "stuck"
    <3>1. p \in 1 .. Len(s) /\ p \in 0 .. Len(s)
      BY <1>1, <2>1
    <3>2. r[p] = After(r[p - 1], s[p], f)
      BY <1>2, <3>1
    <3>3. /\ ~("scientific" \in f /\ s[p] \in {"e", "E"})
          /\ ~("fortran" \in f /\ s[p] \in {"d", "D", "+", "-"})
      BY <1>3, <2>1 DEF StartsExponent, At
    <3>4. After(r[p - 1], s[p], f) = "stuck"
      BY <2>1, <3>3, NothingFollows DEF Whole
    <3> QED
      BY <1>0, <3>1, <3>2, <3>4, StaysStuck
  <2>2. \A i \in p .. Len(s) : r[i] \in Late /\ r[i] # "exp"
    <3>1. \A i \in p .. Len(s) : r[i] = "stuck"
      BY <1>1, <2>1
    <3> QED
      BY <3>1, LateStates, Zenon
  <2>3. NumberLength(s, f) = IF "fixed" \in f THEN p - 1 ELSE 0
    BY <2>2, PlainLength
  <2>4. ExponentIsRight(s, p, f) <=> "fixed" \in f
    BY <1>3 DEF ExponentIsRight
  <2>5. EndOfNumber(s, p, f) = p
    BY <1>3 DEF EndOfNumber, HasExponent
  <2> QED
    BY <1>1, <2>3, <2>4, <2>5
<1>4. CASE StartsExponent(s, p, f)
  <2> DEFINE a == ExponentDigits(s, p).first
             E == EndOfDigits(s, a)
  <2>1. p \in 1 .. Len(s)
    BY <1>1, <1>4 DEF StartsExponent, At
  <2>0. Complete(r[p - 1], f)
    BY DEF Whole
  <2>2. /\ \A i \in p .. a - 1 : r[i] \in {"e", "exp sign"}
        /\ r[a - 1] = "e" /\ a <= Len(s) => s[a] \notin {"+", "-"}
    BY <1>0, <1>4, <2>0, <2>1, ExponentStart, Zenon
  <2>3. a \in Nat /\ a > p /\ a <= Len(s) + 1 /\ a \in 1 .. Len(s) + 1
    <3>1. a \in p + 1 .. Len(s) + 1
      BY <1>0, <1>4, <2>0, <2>1, ExponentStart, Zenon
    <3> QED
      BY <1>1, <3>1
  <2>4. /\ E \in a .. Len(s) + 1
        /\ \A i \in a .. E - 1 : s[i] \in Digit
        /\ E <= Len(s) => s[E] \notin Digit
    BY <2>3, EndOfDigitsIs
  <2>5. ExponentDigits(s, p).digits # << >> <=> E > a
    <3>1. ExponentDigits(s, p).digits = SubSeq(s, a, E - 1)
      BY DEF ExponentDigits
    <3> HIDE DEF a, E
    <3>2. a \in Nat /\ a >= 1 /\ E \in Nat /\ E >= a /\ E - 1 <= Len(s)
      BY <1>1, <2>3, <2>4
    <3>3. Len(SubSeq(s, a, E - 1)) = IF a <= E - 1 THEN (E - 1) - a + 1 ELSE 0
      BY <3>2
    <3>4. SubSeq(s, a, E - 1) \in Seq(STRING)
      BY <3>2
    <3>5. SubSeq(s, a, E - 1) = << >> <=> Len(SubSeq(s, a, E - 1)) = 0
      BY <3>4, NoneIsEmpty
    <3> QED
      BY <3>1, <3>2, <3>3, <3>5
  <2> HIDE DEF a, E
  <2>6. r[a - 1] \in {"e", "exp sign"} /\ a - 1 \in 0 .. Len(s)
    <3>1. a - 1 \in p .. a - 1 /\ a - 1 \in 0 .. Len(s)
      BY <1>1, <2>3
    <3> QED
      BY <2>2, <3>1, Zenon
  <2>7. CASE E > a
    <3>0. a \in Nat /\ E \in Nat /\ a > p /\ E <= Len(s) + 1
      BY <1>1, <2>3, <2>4
    <3>1. \A i \in a .. E - 1 : r[i] = "exp"
      <4>1. a \in 1 .. Len(s) /\ a \in 0 .. Len(s) /\ E - 1 \in 0 .. Len(s) /\ a \in a .. E - 1
        BY <1>1, <2>7, <3>0
      <4>2. r[a] = After(r[a - 1], s[a], f)
        BY <1>2, <4>1
      <4>3. s[a] \in Digit
        BY <2>4, <4>1
      <4>4. r[a] = "exp"
        BY <2>6, <4>2, <4>3, DigitInExponent, Zenon
      <4>5. ASSUME NEW i \in a + 1 .. E - 1 PROVE After("exp", s[i], f) = "exp"
        <5>1. i \in a .. E - 1
          BY <3>0
        <5>2. s[i] \in Digit
          BY <2>4, <5>1
        <5> QED
          BY <5>2, DigitInExponent, Zenon
      <4> QED
        BY <1>0, <4>1, <4>4, <4>5, Stays
    <3>2. \A i \in E .. Len(s) : r[i] = "stuck"
      <4>1. CASE E <= Len(s)
        <5>1. E \in 1 .. Len(s) /\ E \in 0 .. Len(s) /\ E - 1 \in a .. E - 1
          BY <1>1, <2>7, <3>0, <4>1
        <5>2. r[E] = After(r[E - 1], s[E], f) /\ r[E - 1] = "exp"
          BY <1>2, <3>1, <5>1
        <5>3. After("exp", s[E], f) = "stuck"
          BY <2>4, <4>1, OnlyDigits, Zenon
        <5>4. r[E] = "stuck"
          BY <5>2, <5>3
        <5> QED
          BY <1>0, <5>1, <5>4, StaysStuck
      <4>2. CASE E > Len(s)
        BY <1>1, <3>0, <4>2
      <4> QED
        BY <1>1, <3>0, <4>1, <4>2
    <3>3. \A i \in p .. Len(s) : r[i] \in Late
      <4>1. ASSUME NEW i \in p .. Len(s)
            PROVE  i \in p .. a - 1 \/ i \in a .. E - 1 \/ i \in E .. Len(s)
        BY <1>1, <3>0
      <4>2. ASSUME NEW i \in p .. Len(s) PROVE r[i] \in {"e", "exp sign", "exp", "stuck"}
        BY <2>2, <3>1, <3>2, <4>1, Zenon
      <4> QED
        BY <4>2, Zenon DEF Late
    <3>4. ~Forbidden(r, f)
      <4>1. CASE "json" \in f
        <5>1. Lawful(r, p) /\ p \in 1 .. Len(s) + 1
          BY <1>1, <4>1 DEF Whole
        <5> QED
          BY <1>0, <3>3, <5>1, NotForbidden
      <4>2. CASE "json" \notin f
        BY <4>2, Zenon DEF Forbidden
      <4> QED
        BY <4>1, <4>2
    <3>5. NumberLength(s, f) = E - 1
      <4>1. E - 1 \in 0 .. Len(s) /\ E - 1 \in a .. E - 1 /\ (E - 1) + 1 = E
        BY <1>1, <2>7, <3>0
      <4>2. r[E - 1] \in Accepting(f)
        BY <3>1, <4>1, AcceptingIs, Zenon
      <4>3. ASSUME NEW i \in E .. Len(s) PROVE r[i] \notin Accepting(f)
        BY <3>2, AcceptingIs, Zenon
      <4> QED
        BY <3>4, <4>1, <4>2, <4>3, LengthIs
    <3>6. ExponentIsRight(s, p, f) /\ EndOfNumber(s, p, f) = E
      BY <1>4, <2>5, <2>7 DEF ExponentIsRight, EndOfNumber, HasExponent, a, E
    <3>7. E \in p .. Len(s) + 1
      BY <1>1, <2>4, <3>0
    <3> QED
      BY <3>5, <3>6, <3>7
  <2>8. CASE E = a
    <3>0. a \in Nat /\ a > p /\ a <= Len(s) + 1
      BY <2>3
    <3>1. \A i \in a .. Len(s) : r[i] = "stuck"
      <4>1. CASE a <= Len(s)
        <5>1. a \in 1 .. Len(s) /\ a \in 0 .. Len(s)
          BY <1>1, <3>0, <4>1
        <5>2. r[a] = After(r[a - 1], s[a], f) /\ s[a] \notin Digit
          BY <1>2, <2>4, <2>8, <4>1, <5>1
        <5>3. r[a] = "stuck"
          <6>1. CASE r[a - 1] = "e"
            <7>1. s[a] \notin Digit \union {"+", "-"}
              BY <2>2, <4>1, <5>2, <6>1, Zenon
            <7>2. After("e", s[a], f) = "stuck"
              BY <7>1, NothingAfterE
            <7> QED
              BY <5>2, <6>1, <7>2
          <6>2. CASE r[a - 1] = "exp sign"
            <7>1. After("exp sign", s[a], f) = "stuck"
              BY <5>2, OnlyDigits, Zenon
            <7> QED
              BY <5>2, <6>2, <7>1, Zenon
          <6> QED
            BY <2>6, <6>1, <6>2, Zenon
        <5> QED
          BY <1>0, <5>1, <5>3, StaysStuck
      <4>2. CASE a > Len(s)
        BY <1>1, <3>0, <4>2
      <4> QED
        BY <1>1, <3>0, <4>1, <4>2
    <3>2. \A i \in p .. Len(s) : r[i] \in Late /\ r[i] # "exp"
      <4>1. ASSUME NEW i \in p .. Len(s)
            PROVE  i \in p .. a - 1 \/ i \in a .. Len(s)
        BY <1>1, <3>0
      <4>2. ASSUME NEW i \in p .. Len(s) PROVE r[i] \in {"e", "exp sign", "stuck"}
        BY <2>2, <3>1, <4>1, Zenon
      <4> QED
        BY <4>2, LateStates, Zenon
    <3>3. NumberLength(s, f) = IF "fixed" \in f THEN p - 1 ELSE 0
      BY <3>2, PlainLength
    <3>4. (ExponentIsRight(s, p, f) <=> "fixed" \in f) /\ EndOfNumber(s, p, f) = p
      BY <1>4, <2>5, <2>8, <2>4 DEF ExponentIsRight, EndOfNumber, HasExponent
    <3> QED
      BY <1>1, <3>3, <3>4
  <2> QED
    BY <2>3, <2>4, <2>7, <2>8
<1> QED
  BY <1>3, <1>4

-------------------------------------------------------------------------------
(* Where parse_number_string finds the integer's end and the number's, but *)
(* for an exponent.                                                        *)
EndOfInteger(s) == EndOfDigits(s, StartDigits(s))
HasPoint(s) == At(s, EndOfInteger(s), {"."})
EndOfMantissa(s) == IF HasPoint(s) THEN EndOfDigits(s, EndOfInteger(s) + 1) ELSE EndOfInteger(s)

(* Its check of the digits, by these positions. *)
DigitsPlaced(s, f, st, e, p) ==
    IF "json" \in f
    THEN e > st /\ (s[st] = "0" => e = st + 1) /\ (HasPoint(s) => p > e + 1)
    ELSE e > st \/ (HasPoint(s) /\ p > e + 1)

LEMMA ParserIs ==
    ASSUME NEW s \in Seq(STRING), s # << >>, NEW f,
           NEW st, st = StartDigits(s), NEW e, e = EndOfInteger(s), NEW p, p = EndOfMantissa(s)
    PROVE  /\ ParseNumberString(s, f).valid <=>
                 SignIsRight(s, f) /\ DigitsPlaced(s, f, st, e, p) /\ ExponentIsRight(s, p, f)
           /\ ParseNumberString(s, f).valid => ParseNumberString(s, f).lastmatch = EndOfNumber(s, p, f)
           /\ ParseNumberString(s, f).valid \in BOOLEAN
<1> DEFINE integer == SubSeq(s, st, e - 1)
           fraction == SubSeq(s, e + 1, p - 1)
           right == SignIsRight(s, f) /\ DigitsAreRight(integer, HasPoint(s), fraction, f)
                    /\ ExponentIsRight(s, p, f)
<1>1. /\ ParseNumberString(s, f).valid <=> right
      /\ right => ParseNumberString(s, f).lastmatch = EndOfNumber(s, p, f)
      /\ ParseNumberString(s, f).valid \in BOOLEAN
  BY DEF ParseNumberString, StartDigits, EndOfInteger, HasPoint, EndOfMantissa, EndOfNumber
<1>2. Len(s) \in Nat /\ Len(s) >= 1
  OBVIOUS
<1>3. st \in 1 .. Len(s) + 1
  BY <1>2 DEF StartDigits
<1>4. e \in st .. Len(s) + 1
  BY <1>3, EndOfDigitsIs DEF EndOfInteger
<1>5. p \in e .. Len(s) + 1 /\ (HasPoint(s) => p >= e + 1) /\ (~HasPoint(s) => p = e)
  <2>1. CASE HasPoint(s)
    <3>1. e \in 1 .. Len(s) /\ e + 1 \in 1 .. Len(s) + 1
      BY <1>2, <1>3, <1>4, <2>1 DEF HasPoint, At
    <3>2. p = EndOfDigits(s, e + 1)
      BY <2>1 DEF EndOfMantissa
    <3>3. p \in e + 1 .. Len(s) + 1
      BY <3>1, <3>2, EndOfDigitsIs
    <3> QED
      BY <1>2, <2>1, <3>1, <3>3
  <2>2. CASE ~HasPoint(s)
    <3>1. p = e
      BY <2>2 DEF EndOfMantissa
    <3> QED
      BY <1>2, <1>3, <1>4, <2>2, <3>1
  <2> QED
    BY <2>1, <2>2
<1>6. st \in Nat /\ st >= 1 /\ e \in Nat /\ e >= st /\ e <= Len(s) + 1 /\ p \in Nat /\ p <= Len(s) + 1
  BY <1>2, <1>3, <1>4, <1>5
<1>7. /\ integer \in Seq(STRING) /\ Len(integer) = e - st
      /\ e > st => integer[1] = s[st]
  BY <1>2, <1>6, SMTT(30)
<1>8. /\ fraction \in Seq(STRING)
      /\ Len(fraction) = IF p > e + 1 THEN p - (e + 1) ELSE 0
  BY <1>2, <1>6, SMTT(30)
<1>9. /\ integer # << >> <=> e > st
      /\ fraction # << >> <=> HasPoint(s) /\ p > e + 1
  <2>1. integer # << >> <=> Len(integer) # 0
    BY <1>7, NoneIsEmpty
  <2>2. fraction # << >> <=> Len(fraction) # 0
    BY <1>8, NoneIsEmpty
  <2> HIDE DEF integer, fraction
  <2> QED
    BY <1>5, <1>6, <1>7, <1>8, <2>1, <2>2, SMTT(30)
<1> HIDE DEF integer, fraction
<1>10. DigitsAreRight(integer, HasPoint(s), fraction, f) <=> DigitsPlaced(s, f, st, e, p)
  <2>1. e > st => (Len(integer) = 1 <=> e = st + 1)
    BY <1>6, <1>7
  <2> QED
    BY <1>7, <1>9, <2>1 DEF DigitsAreRight, DigitsPlaced
<1> QED
  BY <1>1, <1>10

-------------------------------------------------------------------------------
(* The states before the point and the exponent. *)
Early == {"start", "sign", "int", "zero"}

LEMMA EarlyIs ==
    ASSUME NEW q \in Early
    PROVE  q \notin {"leading zero", "point", "exp", "stuck", "e", "exp sign", "dot", "frac"}
BY Zenon DEF Early

LEMMA NoIntegerWalk ==
    ASSUME NEW s \in Seq(STRING), s # << >>, NEW f, NEW r, Walk(r, s, f),
           NEW st, st = StartDigits(s), EndOfDigits(s, st) = st, st <= Len(s)
    PROVE  r[st] = IF s[st] = "." /\ "json" \notin f THEN "dot" ELSE "stuck"
<1>1. IntegerStates(s, f, r, st, st)
  BY IntegerWalk
<1> QED
  BY <1>1, Zenon DEF IntegerStates

LEMMA IntegerEnds ==
    ASSUME NEW s \in Seq(STRING), s # << >>, NEW f, NEW r, Walk(r, s, f),
           NEW st, st = StartDigits(s), NEW e, e = EndOfDigits(s, st), e > st,
           "json" \in f /\ s[st] = "0" => e = st + 1
    PROVE  r[e - 1] \in {"int", "zero"} /\ \A i \in 0 .. e - 1 : r[i] \in Early
<1>0. IntegerStates(s, f, r, st, e)
  BY IntegerWalk
<1>1. st \in 1 .. Len(s) + 1 /\ e \in st .. Len(s) + 1
  BY <1>0, Zenon DEF IntegerStates
<1>2. \A i \in 0 .. st - 1 : r[i] \in {"start", "sign"}
  BY <1>0, Zenon DEF IntegerStates
<1>3. st \in Nat /\ e \in Nat /\ e > st
  BY <1>1
<1>4. ASSUME NEW i \in 0 .. e - 1 PROVE i \in 0 .. st - 1 \/ i \in st .. e - 1
  BY <1>3
<1>8. /\ e > st /\ "json" \in f /\ s[st] = "0" =>
            /\ r[st] = "zero"
            /\ e > st + 1 => r[st + 1] = "leading zero"
      /\ e > st /\ ~("json" \in f /\ s[st] = "0") => \A i \in st .. e - 1 : r[i] = "int"
  BY <1>0, Zenon DEF IntegerStates
<1>5. \A i \in st .. e - 1 : r[i] \in {"int", "zero"}
  <2>1. CASE "json" \in f /\ s[st] = "0"
    <3>1. r[st] = "zero"
      BY <1>8, <2>1, Zenon
    <3>2. e = st + 1
      BY <2>1
    <3>3. \A i \in st .. e - 1 : i = st
      BY <1>3, <3>2
    <3> QED
      BY <3>1, <3>3
  <2>2. CASE ~("json" \in f /\ s[st] = "0")
    <3>1. \A i \in st .. e - 1 : r[i] = "int"
      BY <1>8, <2>2, Zenon
    <3> QED
      BY <3>1
  <2> QED
    BY <2>1, <2>2
<1>6. e - 1 \in st .. e - 1
  BY <1>3
<1>7. \A i \in 0 .. e - 1 : r[i] \in Early
  BY <1>2, <1>4, <1>5 DEF Early
<1> QED
  BY <1>5, <1>6, <1>7

(* With a point: the digits after it end where the number is whole. *)
LEMMA FractionWhole ==
    ASSUME NEW s \in Seq(STRING), NEW f, NEW r, Walk(r, s, f),
           NEW e \in 1 .. Len(s), r[e] \in {"dot", "point"},
           NEW p, p = EndOfDigits(s, e + 1),
           \A i \in 0 .. e - 1 : r[i] \in Early,
           \/ p > e + 1
           \/ r[e] = "point" /\ "json" \notin f
    PROVE  p \in 2 .. Len(s) + 1 /\ Whole(r, s, f, p)
<1>1. p \in e + 1 .. Len(s) + 1
  BY FractionWalk
<1>2. \A i \in e + 1 .. p - 1 : r[i] = "frac"
  BY FractionWalk
<1>3. p <= Len(s) => s[p] \notin Digit
  BY FractionWalk
<1>4. e \in Nat /\ e >= 1 /\ p \in Nat /\ p >= e + 1 /\ p <= Len(s) + 1
  BY <1>1
<1>5. r[p - 1] = "frac" \/ (r[p - 1] = "point" /\ "json" \notin f)
  <2>1. CASE p > e + 1
    <3>1. p - 1 \in e + 1 .. p - 1
      BY <1>4, <2>1
    <3> QED
      BY <1>2, <3>1
  <2>2. CASE ~(p > e + 1)
    <3>1. p - 1 = e
      BY <1>4, <2>2
    <3> QED
      BY <2>2, <3>1
  <2> QED
    BY <2>1, <2>2
<1>6. ASSUME NEW i \in 0 .. p - 1 PROVE i \in 0 .. e - 1 \/ i = e \/ i \in e + 1 .. p - 1
  BY <1>4
<1>7. \A i \in 0 .. p - 1 : r[i] \in Early \/ r[i] = "frac" \/ (i = e /\ r[i] \in {"dot", "point"})
  BY <1>2, <1>6
<1>8. ASSUME "json" \in f PROVE Lawful(r, p)
  <2>1. p > e + 1
    BY <1>8
  <2>2. e + 1 \in 0 .. p - 1 /\ e + 1 \in e + 1 .. p - 1
    BY <1>4, <2>1
  <2>3. r[e + 1] = "frac"
    BY <1>2, <2>2
  <2>4. ASSUME NEW i \in 0 .. p - 1
        PROVE  r[i] # "leading zero" /\ (r[i] = "point" => i = e)
    BY <1>7, EarlyIs, Zenon
  <2>5. ASSUME NEW i \in 0 .. p - 1, r[i] = "point"
        PROVE  i + 1 \in 0 .. p - 1 /\ r[i + 1] # "stuck"
    <3>1. i = e
      BY <2>4, <2>5, Zenon
    <3>2. r[i + 1] = "frac" /\ i + 1 \in 0 .. p - 1
      BY <2>2, <2>3, <3>1
    <3> QED
      BY <3>2
  <2> QED
    BY <2>4, <2>5, Zenon DEF Lawful
<1>9. \A i \in 1 .. p - 1 : r[i] # "exp"
  <2>1. \A i \in 1 .. p - 1 : i \in 0 .. p - 1
    OBVIOUS
  <2> QED
    BY <1>7, <2>1, EarlyIs, Zenon
<1>10. Complete(r[p - 1], f) /\ r[p - 1] \notin {"int", "zero"}
  BY <1>5 DEF Complete
<1>11. p \in 2 .. Len(s) + 1
  BY <1>4
<1> QED
  BY <1>3, <1>8, <1>9, <1>10, <1>11 DEF Whole

(* A text whose sign and digits parse_number_string accepts. *)
LEMMA WholeWhenPlaced ==
    ASSUME NEW s \in Seq(STRING), s # << >>, NEW f, NEW r, Walk(r, s, f),
           NEW st, st = StartDigits(s), NEW e, e = EndOfInteger(s), NEW p, p = EndOfMantissa(s),
           DigitsPlaced(s, f, st, e, p)
    PROVE  p \in 2 .. Len(s) + 1 /\ Whole(r, s, f, p)
<1>0. e = EndOfDigits(s, st)
  BY DEF EndOfInteger
<1>7. IntegerStates(s, f, r, st, e)
  BY <1>0, IntegerWalk
<1>1. st \in 1 .. Len(s) + 1 /\ e \in st .. Len(s) + 1
  BY <1>7, Zenon DEF IntegerStates
<1>2. st \in Nat /\ st >= 1 /\ e \in Nat /\ e >= st /\ e <= Len(s) + 1 /\ Len(s) \in Nat
  BY <1>1
<1>3. HasPoint(s) => e \in 1 .. Len(s) /\ s[e] = "." /\ p = EndOfDigits(s, e + 1)
  BY <1>2 DEF HasPoint, At, EndOfMantissa
<1>4. \A i \in 1 .. Len(s) : r[i] = After(r[i - 1], s[i], f)
  BY DEF Walk
<1>5. CASE e > st
  <2>1. r[e - 1] \in {"int", "zero"} /\ \A i \in 0 .. e - 1 : r[i] \in Early
    <3>1. "json" \in f /\ s[st] = "0" => e = st + 1
      BY DEF DigitsPlaced
    <3> QED
      BY <1>0, <1>5, <3>1, IntegerEnds
  <2>2. CASE HasPoint(s)
    <3>1. r[e] = "point"
      BY <1>3, <1>4, <2>1, <2>2, PointAfterInteger
    <3>2. p > e + 1 \/ "json" \notin f
      BY <2>2 DEF DigitsPlaced
    <3> QED
      BY <1>3, <2>1, <2>2, <3>1, <3>2, FractionWhole
  <2>3. CASE ~HasPoint(s)
    <3>1. p = e
      BY <2>3 DEF EndOfMantissa
    <3>2. p \in 2 .. Len(s) + 1
      BY <1>2, <1>5, <3>1
    <3>3. p <= Len(s) => s[p] # "."
      BY <2>3, <3>1 DEF HasPoint, At
    <3>4. p <= Len(s) => s[p] \notin Digit
      BY <1>0, <1>1, <3>1, EndOfDigitsIs
    <3>5. Lawful(r, p)
      BY <2>1, <3>1, EarlyIs, Zenon DEF Lawful
    <3>6. \A i \in 1 .. p - 1 : r[i] # "exp"
      <4>1. \A i \in 1 .. p - 1 : i \in 0 .. e - 1
        BY <3>1
      <4> QED
        BY <2>1, <4>1, EarlyIs, Zenon
    <3>7. Complete(r[p - 1], f)
      BY <2>1, <3>1 DEF Complete
    <3> QED
      BY <3>2, <3>3, <3>4, <3>5, <3>6, <3>7 DEF Whole
  <2> QED
    BY <2>2, <2>3
<1>6. CASE ~(e > st)
  <2>1. e = st
    BY <1>2, <1>6
  <2>2. "json" \notin f /\ HasPoint(s) /\ p > e + 1
    BY <1>6 DEF DigitsPlaced
  <2>3. r[e] = "dot"
    <3>1. st <= Len(s) /\ s[st] = "."
      BY <1>2, <1>3, <2>1, <2>2
    <3>2. r[st] = IF s[st] = "." /\ "json" \notin f THEN "dot" ELSE "stuck"
      BY <1>0, <2>1, <3>1, NoIntegerWalk
    <3> QED
      BY <2>1, <2>2, <3>1, <3>2
  <2>4. \A i \in 0 .. e - 1 : r[i] \in Early
    <3>1. \A i \in 0 .. st - 1 : r[i] \in {"start", "sign"}
      BY <1>7, Zenon DEF IntegerStates
    <3> QED
      BY <2>1, <3>1 DEF Early
  <2> QED
    BY <1>3, <2>2, <2>3, <2>4, FractionWhole
<1> QED
  BY <1>5, <1>6

(* A text without an accepting state before it gets stuck. *)
LEMMA StuckLength ==
    ASSUME NEW s \in Seq(STRING), NEW f, NEW r, r = Run(s, f), NEW a \in 1 .. Len(s) + 1,
           a <= Len(s) => r[a] = "stuck",
           \A i \in 1 .. a - 1 : r[i] \notin Accepting(f)
    PROVE  NumberLength(s, f) = 0
<1>1. Walk(r, s, f)
  BY IsWalk
<1>2. a \in Nat /\ Len(s) \in Nat
  OBVIOUS
<1>3. \A i \in a .. Len(s) : r[i] = "stuck"
  <2>1. CASE a <= Len(s)
    <3>1. a \in 0 .. Len(s)
      BY <2>1
    <3> QED
      BY <1>1, <2>1, <3>1, StaysStuck
  <2>2. CASE ~(a <= Len(s))
    BY <1>2, <2>2
  <2> QED
    BY <2>1, <2>2
<1>4. "stuck" \notin Accepting(f)
  BY AcceptingIs, Zenon
<1>5. ASSUME NEW i \in 1 .. Len(s) PROVE r[i] \notin Accepting(f)
  <2>1. i \in 1 .. a - 1 \/ i \in a .. Len(s)
    BY <1>2
  <2>2. CASE i \in 1 .. a - 1
    BY <2>2
  <2>3. CASE i \in a .. Len(s)
    BY <1>3, <1>4, <2>3
  <2> QED
    BY <2>1, <2>2, <2>3
<1> QED
  BY <1>5, NoLength

(* A text whose sign or digits parse_number_string refuses. *)
LEMMA NoLengthUnlessPlaced ==
    ASSUME NEW s \in Seq(STRING), s # << >>, NEW f, NEW r, r = Run(s, f),
           NEW st, st = StartDigits(s), NEW e, e = EndOfInteger(s), NEW p, p = EndOfMantissa(s),
           ~(SignIsRight(s, f) /\ DigitsPlaced(s, f, st, e, p))
    PROVE  NumberLength(s, f) = 0
<1>0. e = EndOfDigits(s, st) /\ Walk(r, s, f)
  BY IsWalk DEF EndOfInteger
<1>7. IntegerStates(s, f, r, st, e)
  BY <1>0, IntegerWalk
<1>1. st \in 1 .. Len(s) + 1 /\ e \in st .. Len(s) + 1
  BY <1>7, Zenon DEF IntegerStates
<1>2. /\ st \in Nat /\ st >= 1 /\ e \in Nat /\ e >= st /\ e <= Len(s) + 1
      /\ Len(s) \in Nat /\ Len(s) >= 1
  BY <1>1
<1>3. HasPoint(s) <=> e <= Len(s) /\ s[e] = "."
  BY DEF HasPoint, At
<1>4. HasPoint(s) => e \in 1 .. Len(s) /\ s[e] = "." /\ p = EndOfDigits(s, e + 1)
  BY <1>2, <1>3 DEF EndOfMantissa
<1>5. \A i \in 1 .. st - 1 : r[i] \notin Accepting(f)
  <2>3. \A i \in 0 .. st - 1 : r[i] \in {"start", "sign"}
    BY <1>7, Zenon DEF IntegerStates
  <2>4. \A i \in 1 .. st - 1 : i \in 0 .. st - 1
    OBVIOUS
  <2>1. \A i \in 1 .. st - 1 : r[i] \in {"start", "sign"}
    BY <2>3, <2>4
  <2>2. "start" \notin Accepting(f) /\ "sign" \notin Accepting(f) /\ "dot" \notin Accepting(f)
    BY DEF Accepting
  <2> QED
    BY <2>1, <2>2
<1>6. \A i \in 1 .. Len(s) : r[i] = After(r[i - 1], s[i], f)
  BY <1>0 DEF Walk
<1>8. e > st => SignIsRight(s, f)
  <2> SUFFICES ASSUME e > st, s[1] = "-" PROVE At(s, 2, DOMAIN Numeral)
    BY DEF SignIsRight, At
  <2>1. st = 2
    BY DEF StartDigits
  <2>2. 2 \in st .. e - 1 /\ 2 <= Len(s)
    BY <1>2, <2>1
  <2>3. s[2] \in Digit
    BY <1>0, <1>1, <2>2, EndOfDigitsIs
  <2> QED
    BY <2>2, <2>3, DigitsAre DEF At
<1>9. CASE e > st
  <2>1. "json" \in f /\ ((s[st] = "0" /\ e > st + 1) \/ (HasPoint(s) /\ ~(p > e + 1)))
    BY <1>2, <1>8, <1>9 DEF DigitsPlaced
  <2>2. CASE s[st] = "0" /\ e > st + 1
    <3>1. r[st + 1] = "leading zero"
      <4>1. e > st /\ "json" \in f /\ s[st] = "0" => (e > st + 1 => r[st + 1] = "leading zero")
        BY <1>7, Zenon DEF IntegerStates
      <4> QED
        BY <1>9, <2>1, <2>2, <4>1, Zenon
    <3>2. st + 1 \in DOMAIN r
      BY <1>0, <1>2, <2>2 DEF Walk
    <3>3. Forbidden(r, f)
      BY <2>1, <3>1, <3>2, Zenon DEF Forbidden
    <3> QED
      BY <3>3, NoLength
  <2>3. CASE ~(s[st] = "0" /\ e > st + 1) /\ HasPoint(s) /\ ~(p > e + 1)
    <3>1. s[st] = "0" => e = st + 1
      BY <1>2, <1>9, <2>3
    <3>2. r[e - 1] \in {"int", "zero"}
      BY <1>0, <1>9, <3>1, IntegerEnds
    <3>3. r[e] = "point"
      BY <1>4, <1>6, <2>3, <3>2, PointAfterInteger
    <3>4. p \in e + 1 .. Len(s) + 1
      BY <1>0, <1>4, <2>3, <3>3, FractionWalk
    <3>5. p = e + 1
      BY <1>2, <2>3, <3>4
    <3>6. p <= Len(s) => r[p] = "stuck"
      BY <1>0, <1>4, <2>1, <2>3, <3>3, <3>5, FractionWalk
    <3>7. DOMAIN r = 0 .. Len(s)
      BY <1>0 DEF Walk
    <3>8. e \in DOMAIN r /\ (e + 1 \in DOMAIN r => r[e + 1] = "stuck")
      BY <1>2, <1>3, <2>3, <3>5, <3>6, <3>7
    <3>9. Forbidden(r, f)
      BY <2>1, <3>3, <3>8, Zenon DEF Forbidden
    <3> QED
      BY <3>9, NoLength
  <2> QED
    BY <2>1, <2>2, <2>3
<1>10. CASE ~(e > st)
  <2>1. e = st
    BY <1>2, <1>10
  <2>2. st <= Len(s) => r[st] = IF s[st] = "." /\ "json" \notin f THEN "dot" ELSE "stuck"
    BY <1>0, <2>1, NoIntegerWalk
  <2>3. CASE "json" \notin f /\ HasPoint(s)
    <3>1. st <= Len(s) /\ s[st] = "." /\ r[e] = "dot"
      BY <1>3, <2>1, <2>2, <2>3
    <3>2. SignIsRight(s, f)
      BY <2>3, <3>1 DEF SignIsRight, StartDigits, At
    <3>3. ~(p > e + 1)
      BY <2>3, <3>2 DEF DigitsPlaced
    <3>4. p \in e + 1 .. Len(s) + 1
      BY <1>0, <1>4, <2>3, <3>1, FractionWalk
    <3>5. p = e + 1
      BY <1>2, <3>3, <3>4
    <3>6. p <= Len(s) => r[p] = "stuck"
      BY <1>0, <1>4, <2>3, <3>1, <3>5, FractionWalk
    <3>7. ASSUME NEW i \in 1 .. p - 1 PROVE r[i] \notin Accepting(f)
      <4>1. i \in 1 .. st - 1 \/ i = e
        BY <1>2, <2>1, <3>5
      <4>2. "dot" \notin Accepting(f)
        BY DEF Accepting
      <4> QED
        BY <1>5, <3>1, <4>1, <4>2
    <3>8. p \in 1 .. Len(s) + 1
      BY <1>2, <3>4
    <3> QED
      BY <3>6, <3>7, <3>8, StuckLength
  <2>4. CASE ~("json" \notin f /\ HasPoint(s))
    <3>1. st <= Len(s) => r[st] = "stuck"
      BY <1>3, <2>1, <2>2, <2>4
    <3> QED
      BY <1>1, <1>5, <3>1, StuckLength
  <2> QED
    BY <2>3, <2>4
<1> QED
  BY <1>9, <1>10

(* parse_number_string accepts exactly the texts that begin with a number  *)
(* of the grammar, and ends where the longest such number ends: for every  *)
(* text, and every format that asks for a fixed or a scientific number.    *)
THEOREM ParserIsRight ==
    ASSUME NEW s \in Seq(STRING), s # << >>, NEW f, "fixed" \in f \/ "scientific" \in f
    PROVE  /\ NumberLength(s, f) \in Nat
           /\ ParseNumberString(s, f).valid <=> NumberLength(s, f) > 0
           /\ ParseNumberString(s, f).valid =>
                 ParseNumberString(s, f).lastmatch = NumberLength(s, f) + 1
<1> DEFINE st == StartDigits(s)
           e == EndOfInteger(s)
           p == EndOfMantissa(s)
           r == Run(s, f)
           valid == ParseNumberString(s, f).valid
           lastmatch == ParseNumberString(s, f).lastmatch
<1>1. /\ valid <=> SignIsRight(s, f) /\ DigitsPlaced(s, f, st, e, p) /\ ExponentIsRight(s, p, f)
      /\ valid => lastmatch = EndOfNumber(s, p, f)
  BY ParserIs
<1>2. CASE SignIsRight(s, f) /\ DigitsPlaced(s, f, st, e, p)
  <2>1. Walk(r, s, f)
    BY IsWalk
  <2>2. p \in 2 .. Len(s) + 1 /\ Whole(r, s, f, p)
    BY <1>2, <2>1, WholeWhenPlaced
  <2> HIDE DEF p, r, valid, lastmatch, st, e
  <2>3. /\ ExponentIsRight(s, p, f) => NumberLength(s, f) = EndOfNumber(s, p, f) - 1
        /\ ~ExponentIsRight(s, p, f) => NumberLength(s, f) = 0
        /\ EndOfNumber(s, p, f) \in p .. Len(s) + 1
    BY <2>2, ExponentWalk DEF r
  <2>4. EndOfNumber(s, p, f) \in Nat /\ EndOfNumber(s, p, f) >= 2
    BY <2>2, <2>3
  <2>5. CASE ExponentIsRight(s, p, f)
    <3>1. valid /\ lastmatch = EndOfNumber(s, p, f)
      BY <1>1, <1>2, <2>5
    <3>2. NumberLength(s, f) \in Nat /\ NumberLength(s, f) > 0
          /\ EndOfNumber(s, p, f) = NumberLength(s, f) + 1
      BY <2>3, <2>4, <2>5
    <3> QED
      BY <3>1, <3>2 DEF valid, lastmatch
  <2>6. CASE ~ExponentIsRight(s, p, f)
    <3>1. ~valid /\ NumberLength(s, f) = 0
      BY <1>1, <2>3, <2>6
    <3> QED
      BY <3>1 DEF valid, lastmatch
  <2> QED
    BY <2>5, <2>6
<1>3. CASE ~(SignIsRight(s, f) /\ DigitsPlaced(s, f, st, e, p))
  <2>1. NumberLength(s, f) = 0
    BY <1>3, NoLengthUnlessPlaced
  <2>2. ~valid
    BY <1>1, <1>3
  <2> QED
    BY <2>1, <2>2
<1> QED
  BY <1>2, <1>3

-------------------------------------------------------------------------------
(* from_chars itself.  What the variable held before is no float's bits.   *)
LEMMA TwoToThe == ASSUME NEW n \in Nat PROVE 2 ^ n \in Nat \ {0}
<1>1. 1 .. n \in SUBSET Nat /\ IsFiniteSet(1 .. n) /\ Cardinality(1 .. n) = n
  BY FS_Interval
<1>2. Cardinality(SUBSET (1 .. n)) = 2 ^ n /\ IsFiniteSet(SUBSET (1 .. n))
  <2> DEFINE S == 1 .. n
  <2> HIDE DEF S
  <2>1. Cardinality(SUBSET S) = 2 ^ Cardinality(S) /\ IsFiniteSet(SUBSET S)
    BY <1>1, FS_SUBSET DEF S
  <2> QED
    BY <1>1, <2>1, Zenon DEF S
<1>3. Cardinality(SUBSET (1 .. n)) \in Nat
  BY <1>2, FS_CardinalityType
<1>4. Cardinality(SUBSET (1 .. n)) # 0
  BY <1>2, FS_EmptySet
<1> QED
  BY <1>2, <1>3, <1>4

LEMMA FormatSizes ==
    ASSUME NEW b \in {Float, Double}
    PROVE  b.mantissa_explicit_bits \in Nat \ {0} /\ b.infinite_power \in Nat \ {0}
<1>1. /\ FloatMantissa \in Nat \ {0} /\ FloatInfinite \in Nat \ {0}
      /\ DoubleMantissa \in Nat \ {0} /\ DoubleInfinite \in Nat \ {0}
  BY SizesAssumption
<1> QED
  BY <1>1 DEF Float, Double, BinaryFormat

LEMMA InfNanBits ==
    ASSUME format \in {Float, Double}, NEW s, NEW v \in InfNan(s)
    PROVE  v[1] # old
<1> DEFINE m == format.mantissa_explicit_bits
           i == format.infinite_power
<1>1. m \in Nat \ {0} /\ i \in Nat \ {0}
  BY FormatSizes
<1> HIDE DEF m, i
<1>2. 2 ^ m \in Nat /\ 2 ^ (m - 1) \in Nat
  <2>1. m - 1 \in Nat
    BY <1>1
  <2> QED
    BY <1>1, <2>1, TwoToThe
<1>3. i * 2 ^ m \in Nat
  BY <1>1, <1>2
<1>4. Infinity(format) \in Nat /\ NaN \in Nat
  BY <1>2, <1>3 DEF Infinity, NaN, m, i
<1>5. \E negative : v[1] = Signed(negative, NaN) \/ v[1] = Signed(negative, Infinity(format))
  BY DEF InfNan
<1>6. PICK bits \in Nat : \E negative : v[1] = Signed(negative, bits)
  BY <1>4, <1>5
<1>7. v[1].bits = bits /\ old.bits = -1
  BY <1>6 DEF Signed, old
<1> QED
  BY <1>6, <1>7

(* No text, no number. *)
LEMMA NothingIsNoNumber == ASSUME NEW f PROVE NumberLength(<< >>, f) = 0
<1>1. << >> \in Seq(STRING) /\ Len(<< >>) = 0
  OBVIOUS
<1>2. Walk(Run(<< >>, f), << >>, f)
  BY <1>1, IsWalk
<1>3. \A i \in 1 .. Len(<< >>) : Run(<< >>, f)[i] \notin Accepting(f)
  BY <1>1
<1> QED
  BY <1>1, <1>3, NoLength

(* Until it returns, the call has set nothing of the caller's, and what it *)
(* goes by is what the parser said of this text.                           *)
Called ==
    /\ text \in Seq(STRING) /\ fmt \cap general # {} /\ format \in {Float, Double}
    /\ pc \in {"called", "parsed", "computed", "rechecked", "done"}
    /\ pc # "done" => value = old
    /\ pc \in {"parsed", "computed", "rechecked"} =>
           text # << >> /\ pns = ParseNumberString(text, fmt)
    /\ pc \in {"computed", "rechecked"} => pns.valid

LEMMA ParsedRight ==
    ASSUME Called, pc \in {"parsed", "computed", "rechecked"}
    PROVE  /\ Length \in Nat
           /\ pns.valid <=> Length > 0
           /\ pns.valid => pns.lastmatch = Length + 1
<1>1. text \in Seq(STRING) /\ text # << >> /\ pns = ParseNumberString(text, fmt)
  BY DEF Called
<1>2. "fixed" \in fmt \/ "scientific" \in fmt
  BY DEF Called, general
<1> QED
  BY <1>1, <1>2, ParserIsRight DEF Length

(* A return with the parser's end of the number. *)
LEMMA ReturnsNumber ==
    ASSUME Called, pc \in {"parsed", "computed", "rechecked"}, pns.valid,
           NEW v, NEW ec \in {"none", "range"}, Return(v, pns.lastmatch, ec)
    PROVE  TakesLongestNumber'
<1>1. Length \in Nat /\ Length > 0 /\ pns.lastmatch = Length + 1
  BY ParsedRight
<1>2. Length' = Length
  BY DEF Return, input, Length
<1>3. result'.ptr = pns.lastmatch /\ result'.ec = ec
  BY DEF Return
<1>4. ec # "invalid"
  OBVIOUS
<1> QED
  BY <1>1, <1>2, <1>3, <1>4 DEF TakesLongestNumber

LEMMA CalledInit == CallInit => Called /\ TakesLongestNumber
<1> SUFFICES ASSUME CallInit PROVE Called /\ TakesLongestNumber
  OBVIOUS
<1>1. text \in Seq(STRING) /\ fmt \cap general # {}
  BY InputsAssumption DEF CallInit
<1>2. pc = "called" /\ value = old /\ format \in {Float, Double}
  BY DEF CallInit
<1> QED
  BY <1>1, <1>2 DEF Called, TakesLongestNumber

LEMMA CalledNext == Called /\ TakesLongestNumber /\ [CallNext]_callVars => Called' /\ TakesLongestNumber'
<1> SUFFICES ASSUME Called, TakesLongestNumber, [CallNext]_callVars
             PROVE  Called' /\ TakesLongestNumber'
  OBVIOUS
<1>1. ASSUME UNCHANGED <<text, fmt, format>>
      PROVE  /\ text' \in Seq(STRING) /\ fmt' \cap general # {} /\ format' \in {Float, Double}
             /\ Length' = Length
  BY <1>1 DEF Called, Length
<1>2. CASE NoText
  <2>1. UNCHANGED <<text, fmt, format>> /\ pc' = "done"
    BY <1>2 DEF NoText, Return, input
  <2>2. Length = 0
    BY <1>2, NothingIsNoNumber DEF NoText, Length
  <2>3. value = old /\ value' = value /\ result'.ptr = 1 /\ result'.ec = "invalid"
    BY <1>2 DEF NoText, Return, Called
  <2> QED
    BY <1>1, <2>1, <2>2, <2>3 DEF Called, TakesLongestNumber, old
<1>3. CASE Parse
  <2>1. UNCHANGED <<text, fmt, format, value>> /\ pc = "called" /\ pc' = "parsed"
    BY <1>3 DEF Parse, input
  <2>2. text # << >> /\ pns' = ParseNumberString(text, fmt)
    BY <1>3 DEF Parse
  <2> QED
    BY <1>1, <2>1, <2>2 DEF Called, TakesLongestNumber, old
<1>4. CASE NoNumber
  <2>1. pc = "parsed" /\ ~pns.valid
    BY <1>4 DEF NoNumber
  <2>2. Length = 0
    BY <2>1, ParsedRight
  <2>3. UNCHANGED <<text, fmt, format>> /\ pc' = "done"
    BY <1>4 DEF NoNumber, Return, input
  <2>4. value = old
    BY <2>1 DEF Called
  <2>5. CASE Return(value, 1, "invalid")
    <3>1. value' = value /\ result'.ptr = 1 /\ result'.ec = "invalid"
      BY <2>5 DEF Return
    <3> QED
      BY <1>1, <2>2, <2>3, <2>4, <3>1 DEF Called, TakesLongestNumber, old
  <2>6. CASE \E r \in InfNan(text) : Return(r[1], r[2], "none")
    <3>1. PICK r \in InfNan(text) : Return(r[1], r[2], "none")
      BY <2>6
    <3>2. r[1] # old
      BY InfNanBits DEF Called
    <3>3. value' = r[1] /\ result'.ec = "none"
      BY <3>1 DEF Return
    <3> QED
      <4>0. value' # old' /\ result'.ec # "invalid" 
        BY <3>2, <3>3 DEF old
      <4>3. ~(Length' > 0)
        BY <1>1, <2>2, <2>3
      <4>1. TakesLongestNumber'
        BY <4>0, <4>3, Zenon DEF TakesLongestNumber
      <4>2. Called'
        BY <1>1, <2>3 DEF Called
      <4> QED
        BY <4>1, <4>2
  <2> QED
    BY <1>4, <2>5, <2>6 DEF NoNumber
<1>5. CASE FastPath
  <2> DEFINE v == Signed(pns.negative, Rounded(Exact(DigitsOf(pns.mantissa), pns.exponent)))
  <2>1. pc = "parsed" /\ pns.valid /\ Return(v, pns.lastmatch, "none")
    BY <1>5 DEF FastPath, CanMultiply
  <2> HIDE DEF v
  <2>2. UNCHANGED <<text, fmt, format>> /\ pc' = "done"
    BY <2>1 DEF Return, input
  <2>3. TakesLongestNumber'
    BY <2>1, ReturnsNumber
  <2> QED
    BY <1>1, <2>2, <2>3 DEF Called
<1>6. CASE Compute
  <2>1. UNCHANGED <<text, fmt, format, value, pns>> /\ pc = "parsed" /\ pc' = "computed" /\ pns.valid
    BY <1>6 DEF Compute, input
  <2> QED
    BY <1>1, <2>1 DEF Called, TakesLongestNumber, old
<1>7. CASE Recheck
  <2>1. UNCHANGED <<text, fmt, format, value, pns>> /\ pc = "computed" /\ pc' = "rechecked"
    BY <1>7 DEF Recheck, input
  <2> QED
    BY <1>1, <2>1 DEF Called, TakesLongestNumber, old
<1>8. CASE LongWay
  <2>1. UNCHANGED <<text, fmt, format, value, pns, pc>> /\ pc = "rechecked"
    BY <1>8 DEF LongWay, input
  <2> QED
    BY <1>1, <2>1 DEF Called, TakesLongestNumber, old
<1>9. CASE Finish
  <2> DEFINE v == Signed(pns.negative, ToFloat(format, am))
             ec == IF \/ pns.mantissa # 0 /\ am = Adjusted(0, 0)
                      \/ am.power2 = format.infinite_power
                   THEN "range" ELSE "none"
  <2>1. pc = "rechecked" /\ Return(v, pns.lastmatch, ec)
    BY <1>9 DEF Finish
  <2>4. ec \in {"none", "range"}
    OBVIOUS
  <2> HIDE DEF v, ec
  <2>2. UNCHANGED <<text, fmt, format>> /\ pc' = "done" /\ pns.valid
    BY <2>1 DEF Return, input, Called
  <2>3. TakesLongestNumber'
    BY <2>1, <2>2, <2>4, ReturnsNumber
  <2> QED
    BY <1>1, <2>2, <2>3 DEF Called
<1>10. CASE UNCHANGED callVars
  BY <1>10 DEF callVars, Called, TakesLongestNumber, Length, old
<1> QED
  BY <1>2, <1>3, <1>4, <1>5, <1>6, <1>7, <1>8, <1>9, <1>10 DEF CallNext, Done

(* from_chars takes the longest number that the text begins with; if there *)
(* is none, ptr stays at the beginning and the variable keeps what it      *)
(* held, unless the text is an inf or a nan.                               *)
THEOREM CallTakesLongestNumber == CallSpec => []TakesLongestNumber
<1>1. CallSpec => [](Called /\ TakesLongestNumber)
  BY CalledInit, CalledNext, PTL DEF CallSpec
<1> QED
  BY <1>1, PTL

-------------------------------------------------------------------------------
(* The arithmetic below from_chars: full_multiplication of float_common.h  *)
(* and the vectors of bigint.h, for every size of words and of vectors.    *)
(* First what the prover does not know of numbers.                         *)

(* Induction up to n, for a set. *)
LEMMA UpTo ==
    ASSUME NEW n \in Nat, NEW G \in SUBSET Nat, 0 \in G,
           \A i \in 1 .. n : i - 1 \in G => i \in G
    PROVE  0 .. n \subseteq G
<1> DEFINE Bad == {i \in 0 .. n : i \notin G}
<1> SUFFICES ASSUME Bad # {} PROVE FALSE
  OBVIOUS
<1>1. PICK i \in Bad : \A k \in Bad : i <= k
  <2>1. Bad \in SUBSET Nat
    OBVIOUS
  <2> HIDE DEF Bad
  <2> QED
    BY <2>1, Smallest
<1>2. i # 0
  OBVIOUS
<1>3. i \in 1 .. n /\ i - 1 \in 0 .. n /\ i - 1 < i
  BY <1>2
<1>4. i - 1 \notin Bad
  <2> HIDE DEF Bad
  <2> QED
    BY <1>1, <1>3
<1> QED
  BY <1>3, <1>4

(* The subsets of 1 .. n + 1 are those of 1 .. n, each with and without    *)
(* n + 1.                                                                  *)
LEMMA Doubling == ASSUME NEW n \in Nat PROVE 2 ^ (n + 1) = 2 * 2 ^ n
<1> DEFINE S == SUBSET (1 .. n)
           T == {t \union {n + 1} : t \in S}
           f == [t \in S |-> t \union {n + 1}]
<1>1. IsFiniteSet(1 .. n) /\ Cardinality(1 .. n) = n
      /\ IsFiniteSet(1 .. n + 1) /\ Cardinality(1 .. n + 1) = n + 1
  BY FS_Interval
<1>2. Cardinality(S) = 2 ^ n /\ IsFiniteSet(S)
  <2> DEFINE N == 1 .. n
  <2> HIDE DEF N
  <2>1. Cardinality(SUBSET N) = 2 ^ Cardinality(N) /\ IsFiniteSet(SUBSET N)
    BY <1>1, FS_SUBSET DEF N
  <2> QED
    BY <1>1, <2>1, Zenon DEF N
<1>3. Cardinality(SUBSET (1 .. n + 1)) = 2 ^ (n + 1)
  <2> DEFINE N == 1 .. n + 1
  <2> HIDE DEF N
  <2>1. Cardinality(SUBSET N) = 2 ^ Cardinality(N)
    BY <1>1, FS_SUBSET DEF N
  <2> QED
    BY <1>1, <2>1, Zenon DEF N
<1>4. SUBSET (1 .. n + 1) = S \union T
  <2>1. ASSUME NEW t \in SUBSET (1 .. n + 1) PROVE t \in S \union T
    <3>1. CASE n + 1 \in t
      <4>1. t \ {n + 1} \in S
        BY <3>1
      <4>2. t = (t \ {n + 1}) \union {n + 1}
        BY <3>1
      <4> QED
        BY <4>1, <4>2
    <3>2. CASE n + 1 \notin t
      BY <3>2
    <3> QED
      BY <3>1, <3>2
  <2>2. ASSUME NEW t \in S \union T PROVE t \in SUBSET (1 .. n + 1)
    OBVIOUS
  <2> QED
    BY <2>1, <2>2
<1>5. S \cap T = {}
  <2>1. ASSUME NEW t \in S PROVE n + 1 \notin t
    OBVIOUS
  <2> QED
    BY <2>1
<1>6. f \in Bijection(S, T)
  <2>1. f \in [S -> T]
    OBVIOUS
  <2>2. ASSUME NEW t \in S, NEW u \in S, f[t] = f[u] PROVE t = u
    <3>1. n + 1 \notin t /\ n + 1 \notin u
      OBVIOUS
    <3>2. t \union {n + 1} = u \union {n + 1}
      BY <2>2
    <3> QED
      BY <3>1, <3>2
  <2>3. ASSUME NEW v \in T PROVE \E t \in S : f[t] = v
    OBVIOUS
  <2> QED
    BY <2>1, <2>2, <2>3, Fun_IsBij
<1> HIDE DEF S, T, f
<1>7. IsFiniteSet(T) /\ Cardinality(T) = Cardinality(S)
  BY <1>2, <1>6, FS_Bijection DEF ExistsBijection
<1>8. Cardinality(S \union T) = Cardinality(S) + Cardinality(T) - Cardinality(S \cap T)
  BY <1>2, <1>7, FS_Union
<1>9. Cardinality({}) = 0
  BY FS_EmptySet
<1>10. 2 ^ n \in Nat
  BY TwoToThe
<1>11. 2 ^ (n + 1) = 2 ^ n + 2 ^ n - 0
  <2>1. Cardinality(T) = 2 ^ n /\ Cardinality(S \cap T) = 0
    BY <1>2, <1>5, <1>7, <1>9, Zenon
  <2>2. Cardinality(S \union T) = 2 ^ (n + 1)
    BY <1>3, <1>4, Zenon
  <2> QED
    BY <1>2, <1>8, <2>1, <2>2, Zenon
<1> QED
  BY <1>10, <1>11

(* By induction on n, from Doubling. *)
LEMMA PowersOfTwo == ASSUME NEW m \in Nat, NEW n \in Nat PROVE 2 ^ (m + n) = 2 ^ m * 2 ^ n
<1> DEFINE Bad == {k \in Nat : 2 ^ (m + k) # 2 ^ m * 2 ^ k}
<1>1. Bad = {}
  <2> SUFFICES ASSUME Bad # {} PROVE FALSE
    OBVIOUS
  <2>1. Bad \in SUBSET Nat
    OBVIOUS
  <2>2. PICK k \in Bad : \A i \in Bad : k <= i
    <3> HIDE DEF Bad
    <3> QED
      BY <2>1, Smallest
  <2>3. 2 ^ m \in Nat
    BY TwoToThe
  <2>4. k # 0
    <3>1. m + 0 = m /\ 2 ^ 0 = 1 /\ 2 ^ m * 1 = 2 ^ m
      BY <2>3
    <3> QED
      BY <3>1
  <2>5. k - 1 \in Nat /\ k - 1 < k /\ (k - 1) + 1 = k /\ m + (k - 1) \in Nat
        /\ (m + (k - 1)) + 1 = m + k
    BY <2>1, <2>4
  <2>6. 2 ^ (m + (k - 1)) = 2 ^ m * 2 ^ (k - 1)
    <3>1. k - 1 \notin Bad
      <4> HIDE DEF Bad
      <4> QED
        BY <2>1, <2>2, <2>5
    <3> QED
      BY <2>5, <3>1
  <2>7. 2 ^ k = 2 * 2 ^ (k - 1) /\ 2 ^ (m + k) = 2 * 2 ^ (m + (k - 1))
    <3>1. 2 ^ ((k - 1) + 1) = 2 * 2 ^ (k - 1)
      BY <2>5, Doubling
    <3>2. 2 ^ ((m + (k - 1)) + 1) = 2 * 2 ^ (m + (k - 1))
      BY <2>5, Doubling
    <3> QED
      BY <2>5, <3>1, <3>2
  <2>8. 2 ^ (k - 1) \in Nat
    BY <2>5, TwoToThe
  <2>9. 2 ^ (m + k) = 2 ^ m * 2 ^ k
    BY <2>3, <2>6, <2>7, <2>8
  <2> QED
    BY <2>2, <2>9
<1> QED
  BY <1>1

-------------------------------------------------------------------------------
LEMMA DivMod ==
    ASSUME NEW x \in Nat, NEW m \in Nat \ {0}
    PROVE  x \div m \in Nat /\ x % m \in Nat /\ x % m < m /\ x = m * (x \div m) + (x % m)
OBVIOUS

(* Half a word, twice, is a word. *)
LEMMA WordIs ==
    /\ Word \in Nat \ {0} /\ Limb \in Nat \ {0} /\ Limb > 1
    /\ 2 ^ (WordBits \div 2) = Limb
    /\ Word = Limb * Limb
<1>1. LimbBits \in Nat \ {0} /\ WordBits \in Nat \ {0} /\ WordBits = LimbBits + LimbBits
  BY SizesAssumption
<1>2. WordBits \div 2 = LimbBits
  BY <1>1
<1>3. Limb \in Nat \ {0} /\ Word \in Nat \ {0}
  BY <1>1, TwoToThe DEF Limb, Word
<1>4. Word = Limb * Limb
  BY <1>1, PowersOfTwo DEF Limb, Word
<1>5. Limb > 1
  <2>1. LimbBits - 1 \in Nat /\ (LimbBits - 1) + 1 = LimbBits
    BY <1>1
  <2>2. 2 ^ LimbBits = 2 * 2 ^ (LimbBits - 1)
    <3>1. 2 ^ ((LimbBits - 1) + 1) = 2 * 2 ^ (LimbBits - 1)
      BY <2>1, Doubling
    <3> QED
      BY <2>1, <3>1
  <2>3. 2 ^ (LimbBits - 1) \in Nat \ {0}
    BY <2>1, TwoToThe
  <2> QED
    BY <2>2, <2>3 DEF Limb
<1> QED
  BY <1>2, <1>3, <1>4, <1>5 DEF Limb

(* A sum of two words that wraps around is less than either. *)
(* Unsigned addition wrapped around when the sum is less than a term: what *)
(* umul128_generic tests for a carry.                                      *)
LEMMA CarryOfSum ==
    ASSUME NEW m \in Nat \ {0}, NEW x \in Nat, x < m, NEW y \in Nat, y < m
    PROVE  LET sum == (x + y) % m
           IN  /\ sum \in Nat /\ sum < m
               /\ x + y = sum + m * (IF sum < x THEN 1 ELSE 0)
<1>1. CASE x + y < m
  <2>1. (x + y) % m = x + y
    BY <1>1
  <2> QED
    BY <1>1, <2>1
<1>2. CASE x + y >= m
  <2>1. x + y = m * 1 + (x + y - m) /\ x + y - m \in 0 .. m - 1
    BY <1>2
  <2>2. (x + y) % m = x + y - m
    BY <2>1
  <2> QED
    BY <1>2, <2>2
<1> QED
  BY <1>1, <1>2

LEMMA ProductBelow ==
    ASSUME NEW h \in Nat, NEW a \in Nat, a < h, NEW b \in Nat, b < h
    PROVE  a * b \in Nat /\ a * b <= (h - 1) * (h - 1) /\ a * b < h * h
OBVIOUS

(* umul128_generic (float_common.h) is exact: the two words it gives are   *)
(* those of the product for every two words, though the sum of the middle  *)
(* products may wrap around and so may that of the low ones; and the high  *)
(* word itself never wraps.                                                *)
THEOREM FullMultiplicationIsExact ==
    ASSUME NEW ab \in 0 .. Word - 1, NEW cd \in 0 .. Word - 1
    PROVE  LET product == FullMultiplication(ab, cd)
           IN  /\ product.high * Word + product.low = ab * cd
               /\ product.low \in 0 .. Word - 1 /\ product.high \in 0 .. Word - 1
<1> DEFINE h == 2 ^ (WordBits \div 2)
           a == ab \div h   b == ab % h
           c == cd \div h   d == cd % h
           adbc == (a * d + b * c) % Word
           carry == IF adbc < a * d THEN 1 ELSE 0
           lo == (b * d + adbc * h) % Word
           locarry == IF lo < b * d THEN 1 ELSE 0
           hi == a * c + adbc \div h + carry * h + locarry
           t == adbc % h
           q == adbc \div h
<1>1. FullMultiplication(ab, cd) = [low |-> lo, high |-> hi]
  BY DEF FullMultiplication
<1>2. h \in Nat \ {0} /\ h > 1 /\ Word = h * h /\ Word \in Nat \ {0}
  BY WordIs
<1>3. ab \in Nat /\ cd \in Nat /\ ab < h * h /\ cd < h * h
  BY <1>2
<1> HIDE DEF h
<1>4. /\ a \in Nat /\ b \in Nat /\ b < h /\ ab = h * a + b
      /\ c \in Nat /\ d \in Nat /\ d < h /\ cd = h * c + d
  BY <1>2, <1>3, DivMod
<1> HIDE DEF a, b, c, d
<1>5. a < h /\ c < h
  BY <1>2, <1>3, <1>4
<1>6. /\ a * d \in Nat /\ a * d < Word /\ b * c \in Nat /\ b * c < Word
      /\ b * d \in Nat /\ b * d < Word /\ b * d <= (h - 1) * (h - 1)
  BY <1>2, <1>4, <1>5, ProductBelow
<1>7. adbc \in Nat /\ adbc < Word /\ a * d + b * c = adbc + Word * carry
  BY <1>2, <1>6, CarryOfSum
<1>8. carry \in Nat
  OBVIOUS
<1> HIDE DEF adbc, carry
<1>9. q \in Nat /\ t \in Nat /\ t < h /\ adbc = h * q + t
  BY <1>2, <1>7, DivMod
<1> HIDE DEF q, t
<1>10. t * h \in Nat /\ t * h < Word
  <2>1. t * h <= (h - 1) * h
    BY <1>2, <1>9
  <2> QED
    BY <1>2, <1>9, <2>1
<1>11. lo = (b * d + t * h) % Word
  <2>1. b * d + adbc * h = Word * q + (b * d + t * h)
    BY <1>2, <1>4, <1>9
  <2>2. b * d + t * h \in Nat
    BY <1>6, <1>10
  <2>3. (Word * q + (b * d + t * h)) % Word = (b * d + t * h) % Word
    <3> DEFINE x == b * d + t * h
    <3>1. x \in Nat
      BY <2>2
    <3> HIDE DEF x
    <3>2. x = Word * (x \div Word) + (x % Word) /\ x \div Word \in Nat /\ x % Word \in 0 .. Word - 1
      <4>1. Word \in Nat \ {0}
        BY <1>2
      <4> QED
        BY <3>1, <4>1, DivMod
    <3>3. Word * q + x = Word * (q + x \div Word) + (x % Word) /\ q + x \div Word \in Nat
      BY <1>2, <1>9, <3>2
    <3> DEFINE y == x % Word
               z == q + x \div Word
    <3>4. y \in 0 .. Word - 1 /\ z \in Nat /\ Word * q + x = Word * z + y
      BY <3>2, <3>3
    <3> HIDE DEF y, z
    <3>5. (Word * z + y) % Word = y
      BY <1>2, <3>4
    <3> QED
      BY <3>4, <3>5 DEF x, y
  <2> QED
    BY <2>1, <2>3
<1>12. lo \in Nat /\ lo < Word /\ b * d + t * h = lo + Word * locarry
  <2>1. locarry = IF (b * d + t * h) % Word < b * d THEN 1 ELSE 0
    BY <1>11
  <2> HIDE DEF lo, locarry
  <2> QED
    BY <1>2, <1>6, <1>10, <1>11, <2>1, CarryOfSum
<1>13. locarry \in Nat
  OBVIOUS
<1>14. hi = a * c + q + carry * h + locarry
  BY DEF q
<1> HIDE DEF lo, locarry, hi
<1>15. hi * Word + lo = ab * cd
  <2>1. hi * Word = (a * c) * (h * h) + q * (h * h) + (carry * h) * (h * h) + locarry * (h * h)
    BY <1>2, <1>4, <1>8, <1>9, <1>13, <1>14
  <2>2. ab * cd = (a * c) * (h * h) + (a * d + b * c) * h + b * d
    BY <1>2, <1>4
  <2>3. (a * d + b * c) * h = (h * q + t) * h + (h * h * carry) * h
    BY <1>2, <1>6, <1>7, <1>8, <1>9
  <2>4. (h * q + t) * h = q * (h * h) + t * h
    BY <1>2, <1>9
  <2>5. (h * h * carry) * h = (carry * h) * (h * h)
    BY <1>2, <1>8
  <2>6. b * d = lo + (h * h) * locarry - t * h
    BY <1>2, <1>6, <1>10, <1>12, <1>13
  <2>7. (h * h) * locarry = locarry * (h * h)
    BY <1>2, <1>13
  <2> QED
    <3> DEFINE A == (a * c) * (h * h)   B == q * (h * h)   C == (carry * h) * (h * h)
               D == locarry * (h * h)   E == t * h   F == (a * d + b * c) * h   G == b * d
               H == hi * Word   P == ab * cd
    <3>1. {A, B, C, D, E, F, G, H, P, lo} \subseteq Int
      BY <1>2, <1>3, <1>4, <1>8, <1>9, <1>12, <1>13, <1>14
    <3>2. H = A + B + C + D
      BY <2>1
    <3>3. P = A + F + G
      BY <2>2
    <3>4. F = (B + E) + C
      BY <2>3, <2>4, <2>5
    <3>5. G = lo + D - E
      BY <2>6, <2>7
    <3> HIDE DEF A, B, C, D, E, F, G, H, P
    <3>6. H + lo = P
      BY <3>1, <3>2, <3>3, <3>4, <3>5
    <3> QED
      BY <3>6 DEF H, P
<1>16. hi \in Nat
  BY <1>2, <1>4, <1>8, <1>9, <1>13, <1>14
<1>17. hi < Word
  <2>1. ab * cd < Word * Word
    BY <1>2, <1>3, ProductBelow
  <2> QED
    BY <1>2, <1>12, <1>15, <1>16, <2>1
<1> QED
  BY <1>1, <1>2, <1>12, <1>15, <1>16, <1>17

-------------------------------------------------------------------------------
(* What a vector of limbs stands for: the sum of its limbs by their        *)
(* weights.  sums[i] is that of the first i.                               *)
Limbs == 0 .. Limb - 1
Weight(i) == 2 ^ (LimbBits * i)

Sums(x) ==
    LET sums[i \in 0 .. Len(x)] == IF i = 0 THEN 0 ELSE sums[i - 1] + x[i] * Weight(i - 1)
    IN  sums

Number(x) == Sums(x)[Len(x)]

LEMMA WeightIs ==
    ASSUME NEW i \in Nat
    PROVE  Weight(i) \in Nat \ {0} /\ Weight(0) = 1 /\ Weight(i + 1) = Weight(i) * Limb
<1>1. LimbBits \in Nat
  BY SizesAssumption
<1>2. LimbBits * i \in Nat /\ LimbBits * 0 = 0 /\ LimbBits * (i + 1) = LimbBits * i + LimbBits
  BY <1>1
<1>3. 2 ^ (LimbBits * i) \in Nat \ {0}
  BY <1>2, TwoToThe
<1>4. 2 ^ (LimbBits * i + LimbBits) = 2 ^ (LimbBits * i) * 2 ^ LimbBits
  BY <1>1, <1>2, PowersOfTwo
<1>5. 2 ^ 0 = 1
  OBVIOUS
<1>6. Weight(0) = 1
  BY <1>2, <1>5 DEF Weight
<1>7. Weight(i + 1) = Weight(i) * Limb
  BY <1>2, <1>4 DEF Weight, Limb
<1> QED
  BY <1>3, <1>6, <1>7 DEF Weight

SumsAre(x, r) == r = [i \in 0 .. Len(x) |-> IF i = 0 THEN 0 ELSE r[i - 1] + x[i] * Weight(i - 1)]

LEMMA SumsIs == ASSUME NEW x PROVE Sums(x) = CHOOSE r : SumsAre(x, r)
BY DEF Sums, SumsAre

LEMMA SumsUnfold ==
    ASSUME NEW x \in Seq(Nat)
    PROVE  /\ Sums(x) \in [0 .. Len(x) -> Nat]
           /\ Sums(x)[0] = 0
           /\ \A i \in 1 .. Len(x) : Sums(x)[i] = Sums(x)[i - 1] + x[i] * Weight(i - 1)
<1> DEFINE n == Len(x)
           h == [p \in (1 .. n) \X Nat |-> p[2] + x[p[1]] * Weight(p[1] - 1)]
<1>1. n \in Nat
  OBVIOUS
<1>2. ASSUME NEW i \in 1 .. n, NEW v \in Nat PROVE v + x[i] * Weight(i - 1) \in Nat
  <2>1. i - 1 \in Nat /\ x[i] \in Nat
    BY <1>1
  <2>2. Weight(i - 1) \in Nat
    BY <2>1, WeightIs
  <2>3. x[i] * Weight(i - 1) \in Nat
    BY <2>1, <2>2
  <2> QED
    BY <2>3
<1>3. h \in [(1 .. n) \X Nat -> Nat]
  <2>1. \A p \in (1 .. n) \X Nat : p[2] + x[p[1]] * Weight(p[1] - 1) \in Nat
    BY <1>2
  <2> HIDE DEF n
  <2> QED
    BY <2>1
<1>4. PICK r \in [0 .. n -> Nat] : Chain(r, n, 0, h)
  <2> HIDE DEF h, n
  <2> QED
    BY <1>1, <1>3, ChainExists
<1>5. \A i \in 1 .. n : <<i, r[i - 1]>> \in (1 .. n) \X Nat
  <2>1. \A i \in 1 .. n : i - 1 \in 0 .. n
    BY <1>1
  <2> HIDE DEF n
  <2> QED
    BY <2>1
<1>6. r[0] = 0 /\ \A i \in 1 .. n : r[i] = r[i - 1] + x[i] * Weight(i - 1)
  <2>1. ASSUME NEW i \in 1 .. n
        PROVE  h[<<i, r[i - 1]>>] = r[i - 1] + x[i] * Weight(i - 1)
    <3>1. <<i, r[i - 1]>> \in (1 .. n) \X Nat
      BY <1>5
    <3> QED
      BY <3>1
  <2> HIDE DEF h, n
  <2> QED
    BY <1>4, <2>1 DEF Chain
<1>7. SumsAre(x, r)
  <2> DEFINE g == [i \in 0 .. n |-> IF i = 0 THEN 0 ELSE r[i - 1] + x[i] * Weight(i - 1)]
  <2>1. \A i \in 0 .. n : g[i] = r[i]
    BY <1>1, <1>6
  <2>2. g = r
    BY <2>1
  <2> QED
    BY <2>2 DEF SumsAre
<1>8. SumsAre(x, Sums(x))
  BY <1>7, SumsIs
<1> DEFINE s == Sums(x)
<1>9. s = [i \in 0 .. n |-> IF i = 0 THEN 0 ELSE s[i - 1] + x[i] * Weight(i - 1)]
  BY <1>8 DEF SumsAre
<1> HIDE DEF s
<1>10. s[0] = 0 /\ \A i \in 1 .. n : s[i] = s[i - 1] + x[i] * Weight(i - 1)
  BY <1>1, <1>9
<1>11. DOMAIN s = 0 .. n /\ s = [i \in 0 .. n |-> s[i]]
  BY <1>9
<1>12. \A i \in 0 .. n : s[i] \in Nat
  <2> DEFINE G == {i \in 0 .. n : s[i] \in Nat}
  <2>1. 0 \in G
    BY <1>1, <1>10
  <2>2. ASSUME NEW i \in 1 .. n, i - 1 \in G PROVE i \in G
    <3>1. s[i - 1] \in Nat
      BY <2>2
    <3>2. s[i - 1] + x[i] * Weight(i - 1) \in Nat
      BY <1>2, <3>1
    <3>3. s[i] \in Nat
      BY <1>10, <3>2
    <3> QED
      BY <3>3
  <2>3. 0 .. n \subseteq G
    <3>1. G \in SUBSET Nat
      OBVIOUS
    <3> HIDE DEF G
    <3> QED
      BY <1>1, <2>1, <2>2, <3>1, UpTo
  <2> QED
    BY <2>3
<1> QED
  BY <1>10, <1>11, <1>12 DEF s

LEMMA WeightsGrow == ASSUME NEW i \in Nat, NEW k \in Nat, i <= k PROVE Weight(i) <= Weight(k)
<1>1. LimbBits \in Nat
  BY SizesAssumption
<1>2. LimbBits * i \in Nat /\ LimbBits * (k - i) \in Nat /\ LimbBits * k = LimbBits * i + LimbBits * (k - i)
  BY <1>1
<1>3. Weight(k) = Weight(i) * 2 ^ (LimbBits * (k - i))
  BY <1>2, PowersOfTwo, Zenon DEF Weight
<1>4. 2 ^ (LimbBits * (k - i)) \in Nat \ {0} /\ Weight(i) \in Nat
  BY <1>2, TwoToThe, WeightIs
<1> QED
  BY <1>3, <1>4

LEMMA SumsAt ==
    ASSUME NEW x \in Seq(Nat), NEW i \in 1 .. Len(x)
    PROVE  /\ x[i] \in Nat /\ i - 1 \in Nat /\ Weight(i - 1) \in Nat \ {0}
           /\ Sums(x)[i - 1] \in Nat /\ Sums(x)[i] \in Nat
           /\ Sums(x)[i] = Sums(x)[i - 1] + x[i] * Weight(i - 1)
<1>1. i - 1 \in Nat /\ i - 1 \in 0 .. Len(x) /\ i \in 0 .. Len(x) /\ x[i] \in Nat
  OBVIOUS
<1>2. Weight(i - 1) \in Nat \ {0}
  BY <1>1, WeightIs
<1> QED
  BY <1>1, <1>2, SumsUnfold

(* Where two vectors have the same limbs their sums grow alike. *)
SameBetween(x, z, b, e) == \A i \in b + 1 .. e : x[i] = z[i]
GrowAlike(x, z, b, e) == Sums(x)[e] + Sums(z)[b] = Sums(z)[e] + Sums(x)[b]

LEMMA SameLimbs ==
    ASSUME NEW x \in Seq(Nat), NEW z \in Seq(Nat), NEW b \in Nat, NEW e \in Nat,
           b <= e, e <= Len(x), e <= Len(z), SameBetween(x, z, b, e)
    PROVE  GrowAlike(x, z, b, e)
<1>s. \A i \in b + 1 .. e : x[i] = z[i]
  BY DEF SameBetween
<1> DEFINE G == {k \in 0 .. e - b : Sums(x)[b + k] + Sums(z)[b] = Sums(z)[b + k] + Sums(x)[b]}
<1>1. Sums(x)[b] \in Nat /\ Sums(z)[b] \in Nat
  <2>1. b \in 0 .. Len(x) /\ b \in 0 .. Len(z)
    OBVIOUS
  <2> QED
    BY <2>1, SumsUnfold
<1>2. 0 \in G
  <2>1. b + 0 = b /\ 0 \in 0 .. e - b
    OBVIOUS
  <2> QED
    BY <1>1, <2>1
<1>3. ASSUME NEW k \in 1 .. e - b, k - 1 \in G PROVE k \in G
  <2>1. /\ b + k \in 1 .. Len(x) /\ b + k \in 1 .. Len(z) /\ b + k \in b + 1 .. e
        /\ (b + k) - 1 = b + (k - 1) /\ k \in 0 .. e - b
    OBVIOUS
  <2> DEFINE w == Weight((b + k) - 1)
             p == Sums(x)[b + (k - 1)]
             q == Sums(z)[b + (k - 1)]
  <2>2. p \in Nat /\ x[b + k] \in Nat /\ w \in Nat /\ Sums(x)[b + k] = p + x[b + k] * w
    <3> DEFINE j == b + k
    <3> HIDE DEF j
    <3>1. j \in 1 .. Len(x) /\ j - 1 = b + (k - 1)
      BY <2>1 DEF j
    <3>2. /\ x[j] \in Nat /\ Weight(j - 1) \in Nat /\ Sums(x)[j - 1] \in Nat
          /\ Sums(x)[j] = Sums(x)[j - 1] + x[j] * Weight(j - 1)
      BY <3>1, SumsAt
    <3> QED
      BY <3>1, <3>2, Zenon DEF j
  <2>3. q \in Nat /\ Sums(z)[b + k] = q + x[b + k] * w
    <3> DEFINE j == b + k
    <3> HIDE DEF j
    <3>1. j \in 1 .. Len(z) /\ j - 1 = b + (k - 1) /\ x[j] = z[j]
      BY <1>s, <2>1 DEF j
    <3>2. Sums(z)[j - 1] \in Nat /\ Sums(z)[j] = Sums(z)[j - 1] + z[j] * Weight(j - 1)
      BY <3>1, SumsAt
    <3> QED
      BY <3>1, <3>2, Zenon DEF j
  <2>4. p + Sums(z)[b] = q + Sums(x)[b]
    BY <1>3
  <2>5. Sums(x)[b + k] + Sums(z)[b] = Sums(z)[b + k] + Sums(x)[b]
    <3> HIDE DEF w, p, q
    <3> DEFINE u == x[b + k]
    <3>0. u \in Nat /\ w \in Nat
      BY <2>2
    <3> HIDE DEF u
    <3> DEFINE v == u * w
    <3>1. v \in Nat
      BY <3>0
    <3>2. Sums(x)[b + k] = p + v /\ Sums(z)[b + k] = q + v
      BY <2>2, <2>3, Zenon DEF u
    <3>3. p \in Nat /\ q \in Nat
      BY <2>2, <2>3
    <3> HIDE DEF v
    <3> DEFINE f == Sums(z)[b]   g == Sums(x)[b]
    <3>4. f \in Nat /\ g \in Nat /\ p + f = q + g
      BY <1>1, <2>4
    <3> HIDE DEF f, g
    <3>5. (p + v) + f = (q + v) + g
      BY <3>1, <3>3, <3>4
    <3> QED
      BY <3>2, <3>5, Zenon DEF f, g
  <2> QED
    BY <2>1, <2>5
<1>4. 0 .. e - b \subseteq G
  <2>1. G \in SUBSET Nat /\ e - b \in Nat
    OBVIOUS
  <2> HIDE DEF G
  <2> QED
    BY <1>2, <1>3, <2>1, UpTo
<1>5. e - b \in 0 .. e - b /\ b + (e - b) = e
  OBVIOUS
<1>6. e - b \in G
  <2> HIDE DEF G
  <2> QED
    BY <1>4, <1>5
<1> QED
  BY <1>5, <1>6 DEF GrowAlike

(* One limb more: the carry that leaves it is worth what came in and what   *)
(* is not left in the limb.                                                *)
CarryPassed(m, w, a, c, sz, sa, E) ==
    (sz + ((a + c) % m) * w) + ((a + c) \div m) * (w * m) = (sa + a * w) + E

LEMMA CarryStep ==
    ASSUME NEW m \in Nat \ {0}, NEW w \in Nat, NEW a \in Nat, NEW c \in Nat,
           NEW sz \in Nat, NEW sa \in Nat, NEW E \in Int, sz + c * w = sa + E
    PROVE  CarryPassed(m, w, a, c, sz, sa, E)
<1> DEFINE s == a + c
           d == s \div m
           r == s % m
<1>1. s \in Nat
  OBVIOUS
<1>2. s = a + c
  OBVIOUS
<1> HIDE DEF s
<1>3. d \in Nat /\ r \in Nat /\ s = m * d + r
  BY <1>1, DivMod
<1> HIDE DEF d, r
<1>4. r * w + d * (w * m) = (m * d + r) * w
  BY <1>3
<1>5. (a + c) * w = a * w + c * w
  OBVIOUS
<1>6. r * w + d * (w * m) = a * w + c * w
  BY <1>2, <1>3, <1>4, <1>5
<1> DEFINE A == a * w   C == c * w   R == r * w   D == d * (w * m)
<1>7. A \in Nat /\ C \in Nat /\ R \in Nat /\ D \in Nat
  BY <1>3
<1>8. R + D = A + C /\ sz + C = sa + E
  BY <1>6
<1> HIDE DEF A, C, R, D
<1>9. (sz + R) + D = (sa + A) + E
  BY <1>7, <1>8
<1> QED
  BY <1>9 DEF A, R, D, s, d, r, CarryPassed

(* Limb by limb a carry is passed on: nothing is lost. *)
PassesOn(a, z, b, e, c) ==
    \A i \in b + 1 .. e : c[i] = (a[i] + c[i - 1]) \div Limb /\ z[i] = (a[i] + c[i - 1]) % Limb

NothingLost(a, z, b, e, c) ==
    Sums(z)[e] + c[e] * Weight(e) = Sums(a)[e] + (c[b] * Weight(b) + Sums(z)[b] - Sums(a)[b])

LEMMA CarriesAreRight ==
    ASSUME NEW a \in Seq(Nat), NEW z \in Seq(Nat), NEW b \in Nat, NEW e \in Nat,
           b <= e, e <= Len(a), e <= Len(z),
           NEW c \in [b .. e -> Nat], PassesOn(a, z, b, e, c)
    PROVE  NothingLost(a, z, b, e, c)
<1> DEFINE E == c[b] * Weight(b) + Sums(z)[b] - Sums(a)[b]
           Right(k) == Sums(z)[b + k] + c[b + k] * Weight(b + k) = Sums(a)[b + k] + E
           G == {k \in 0 .. e - b : Right(k)}
<1>1. Sums(a)[b] \in Nat /\ Sums(z)[b] \in Nat /\ c[b] \in Nat /\ Weight(b) \in Nat
  <2>1. b \in 0 .. Len(a) /\ b \in 0 .. Len(z) /\ b \in b .. e
    OBVIOUS
  <2> QED
    BY <2>1, SumsUnfold, WeightIs
<1>2. E \in Int
  <2>1. c[b] * Weight(b) \in Nat
    BY <1>1
  <2> QED
    BY <1>1, <2>1
<1>3. 0 \in G
  <2>1. b + 0 = b /\ 0 \in 0 .. e - b
    OBVIOUS
  <2>2. c[b] * Weight(b) \in Nat
    BY <1>1
  <2>3. Sums(z)[b] + c[b] * Weight(b) = Sums(a)[b] + E
    BY <1>1, <2>2
  <2> QED
    BY <2>1, <2>3
<1> HIDE DEF E
<1>4. ASSUME NEW k \in 1 .. e - b, k - 1 \in G PROVE k \in G
  <2> DEFINE j == b + k
  <2>1. /\ j \in 1 .. Len(a) /\ j \in 1 .. Len(z) /\ j \in b + 1 .. e /\ j - 1 \in b .. e
        /\ j - 1 = b + (k - 1) /\ k \in 0 .. e - b /\ j - 1 \in Nat /\ (j - 1) + 1 = j
    OBVIOUS
  <2>2. Sums(z)[j - 1] + c[j - 1] * Weight(j - 1) = Sums(a)[j - 1] + E
    <3>1. Right(k - 1)
      BY <1>4
    <3> QED
      BY <2>1, <3>1, Zenon
  <2> HIDE DEF j
  <2>3. /\ Sums(a)[j - 1] \in Nat /\ a[j] \in Nat /\ Weight(j - 1) \in Nat
        /\ Sums(a)[j] = Sums(a)[j - 1] + a[j] * Weight(j - 1)
    BY <2>1, SumsAt
  <2>4. Sums(z)[j - 1] \in Nat /\ Sums(z)[j] = Sums(z)[j - 1] + z[j] * Weight(j - 1)
    BY <2>1, SumsAt
  <2>5. Weight(j) = Weight(j - 1) * Limb /\ Limb \in Nat \ {0}
    <3>1. Weight((j - 1) + 1) = Weight(j - 1) * Limb
      BY <2>1, WeightIs
    <3> QED
      BY <2>1, <3>1, WordIs
  <2>6. c[j - 1] \in Nat
    BY <2>1
  <2>7. c[j] = (a[j] + c[j - 1]) \div Limb /\ z[j] = (a[j] + c[j - 1]) % Limb
    BY <2>1 DEF PassesOn
  <2>8. (Sums(z)[j - 1] + ((a[j] + c[j - 1]) % Limb) * Weight(j - 1))
             + ((a[j] + c[j - 1]) \div Limb) * (Weight(j - 1) * Limb)
           = (Sums(a)[j - 1] + a[j] * Weight(j - 1)) + E
    <3> DEFINE u == a[j]   v == c[j - 1]   w == Weight(j - 1)
               sz == Sums(z)[j - 1]   sa == Sums(a)[j - 1]
    <3>1. u \in Nat /\ v \in Nat /\ w \in Nat /\ sz \in Nat /\ sa \in Nat
      BY <2>3, <2>4, <2>6
    <3>2. sz + v * w = sa + E
      BY <2>2
    <3> HIDE DEF u, v, w, sz, sa
    <3>3. (sz + ((u + v) % Limb) * w) + ((u + v) \div Limb) * (w * Limb) = (sa + u * w) + E
      <4>1. Limb \in Nat \ {0}
        BY <2>5
      <4> QED
        <5>1. CarryPassed(Limb, w, u, v, sz, sa, E)
          BY <1>2, <3>1, <3>2, <4>1, CarryStep
        <5> QED
          BY <5>1 DEF CarryPassed
    <3> QED
      BY <3>3 DEF u, v, w, sz, sa
  <2>9. Sums(z)[j] + c[j] * Weight(j) = Sums(a)[j] + E
    BY <2>3, <2>4, <2>5, <2>7, <2>8, Zenon
  <2> QED
    BY <2>1, <2>9 DEF j
<1>5. 0 .. e - b \subseteq G
  <2>1. G \in SUBSET Nat /\ e - b \in Nat
    OBVIOUS
  <2> HIDE DEF G
  <2> QED
    BY <1>3, <1>4, <2>1, UpTo
<1>6. e - b \in 0 .. e - b /\ b + (e - b) = e
  OBVIOUS
<1>7. Right(e - b)
  <2>1. e - b \in G
    <3> HIDE DEF G
    <3> QED
      BY <1>5, <1>6
  <2> QED
    BY <2>1
<1> QED
  BY <1>6, <1>7, Zenon DEF E, NothingLost

-------------------------------------------------------------------------------
(* A big integer in its memory: limbs, no more than there is room for.     *)
Numbers == {x \in Seq(Limbs) : Len(x) <= BigintLimbs}
Fits(n) == n < Weight(BigintLimbs)

(* What an operation of bigint.h should do: stay within its memory, and    *)
(* give the number n or say that it does not fit.                          *)
Bigs == [ok : BOOLEAN, vec : Numbers]

Gives(b, n) ==
    /\ b \in Bigs
    /\ b.ok <=> Fits(n)
    /\ b.ok => Number(b.vec) = n

LEMMA LimbsAre == Limbs \subseteq Nat /\ \A v \in Limbs : v \in Nat /\ v < Limb /\ v <= Limb - 1
BY WordIs DEF Limbs

LEMMA LimbsAreNumbers == ASSUME NEW x \in Seq(Limbs) PROVE x \in Seq(Nat)
<1>1. x \in [1 .. Len(x) -> Limbs] /\ Len(x) \in Nat
  OBVIOUS
<1>2. x \in [1 .. Len(x) -> Nat]
  BY <1>1, LimbsAre
<1> QED
  BY <1>1, <1>2

LEMMA NumbersAre ==
    ASSUME NEW x \in Numbers
    PROVE  x \in Seq(Limbs) /\ x \in Seq(Nat) /\ Len(x) \in Nat /\ Len(x) <= BigintLimbs
BY LimbsAreNumbers DEF Numbers

LEMMA TopLimb ==
    ASSUME NEW w \in Nat, NEW m \in Nat \ {0}, NEW s \in Nat, s < w, NEW v \in Nat, v <= m - 1
    PROVE  s + v * w < w * m
<1>1. v * w <= (m - 1) * w
  OBVIOUS
<1>2. (m - 1) * w = m * w - w /\ m * w = w * m
  OBVIOUS
<1>3. v * w \in Nat /\ w * m \in Nat
  OBVIOUS
<1> QED
  BY <1>1, <1>2, <1>3

(* Limbs below a place are worth less than one at that place. *)
LEMMA SumsBelow ==
    ASSUME NEW x \in Seq(Limbs), NEW k \in 0 .. Len(x)
    PROVE  Sums(x)[k] \in Nat /\ Sums(x)[k] < Weight(k)
<1>0. x \in Seq(Nat)
  BY LimbsAreNumbers
<1> DEFINE n == Len(x)
           G == {i \in 0 .. n : Sums(x)[i] < Weight(i)}
<1>1. 0 \in G
  <2>1. Weight(0) = 1 /\ 0 \in 0 .. n
    <3>1. 0 \in Nat
      OBVIOUS
    <3> QED
      BY <3>1, WeightIs
  <2>2. Sums(x)[0] = 0
    BY <1>0, SumsUnfold
  <2> QED
    BY <2>1, <2>2
<1>2. ASSUME NEW i \in 1 .. n, i - 1 \in G PROVE i \in G
  <2>1. Sums(x)[i - 1] < Weight(i - 1)
    BY <1>2
  <2>2. /\ x[i] \in Nat /\ i - 1 \in Nat /\ Weight(i - 1) \in Nat
        /\ Sums(x)[i - 1] \in Nat /\ Sums(x)[i] = Sums(x)[i - 1] + x[i] * Weight(i - 1)
    BY <1>0, SumsAt
  <2>3. x[i] <= Limb - 1 /\ Limb \in Nat \ {0}
    <3>1. x[i] \in Limbs
      OBVIOUS
    <3> QED
      BY <3>1, LimbsAre, WordIs
  <2>4. Weight(i) = Weight(i - 1) * Limb
    <3>1. Weight((i - 1) + 1) = Weight(i - 1) * Limb /\ (i - 1) + 1 = i
      BY <2>2, WeightIs
    <3> QED
      BY <3>1
  <2>5. Sums(x)[i - 1] + x[i] * Weight(i - 1) < Weight(i - 1) * Limb
    <3> DEFINE s == Sums(x)[i - 1]   v == x[i]   w == Weight(i - 1)
    <3>1. s \in Nat /\ v \in Nat /\ w \in Nat /\ s < w /\ v <= Limb - 1 /\ Limb \in Nat \ {0}
      BY <2>1, <2>2, <2>3
    <3> HIDE DEF s, v, w
    <3>2. s + v * w < w * Limb
      BY <3>1, TopLimb
    <3> QED
      BY <3>2 DEF s, v, w
  <2> QED
    BY <2>2, <2>4, <2>5
<1>3. 0 .. n \subseteq G
  <2>1. G \in SUBSET Nat /\ n \in Nat
    OBVIOUS
  <2> HIDE DEF G
  <2> QED
    BY <1>1, <1>2, <2>1, UpTo
<1>4. Sums(x)[k] \in Nat
  BY <1>0, SumsUnfold
<1> QED
  BY <1>3, <1>4

LEMMA NumberBelow ==
    ASSUME NEW x \in Seq(Limbs)
    PROVE  Number(x) \in Nat /\ Number(x) < Weight(Len(x))
<1>1. Len(x) \in 0 .. Len(x)
  OBVIOUS
<1> QED
  BY <1>1, SumsBelow DEF Number

(* A limb more on top. *)
LEMMA NumberOfAppend ==
    ASSUME NEW x \in Seq(Nat), NEW v \in Nat
    PROVE  Number(Append(x, v)) = Number(x) + v * Weight(Len(x))
<1> DEFINE z == Append(x, v)
           n == Len(x)
<1>1. z \in Seq(Nat) /\ Len(z) = n + 1 /\ n \in Nat /\ z[n + 1] = v /\ \A i \in 0 + 1 .. n : x[i] = z[i]
  OBVIOUS
<1>2. Sums(x)[n] + Sums(z)[0] = Sums(z)[n] + Sums(x)[0]
  <2>1. 0 \in Nat /\ 0 <= n /\ n <= Len(x) /\ n <= Len(z)
    BY <1>1
  <2>2. SameBetween(x, z, 0, n)
    BY <1>1 DEF SameBetween
  <2> HIDE DEF z, n
  <2>3. GrowAlike(x, z, 0, n)
    BY <1>1, <2>1, <2>2, SameLimbs
  <2> QED
    BY <2>3 DEF GrowAlike
<1>3. Sums(z)[0] = 0 /\ Sums(x)[0] = 0 /\ Sums(x)[n] \in Nat /\ Sums(z)[n] \in Nat
  <2>1. n \in 0 .. Len(x) /\ n \in 0 .. Len(z)
    BY <1>1
  <2> QED
    BY <1>1, <2>1, SumsUnfold
<1>4. Sums(z)[n + 1] = Sums(z)[n] + z[n + 1] * Weight(n)
  <2>1. n + 1 \in 1 .. Len(z) /\ (n + 1) - 1 = n
    BY <1>1
  <2> HIDE DEF z, n
  <2> QED
    BY <1>1, <2>1, SumsAt
<1> QED
  BY <1>1, <1>2, <1>3, <1>4 DEF Number

(* A carry finds room, unless the number has none. *)
LEMMA PushCarryIsExact ==
    ASSUME NEW x \in Numbers, NEW c \in Limbs
    PROVE  Gives(PushCarry(x, c), Number(x) + c * Weight(Len(x)))
<1> DEFINE n == Len(x)
           w == Weight(n)
<1>1. x \in Seq(Limbs) /\ x \in Seq(Nat) /\ n \in Nat /\ n <= BigintLimbs /\ BigintLimbs \in Nat
  BY NumbersAre, BigintAssumption
<1>2. Number(x) \in Nat /\ Number(x) < w /\ w \in Nat /\ c \in Nat
  BY <1>1, NumberBelow, WeightIs, LimbsAre
<1>3. Weight(BigintLimbs) \in Nat /\ w <= Weight(BigintLimbs)
  BY <1>1, WeightIs, WeightsGrow
<1> HIDE DEF w
<1>4. CASE c = 0
  <2>1. PushCarry(x, c) = Big(TRUE, x)
    BY <1>4 DEF PushCarry
  <2>2. Number(x) + c * w = Number(x)
    BY <1>2, <1>4
  <2>3. Fits(Number(x))
    BY <1>2, <1>3 DEF Fits
  <2> QED
    BY <2>1, <2>2, <2>3 DEF Gives, Bigs, Big, w
<1>5. CASE c # 0 /\ n < BigintLimbs
  <2>1. PushCarry(x, c) = Big(TRUE, Append(x, c))
    BY <1>5 DEF PushCarry, TryPush
  <2>2. Append(x, c) \in Seq(Limbs) /\ Len(Append(x, c)) = n + 1 /\ n + 1 <= BigintLimbs
    BY <1>1, <1>5
  <2>3. Number(Append(x, c)) = Number(x) + c * w
    BY <1>1, <1>2, NumberOfAppend DEF w
  <2>4. Number(Append(x, c)) < Weight(n + 1)
    BY <2>2, NumberBelow
  <2>5. Weight(n + 1) <= Weight(BigintLimbs) /\ Weight(n + 1) \in Nat
    <3>1. n + 1 \in Nat
      BY <1>1
    <3> QED
      BY <1>1, <2>2, <3>1, WeightsGrow, WeightIs
  <2>6. Fits(Number(x) + c * w)
    <3>1. Number(Append(x, c)) \in Nat
      BY <2>2, NumberBelow
    <3> QED
      BY <1>3, <2>3, <2>4, <2>5, <3>1 DEF Fits
  <2>7. Append(x, c) \in Numbers
    BY <2>2 DEF Numbers
  <2> QED
    BY <2>1, <2>3, <2>6, <2>7 DEF Gives, Bigs, Big, w
<1>6. CASE c # 0 /\ ~(n < BigintLimbs)
  <2>1. PushCarry(x, c) = Big(FALSE, x)
    BY <1>6 DEF PushCarry, TryPush
  <2>2. w = Weight(BigintLimbs)
    <3>1. n = BigintLimbs
      BY <1>1, <1>6
    <3> QED
      BY <3>1 DEF w
  <2>3. c * w >= w /\ c * w \in Nat
    BY <1>2, <1>6
  <2>4. ~Fits(Number(x) + c * w)
    BY <1>2, <2>2, <2>3 DEF Fits
  <2> QED
    BY <2>1, <2>4 DEF Gives, Bigs, Big, w
<1> QED
  BY <1>4, <1>5, <1>6

-------------------------------------------------------------------------------
CarriesAre(term, carry, start, last, r) ==
    r = [i \in start .. last |-> IF i = start THEN carry ELSE (term[i] + r[i - 1]) \div Limb]

LEMMA CarriesIs ==
    ASSUME NEW term, NEW carry, NEW start, NEW last
    PROVE  Carries(term, carry, start, last) = CHOOSE r : CarriesAre(term, carry, start, last, r)
BY DEF Carries, CarriesAre

LEMMA CarryFits ==
    ASSUME NEW m \in Nat \ {0}, NEW t \in Nat, NEW B \in Nat, NEW v \in Nat, v <= B,
           t + B < (B + 1) * m
    PROVE  (t + v) \div m \in Nat /\ (t + v) \div m <= B
<1> DEFINE s == t + v
           d == s \div m
           r == s % m
<1>1. s \in Nat /\ s < (B + 1) * m
  OBVIOUS
<1> HIDE DEF s
<1>2. d \in Nat /\ r \in Nat /\ s = m * d + r
  BY <1>1, DivMod
<1> HIDE DEF d, r
<1>3. d <= B
  <2> SUFFICES ASSUME d >= B + 1 PROVE FALSE
    BY <1>2
  <2>1. m * d >= m * (B + 1)
    BY <1>2
  <2>2. m * (B + 1) = (B + 1) * m /\ (B + 1) * m \in Nat /\ m * d \in Nat
    BY <1>2
  <2> DEFINE x == m * d   y == (B + 1) * m
  <2>3. x \in Nat /\ y \in Nat /\ x >= y /\ s = x + r /\ s < y
    BY <1>1, <1>2, <2>1, <2>2
  <2> HIDE DEF x, y
  <2> QED
    BY <1>2, <2>3
<1> QED
  BY <1>2, <1>3 DEF d, s

(* No carry is more than B. *)
(* Terms this small leave carries up to B. *)
Bounded(term, B, start, last) == \A i \in start + 1 .. last : term[i] + B < (B + 1) * Limb

CarriesRun(c, term, carry, start, last, B) ==
    /\ c \in [start .. last -> 0 .. B]
    /\ c[start] = carry
    /\ \A i \in start + 1 .. last : c[i] = (term[i] + c[i - 1]) \div Limb

(* The carries exist, and each follows from the one before. *)
LEMMA CarriesUnfold ==
    ASSUME NEW term \in Seq(Nat), NEW B \in Nat, NEW carry \in 0 .. B,
           NEW start \in Nat, NEW last \in Nat, start <= last, last <= Len(term),
           Bounded(term, B, start, last)
    PROVE  CarriesRun(Carries(term, carry, start, last), term, carry, start, last, B)
<1> DEFINE c == Carries(term, carry, start, last)
<1>b. \A i \in start + 1 .. last : term[i] + B < (B + 1) * Limb
  BY DEF Bounded
<1> HIDE DEF c
<1> DEFINE n == last - start
           h == [p \in (1 .. n) \X (0 .. B) |-> (term[start + p[1]] + p[2]) \div Limb]
<1>0. Limb \in Nat \ {0}
  BY WordIs
<1>1. n \in Nat /\ start + n = last
  OBVIOUS
<1>2. ASSUME NEW k \in 1 .. n, NEW v \in 0 .. B PROVE (term[start + k] + v) \div Limb \in 0 .. B
  <2> DEFINE t == term[start + k]
  <2>1. start + k \in start + 1 .. last /\ start + k \in 1 .. Len(term)
    BY <1>1
  <2>2. t \in Nat /\ t + B < (B + 1) * Limb
    BY <1>b, <2>1
  <2>3. v \in Nat /\ v <= B
    OBVIOUS
  <2> HIDE DEF t
  <2>4. (t + v) \div Limb \in Nat /\ (t + v) \div Limb <= B
    BY <1>0, <2>2, <2>3, CarryFits
  <2> QED
    BY <2>4 DEF t
<1>3. h \in [(1 .. n) \X (0 .. B) -> 0 .. B]
  <2>1. \A p \in (1 .. n) \X (0 .. B) : (term[start + p[1]] + p[2]) \div Limb \in 0 .. B
    BY <1>2
  <2> HIDE DEF n
  <2> QED
    BY <2>1
<1>4. PICK r \in [0 .. n -> 0 .. B] : Chain(r, n, carry, h)
  <2> HIDE DEF h, n
  <2> QED
    BY <1>1, <1>3, ChainExists
<1> DEFINE q == [i \in start .. last |-> r[i - start]]
<1>5. q \in [start .. last -> 0 .. B] /\ q[start] = carry
  <2>1. \A i \in start .. last : i - start \in 0 .. n
    BY <1>1
  <2>2. start - start = 0 /\ start \in start .. last
    OBVIOUS
  <2>3. r[0] = carry
    BY <1>4 DEF Chain
  <2> HIDE DEF n
  <2> QED
    BY <2>1, <2>2, <2>3
<1>6. ASSUME NEW i \in start + 1 .. last PROVE q[i] = (term[i] + q[i - 1]) \div Limb
  <2>1. /\ i - start \in 1 .. n /\ (i - start) - 1 = (i - 1) - start /\ start + (i - start) = i
        /\ i \in start .. last /\ i - 1 \in start .. last /\ (i - 1) - start \in 0 .. n
    BY <1>1
  <2>2. r[i - start] = h[<<i - start, r[(i - start) - 1]>>]
    BY <1>4, <2>1 DEF Chain
  <2>3. q[i] = r[i - start] /\ q[i - 1] = r[(i - 1) - start]
    BY <2>1
  <2>4. <<i - start, r[(i - 1) - start]>> \in (1 .. n) \X (0 .. B)
    <3> HIDE DEF n
    <3> QED
      BY <2>1
  <2>5. h[<<i - start, r[(i - 1) - start]>>] = (term[i] + r[(i - 1) - start]) \div Limb
    <3> HIDE DEF n, q
    <3> QED
      BY <2>1, <2>4
  <2> HIDE DEF h, n, q
  <2> QED
    BY <2>1, <2>2, <2>3, <2>5
<1> HIDE DEF q, h, n
<1>7. CarriesAre(term, carry, start, last, q)
  <2> DEFINE g == [i \in start .. last |-> IF i = start THEN carry ELSE (term[i] + q[i - 1]) \div Limb]
  <2>1. ASSUME NEW i \in start .. last PROVE g[i] = q[i]
    <3>1. i = start \/ i \in start + 1 .. last
      OBVIOUS
    <3>2. start \notin start + 1 .. last
      OBVIOUS
    <3> QED
      BY <1>5, <1>6, <3>1, <3>2
  <2>2. g = q
    <3>1. DOMAIN q = start .. last /\ q = [i \in start .. last |-> q[i]]
      BY <1>5
    <3> QED
      BY <2>1, <3>1
  <2> QED
    BY <2>2 DEF CarriesAre
<1>8. CarriesAre(term, carry, start, last, c)
  BY <1>7, CarriesIs DEF c
<1>9. c[start] = carry /\ \A i \in start + 1 .. last : c[i] = (term[i] + c[i - 1]) \div Limb
  <2>1. c = [i \in start .. last |-> IF i = start THEN carry ELSE (term[i] + c[i - 1]) \div Limb]
    BY <1>8 DEF CarriesAre
  <2>2. start \in start .. last
    OBVIOUS
  <2>3. \A i \in start + 1 .. last : i \in start .. last /\ i # start
    OBVIOUS
  <2> QED
    BY <2>1, <2>2, <2>3, Zenon
<1>10. \A i \in start .. last : c[i] = q[i]
  <2> DEFINE G == {k \in 0 .. last - start : c[start + k] = q[start + k]}
  <2>1. 0 \in G
    <3>1. start + 0 = start /\ 0 \in 0 .. last - start
      OBVIOUS
    <3> QED
      BY <1>5, <1>9, <3>1
  <2>2. ASSUME NEW k \in 1 .. last - start, k - 1 \in G PROVE k \in G
    <3>1. start + k \in start + 1 .. last /\ (start + k) - 1 = start + (k - 1) /\ k \in 0 .. last - start
      OBVIOUS
    <3>2. c[start + (k - 1)] = q[start + (k - 1)]
      BY <2>2
    <3>3. /\ c[start + k] = (term[start + k] + c[(start + k) - 1]) \div Limb
          /\ q[start + k] = (term[start + k] + q[(start + k) - 1]) \div Limb
      BY <1>6, <1>9, <3>1
    <3>4. c[start + k] = q[start + k]
      BY <3>1, <3>2, <3>3, Zenon
    <3> QED
      BY <3>1, <3>4
  <2>3. 0 .. last - start \subseteq G
    <3>1. G \in SUBSET Nat /\ last - start \in Nat
      OBVIOUS
    <3> HIDE DEF G
    <3> QED
      BY <2>1, <2>2, <3>1, UpTo
  <2>4. ASSUME NEW i \in start .. last PROVE c[i] = q[i]
    <3>1. i - start \in 0 .. last - start /\ start + (i - start) = i
      OBVIOUS
    <3>2. i - start \in G
      BY <2>3, <3>1
    <3> QED
      BY <3>1, <3>2
  <2> QED
    BY <2>4
<1>11. c \in [start .. last -> 0 .. B]
  <2>1. DOMAIN c = start .. last /\ c = [i \in start .. last |-> c[i]]
    <3>1. c = [i \in start .. last |-> IF i = start THEN carry ELSE (term[i] + c[i - 1]) \div Limb]
      BY <1>8 DEF CarriesAre
    <3> QED
      BY <3>1
  <2>2. \A i \in start .. last : c[i] \in 0 .. B
    BY <1>5, <1>10
  <2> QED
    BY <2>1, <2>2
<1> QED
  BY <1>9, <1>11 DEF CarriesRun, c

CarriedRun(z, term, c, start, last) ==
    /\ z \in Seq(Nat) /\ Len(z) = Len(term)
    /\ \A i \in 1 .. Len(term) :
          IF i \in start + 1 .. last THEN z[i] \in Limbs /\ z[i] = (term[i] + c[i - 1]) % Limb
          ELSE z[i] = term[i]

LEMMA CarriedUnfold ==
    ASSUME NEW term \in Seq(Nat), NEW start \in Nat, NEW last \in Nat,
           NEW c \in [start .. last -> Nat]
    PROVE  CarriedRun(Carried(term, c, start, last), term, c, start, last)
<1> DEFINE z == Carried(term, c, start, last)
<1> DEFINE f(i) == IF i \in start + 1 .. last THEN (term[i] + c[i - 1]) % Limb ELSE term[i]
<1>0. Limb \in Nat \ {0}
  BY WordIs
<1>1. z = [i \in 1 .. Len(term) |-> f(i)] /\ Len(term) \in Nat
  BY DEF Carried
<1>2. ASSUME NEW i \in 1 .. Len(term), i \in start + 1 .. last PROVE (term[i] + c[i - 1]) % Limb \in Limbs
  <2> DEFINE u == term[i]
             v == c[i - 1]
  <2>1. i - 1 \in start .. last
    BY <1>2
  <2>2. u \in Nat /\ v \in Nat
    BY <2>1
  <2> HIDE DEF u, v
  <2>3. (u + v) \in Nat
    BY <2>2
  <2>4. (u + v) % Limb \in Limbs
    BY <1>0, <2>3, DivMod DEF Limbs
  <2> QED
    BY <2>4 DEF u, v
<1>3. \A i \in 1 .. Len(term) : f(i) \in Nat
  <2>1. \A i \in 1 .. Len(term) : term[i] \in Nat
    OBVIOUS
  <2>2. Limbs \subseteq Nat
    BY LimbsAre
  <2> QED
    BY <1>2, <2>1, <2>2, Zenon
<1> HIDE DEF f
<1>4. z \in Seq(Nat) /\ Len(z) = Len(term) /\ \A i \in 1 .. Len(term) : z[i] = f(i)
  BY <1>1, <1>3
<1> HIDE DEF z
<1> QED
  BY <1>2, <1>4 DEF f, z, CarriedRun

(* Carries change the limbs between start and last, and the number only by *)
(* what enters and what leaves.                                            *)
Passed(term, start, last, c, z, carry) ==
    /\ z \in Seq(Nat) /\ Len(z) = Len(term)
    /\ \A i \in 1 .. Len(term) : IF i \in start + 1 .. last THEN z[i] \in Limbs ELSE z[i] = term[i]
    /\ Number(z) + c[last] * Weight(last) = Number(term) + carry * Weight(start)

PassedAll(term, start, last, carry, B) ==
    LET c == Carries(term, carry, start, last)
    IN  c[last] \in 0 .. B /\ Passed(term, start, last, c, Carried(term, c, start, last), carry)

LEMMA PassedOn ==
    ASSUME NEW term \in Seq(Nat), NEW B \in Nat, NEW carry \in 0 .. B,
           NEW start \in Nat, NEW last \in Nat, start <= last, last <= Len(term),
           Bounded(term, B, start, last)
    PROVE  PassedAll(term, start, last, carry, B)
<1> DEFINE n == Len(term)
           c == Carries(term, carry, start, last)
           z == Carried(term, c, start, last)
<1>1. c \in [start .. last -> 0 .. B] /\ c[start] = carry
      /\ \A i \in start + 1 .. last : c[i] = (term[i] + c[i - 1]) \div Limb
  <2>1. CarriesRun(Carries(term, carry, start, last), term, carry, start, last, B)
    BY CarriesUnfold
  <2> QED
    BY <2>1, Zenon DEF CarriesRun
<1> HIDE DEF c
<1>2. c \in [start .. last -> Nat] /\ c[last] \in 0 .. B /\ last \in start .. last
  BY <1>1
<1>3. /\ z \in Seq(Nat) /\ Len(z) = n
      /\ \A i \in 1 .. n :
            IF i \in start + 1 .. last THEN z[i] \in Limbs /\ z[i] = (term[i] + c[i - 1]) % Limb
            ELSE z[i] = term[i]
  <2>1. CarriedRun(Carried(term, c, start, last), term, c, start, last)
    BY <1>2, CarriedUnfold
  <2> QED
    BY <2>1, Zenon DEF CarriedRun
<1> HIDE DEF z
<1>n. n \in Nat
  OBVIOUS
<1>4. Sums(z)[last] + c[last] * Weight(last)
          = Sums(term)[last] + (c[start] * Weight(start) + Sums(z)[start] - Sums(term)[start])
  <2>1. \A i \in start + 1 .. last : c[i] = (term[i] + c[i - 1]) \div Limb /\ z[i] = (term[i] + c[i - 1]) % Limb
    <3>1. \A i \in start + 1 .. last : i \in 1 .. n
      OBVIOUS
    <3> QED
      BY <1>1, <1>3, <3>1
  <2>2. PassesOn(term, z, start, last, c)
    BY <2>1 DEF PassesOn
  <2>3. NothingLost(term, z, start, last, c)
    <3>1. last <= Len(z)
      BY <1>3
    <3> QED
      BY <1>2, <1>3, <2>2, <3>1, CarriesAreRight
  <2> QED
    BY <2>3, Zenon DEF NothingLost
<1>5. Sums(z)[start] = Sums(term)[start]
  <2>1. \A i \in 0 + 1 .. start : term[i] = z[i]
    <3>1. \A i \in 0 + 1 .. start : i \in 1 .. n /\ i \notin start + 1 .. last
      OBVIOUS
    <3> QED
      BY <1>3, <3>1
  <2>2. Sums(term)[start] + Sums(z)[0] = Sums(z)[start] + Sums(term)[0]
    <3>1. 0 \in Nat /\ 0 <= start /\ start <= Len(term) /\ start <= Len(z)
      BY <1>3
    <3>2. SameBetween(term, z, 0, start)
      BY <2>1 DEF SameBetween
    <3>3. GrowAlike(term, z, 0, start)
      BY <1>3, <3>1, <3>2, SameLimbs
    <3> QED
      BY <3>3 DEF GrowAlike
  <2>3. Sums(term)[0] = 0 /\ Sums(z)[0] = 0 /\ Sums(term)[start] \in Nat /\ Sums(z)[start] \in Nat
    <3>1. start \in 0 .. Len(term) /\ start \in 0 .. Len(z)
      BY <1>3
    <3> QED
      BY <1>3, <3>1, SumsUnfold
  <2> QED
    BY <2>2, <2>3
<1>6. Number(term) + Sums(z)[last] = Number(z) + Sums(term)[last]
  <2>1. \A i \in last + 1 .. n : term[i] = z[i]
    <3>1. \A i \in last + 1 .. n : i \in 1 .. n /\ i \notin start + 1 .. last
      OBVIOUS
    <3> QED
      BY <1>3, <3>1
  <2>2. Sums(term)[n] + Sums(z)[last] = Sums(z)[n] + Sums(term)[last]
    <3>1. last <= n /\ n <= Len(term) /\ n <= Len(z)
      BY <1>n, <1>3
    <3>2. SameBetween(term, z, last, n)
      BY <2>1 DEF SameBetween
    <3>3. GrowAlike(term, z, last, n)
      BY <1>n, <1>3, <3>1, <3>2, SameLimbs
    <3> QED
      BY <3>3 DEF GrowAlike
  <2> QED
    BY <1>n, <1>3, <2>2 DEF Number
<1>7. Number(z) + c[last] * Weight(last) = Number(term) + carry * Weight(start)
  <2> DEFINE nt == Number(term)
             nz == Number(z)
             st == Sums(term)[last]
             sz == Sums(z)[last]
             zs == Sums(z)[start]
             p == c[last] * Weight(last)
             r == carry * Weight(start)
  <2>1. nt \in Nat /\ nz \in Nat /\ st \in Nat /\ sz \in Nat /\ zs \in Nat
    <3>1. last \in 0 .. Len(term) /\ last \in 0 .. Len(z) /\ start \in 0 .. Len(z) /\ n \in 0 .. n
      BY <1>n, <1>3
    <3> QED
      BY <1>n, <1>3, <3>1, SumsUnfold DEF Number
  <2>2. p \in Nat /\ r \in Nat
    <3>1. Weight(last) \in Nat /\ Weight(start) \in Nat /\ c[last] \in Nat /\ carry \in Nat
      BY <1>2, WeightIs
    <3> QED
      BY <3>1
  <2>3. sz + p = st + (r + zs - zs)
    BY <1>1, <1>4, <1>5
  <2>4. nt + sz = nz + st
    BY <1>6
  <2> HIDE DEF nt, nz, st, sz, zs, p, r
  <2>5. nz + p = nt + r
    BY <2>1, <2>2, <2>3, <2>4
  <2> QED
    BY <2>5 DEF nz, p, nt, r
<1> QED
  BY <1>2, <1>3, <1>7 DEF Passed, PassedAll, c, z

LEMMA LimbsMakeVectors ==
    ASSUME NEW z \in Seq(Nat), \A i \in 1 .. Len(z) : z[i] \in Limbs
    PROVE  z \in Seq(Limbs)
<1>1. z = [i \in 1 .. Len(z) |-> z[i]] /\ Len(z) \in Nat
  OBVIOUS
<1>2. [i \in 1 .. Len(z) |-> z[i]] \in [1 .. Len(z) -> Limbs]
  BY Zenon
<1> QED
  BY <1>1, <1>2

(* After carrying, limbs everywhere. *)
LEMMA PassedNumbers ==
    ASSUME NEW term \in Seq(Nat), Len(term) <= BigintLimbs, NEW start \in Nat, NEW last \in Nat,
           NEW c, NEW z, NEW carry, Passed(term, start, last, c, z, carry),
           \A i \in 1 .. Len(term) : i \notin start + 1 .. last => term[i] \in Limbs
    PROVE  z \in Numbers
<1>1. z \in Seq(Nat) /\ Len(z) = Len(term)
      /\ \A i \in 1 .. Len(term) : IF i \in start + 1 .. last THEN z[i] \in Limbs ELSE z[i] = term[i]
  BY DEF Passed
<1>2. \A i \in 1 .. Len(term) : z[i] \in Limbs
  BY <1>1, Zenon
<1>3. \A i \in 1 .. Len(z) : z[i] \in Limbs
  BY <1>1, <1>2, Zenon
<1>4. z \in Seq(Limbs)
  BY <1>1, <1>3, LimbsMakeVectors, Zenon
<1> QED
  BY <1>1, <1>4 DEF Numbers

(* Limb by limb a multiple. *)
Times(x, y) == [i \in 1 .. Len(x) |-> x[i] * y]

LEMMA NumberOfTimes ==
    ASSUME NEW x \in Seq(Nat), NEW y \in Nat
    PROVE  /\ Times(x, y) \in Seq(Nat) /\ Len(Times(x, y)) = Len(x)
           /\ \A i \in 1 .. Len(x) : Times(x, y)[i] = x[i] * y
           /\ Number(Times(x, y)) = Number(x) * y
<1> DEFINE n == Len(x)
           z == Times(x, y)
           G == {k \in 0 .. n : Sums(z)[k] = Sums(x)[k] * y}
<1>0. n \in Nat
  OBVIOUS
<1>1. z \in Seq(Nat) /\ Len(z) = n /\ \A i \in 1 .. n : z[i] = x[i] * y
  <2>1. \A i \in 1 .. Len(x) : x[i] * y \in Nat
    OBVIOUS
  <2> QED
    BY <2>1 DEF Times
<1> HIDE DEF z
<1>2. 0 \in G
  <2>1. Sums(z)[0] = 0 /\ Sums(x)[0] = 0
    BY <1>1, SumsUnfold
  <2> QED
    BY <1>0, <2>1
<1>3. ASSUME NEW k \in 1 .. n, k - 1 \in G PROVE k \in G
  <2>1. k \in 1 .. Len(x) /\ k \in 1 .. Len(z) /\ k \in 0 .. n
    BY <1>0, <1>1
  <2> DEFINE w == Weight(k - 1)
             p == Sums(x)[k - 1]
             u == x[k]
  <2>2. u \in Nat /\ w \in Nat /\ p \in Nat /\ Sums(x)[k] = p + u * w
    <3> HIDE DEF n
    <3> QED
      BY <2>1, SumsAt
  <2>3. Sums(z)[k] = Sums(z)[k - 1] + z[k] * w
    <3> HIDE DEF n
    <3> QED
      BY <1>1, <2>1, SumsAt
  <2>4. Sums(z)[k - 1] = p * y /\ z[k] = u * y
    BY <1>1, <1>3
  <2>5. p * y + (u * y) * w = (p + u * w) * y
    <3> HIDE DEF w, p, u
    <3> QED
      BY <2>2
  <2>6. Sums(z)[k] = Sums(x)[k] * y
    <3> HIDE DEF w, p, u
    <3> QED
      BY <2>2, <2>3, <2>4, <2>5, Zenon
  <2> QED
    BY <2>1, <2>6
<1>4. n \in G
  <2>1. G \in SUBSET Nat /\ n \in 0 .. n
    BY <1>0
  <2> HIDE DEF G
  <2> QED
    BY <1>0, <1>2, <1>3, <2>1, UpTo
<1>5. Number(z) = Number(x) * y
  BY <1>1, <1>4 DEF Number
<1> QED
  BY <1>1, <1>5 DEF z

(* What an operation on x leaves: limbs in the place of those of x, and a  *)
(* carry that is pushed; together they are t.                              *)
PushedWith(b, x, t, z, c) ==
    /\ b = PushCarry(z, c) /\ Len(z) = Len(x)
    /\ Number(z) + c * Weight(Len(x)) = t

Pushed(b, x, t) == \E z \in Numbers, c \in Limbs : PushedWith(b, x, t, z, c)

LEMMA PushedGives ==
    ASSUME NEW b, NEW x, NEW t, Pushed(b, x, t)
    PROVE  Gives(b, t)
<1>1. PICK z \in Numbers, c \in Limbs : PushedWith(b, x, t, z, c)
  BY DEF Pushed
<1>2. Gives(PushCarry(z, c), Number(z) + c * Weight(Len(z)))
  BY PushCarryIsExact
<1> QED
  BY <1>1, <1>2, Zenon DEF PushedWith

LEMMA SmallMulIs ==
    ASSUME NEW x \in Numbers, NEW y \in Limbs
    PROVE  Pushed(SmallMul(x, y), x, Number(x) * y)
<1> DEFINE n == Len(x)
           B == Limb - 1
           term == Times(x, y)
           c == Carries(term, 0, 0, n)
           z == Carried(term, c, 0, n)
<1>1. x \in Seq(Limbs) /\ x \in Seq(Nat) /\ n \in Nat /\ n <= BigintLimbs
  BY NumbersAre
<1>2. y \in Nat /\ y <= B /\ B \in Nat /\ Limb \in Nat \ {0} /\ B + 1 = Limb
  BY LimbsAre, WordIs
<1>3. /\ term \in Seq(Nat) /\ Len(term) = n /\ \A i \in 1 .. n : term[i] = x[i] * y
      /\ Number(term) = Number(x) * y
  BY <1>1, <1>2, NumberOfTimes
<1> HIDE DEF term
<1>4. Bounded(term, B, 0, n)
  <2>1. ASSUME NEW i \in 1 .. n PROVE term[i] + B < Limb * Limb
    <3> DEFINE u == x[i]
    <3>1. u \in Nat /\ u <= B
      <4>1. x[i] \in Limbs
        BY <1>1
      <4> QED
        BY <4>1, LimbsAre
    <3> HIDE DEF u
    <3>2. u * y <= B * B /\ u * y \in Nat
      BY <1>2, <3>1
    <3>3. B * B + B < Limb * Limb
      BY <1>2
    <3> QED
      BY <1>2, <1>3, <3>2, <3>3 DEF u
  <2>2. (B + 1) * Limb = Limb * Limb
    BY <1>2
  <2> HIDE DEF B
  <2>3. \A i \in 0 + 1 .. n : term[i] + B < (B + 1) * Limb
    BY <2>1, <2>2
  <2> QED
    BY <2>3 DEF Bounded
<1>5. c[n] \in 0 .. B /\ Passed(term, 0, n, c, z, 0)
  <2>1. PassedAll(term, 0, n, 0, B)
    <3>1. 0 \in Nat /\ 0 <= n /\ n <= Len(term) /\ 0 \in 0 .. B
      BY <1>1, <1>2, <1>3
    <3> HIDE DEF B
    <3> QED
      BY <1>1, <1>2, <1>3, <1>4, <3>1, PassedOn
  <2> QED
    BY <2>1 DEF PassedAll
<1> HIDE DEF c, z
<1>6. z \in Numbers /\ Len(z) = n
  <2>1. \A i \in 1 .. Len(term) : i \notin 0 + 1 .. n => term[i] \in Limbs
    BY <1>3
  <2>2. Len(term) <= BigintLimbs
    BY <1>1, <1>3
  <2>3. Passed(term, 0, n, c, z, 0) /\ term \in Seq(Nat) /\ n \in Nat /\ 0 \in Nat
    BY <1>1, <1>3, <1>5
  <2>4. z \in Numbers
    BY <2>1, <2>2, <2>3, PassedNumbers, Zenon
  <2> QED
    BY <1>3, <2>3, <2>4 DEF Passed
<1>7. Number(z) + c[n] * Weight(n) = Number(x) * y
  <2>1. 0 * Weight(0) = 0
    BY WeightIs
  <2>2. Number(x) * y \in Nat
    BY <1>1, <1>2, NumberBelow
  <2> QED
    BY <1>3, <1>5, <2>1, <2>2 DEF Passed
<1>8. c[n] \in Limbs
  BY <1>5 DEF Limbs
<1>9. SmallMul(x, y) = PushCarry(z, c[n])
  BY DEF SmallMul, Times, term, c, z
<1>10. PushedWith(SmallMul(x, y), x, Number(x) * y, z, c[n])
  BY <1>6, <1>7, <1>9, Zenon DEF PushedWith
<1> QED
  BY <1>6, <1>8, <1>10, Zenon DEF Pushed

(* small_mul of bigint.h multiplies exactly, whatever the limbs, never     *)
(* leaves its memory, and fails only when the product has no room in it.   *)
THEOREM SmallMulIsExact ==
    ASSUME NEW x \in Numbers, NEW y \in Limbs
    PROVE  Gives(SmallMul(x, y), Number(x) * y)
BY SmallMulIs, PushedGives, Zenon

LEMMA SmallAddIs ==
    ASSUME NEW x \in Numbers, NEW y \in Limbs, NEW start \in Nat, start <= Len(x)
    PROVE  Pushed(SmallAddFrom(x, y, start), x, Number(x) + y * Weight(start))
<1> DEFINE n == Len(x)
           B == Limb - 1
           c == Carries(x, y, start, n)
           z == Carried(x, c, start, n)
<1>1. x \in Seq(Limbs) /\ x \in Seq(Nat) /\ n \in Nat /\ n <= BigintLimbs
  BY NumbersAre
<1>2. y \in 0 .. B /\ B \in Nat /\ Limb \in Nat \ {0} /\ Limb > 1 /\ B + 1 = Limb
  BY WordIs DEF Limbs
<1>3. Bounded(x, B, start, n)
  <2>1. ASSUME NEW i \in 1 .. n PROVE x[i] + B < Limb * Limb
    <3> DEFINE u == x[i]
    <3>1. u \in Nat /\ u <= B
      <4>1. x[i] \in Limbs
        BY <1>1
      <4> QED
        BY <4>1, LimbsAre
    <3> HIDE DEF u
    <3>2. B + B < Limb * Limb
      BY <1>2
    <3> QED
      BY <1>2, <3>1, <3>2 DEF u
  <2>2. (B + 1) * Limb = Limb * Limb
    BY <1>2
  <2>3. \A i \in start + 1 .. n : i \in 1 .. n
    OBVIOUS
  <2> HIDE DEF B
  <2>4. \A i \in start + 1 .. n : x[i] + B < (B + 1) * Limb
    BY <2>1, <2>2, <2>3
  <2> QED
    BY <2>4 DEF Bounded
<1>4. c[n] \in 0 .. B /\ Passed(x, start, n, c, z, y)
  <2>1. PassedAll(x, start, n, y, B)
    <3> HIDE DEF B
    <3> QED
      BY <1>1, <1>2, <1>3, PassedOn
  <2> QED
    BY <2>1 DEF PassedAll
<1> HIDE DEF c, z
<1>5. z \in Numbers /\ Len(z) = n
  <2>1. \A i \in 1 .. Len(x) : i \notin start + 1 .. n => x[i] \in Limbs
    BY <1>1
  <2> QED
    BY <1>1, <1>4, <2>1, PassedNumbers DEF Passed
<1>6. Number(z) + c[n] * Weight(n) = Number(x) + y * Weight(start)
  BY <1>4 DEF Passed
<1>7. c[n] \in Limbs
  BY <1>4 DEF Limbs
<1>8. SmallAddFrom(x, y, start) = PushCarry(z, c[n])
  <2>1. ~(start > Len(x))
    BY <1>1
  <2> QED
    BY <2>1 DEF SmallAddFrom, c, z
<1>9. PushedWith(SmallAddFrom(x, y, start), x, Number(x) + y * Weight(start), z, c[n])
  BY <1>5, <1>6, <1>8, Zenon DEF PushedWith
<1> QED
  BY <1>5, <1>7, <1>9, Zenon DEF Pushed

(* small_add_from adds a limb at any place of the vector exactly, however  *)
(* far the carry runs, and fails only when the sum has no room.            *)
THEOREM SmallAddIsExact ==
    ASSUME NEW x \in Numbers, NEW y \in Limbs, NEW start \in Nat, start <= Len(x)
    PROVE  Gives(SmallAddFrom(x, y, start), Number(x) + y * Weight(start))
<1>1. Pushed(SmallAddFrom(x, y, start), x, Number(x) + y * Weight(start))
  BY SmallAddIs
<1> QED
  BY <1>1, PushedGives, Zenon

-------------------------------------------------------------------------------
LEMMA WeightOfBoth ==
    ASSUME NEW i \in Nat, NEW k \in Nat
    PROVE  Weight(i + k) = Weight(i) * Weight(k)
<1>1. LimbBits \in Nat
  BY SizesAssumption
<1>2. LimbBits * i \in Nat /\ LimbBits * k \in Nat /\ LimbBits * (i + k) = LimbBits * i + LimbBits * k
  BY <1>1
<1>3. 2 ^ (LimbBits * i + LimbBits * k) = 2 ^ (LimbBits * i) * 2 ^ (LimbBits * k)
  BY <1>2, PowersOfTwo
<1> QED
  BY <1>2, <1>3, Zenon DEF Weight

(* Without zeros on top, as bigint.h keeps its vectors. *)
NoZeroOnTop(x) == x # << >> => x[Len(x)] # 0

LEMMA NormalAtLeast ==
    ASSUME NEW x \in Seq(Limbs), x # << >>
    PROVE  /\ Len(x) - 1 \in Nat /\ x[Len(x)] \in Nat
           /\ x[Len(x)] # 0 => Number(x) >= Weight(Len(x) - 1)
           /\ x[Len(x)] = 0 => Number(x) < Weight(Len(x) - 1)
<1> DEFINE n == Len(x)
           w == Weight(n - 1)
           s == Sums(x)[n - 1]
           v == x[n]
<1>1. x \in Seq(Nat) /\ n \in 1 .. Len(x) /\ n \in Nat
  BY LimbsAreNumbers
<1>2. v \in Nat /\ n - 1 \in Nat /\ w \in Nat /\ s \in Nat /\ Sums(x)[n] = s + v * w
  <2> HIDE DEF n
  <2> QED
    BY <1>1, SumsAt
<1>3. s < w
  <2>1. n - 1 \in 0 .. Len(x)
    BY <1>1
  <2> HIDE DEF n
  <2> QED
    BY <2>1, SumsBelow
<1>4. Number(x) = s + v * w
  BY <1>2 DEF Number
<1> HIDE DEF w, s, v
<1>5. v # 0 => s + v * w >= w
  BY <1>2
<1>6. v = 0 => s + v * w = s
  BY <1>2
<1>7. (v # 0 => Number(x) >= w) /\ (v = 0 => Number(x) < w)
  BY <1>2, <1>3, <1>4, <1>5, <1>6
<1> QED
  BY <1>2, <1>7 DEF v, w

(* Zeros on top change nothing. *)
LEMMA NumberOfPadded ==
    ASSUME NEW x \in Numbers, NEW m \in Nat, Len(x) <= m, m <= BigintLimbs
    PROVE  /\ TryResize(x, m).ok /\ TryResize(x, m).vec \in Numbers /\ Len(TryResize(x, m).vec) = m
           /\ Number(TryResize(x, m).vec) = Number(x)
<1> DEFINE n == Len(x)
           z == [i \in 1 .. m |-> IF i <= n THEN x[i] ELSE 0]
           G == {k \in 0 .. m - n : Sums(z)[n + k] = Sums(z)[n]}
<1>1. x \in Seq(Limbs) /\ x \in Seq(Nat) /\ n \in Nat
  BY NumbersAre
<1>2. z \in Seq(Limbs) /\ Len(z) = m
  <2>1. 0 \in Limbs
    BY WordIs DEF Limbs
  <2>2. \A i \in 1 .. m : (IF i <= n THEN x[i] ELSE 0) \in Limbs
    BY <1>1, <2>1
  <2> QED
    BY <2>2
<1>3. \A i \in 1 .. m : z[i] = IF i <= n THEN x[i] ELSE 0
  OBVIOUS
<1>r. TryResize(x, m) = Big(TRUE, z)
  <2>1. ~(m > BigintLimbs)
    BY BigintAssumption
  <2> QED
    BY <2>1, Zenon DEF TryResize
<1> HIDE DEF z
<1>4. z \in Seq(Nat)
  BY <1>2, LimbsAreNumbers
<1>5. Sums(z)[n] = Sums(x)[n]
  <2>1. 0 \in Nat /\ 0 <= n /\ n <= Len(x) /\ n <= Len(z)
    BY <1>1, <1>2
  <2>2. SameBetween(x, z, 0, n)
    <3>1. \A i \in 0 + 1 .. n : i \in 1 .. m /\ i <= n
      BY <1>1
    <3> QED
      BY <1>3, <3>1 DEF SameBetween
  <2>3. GrowAlike(x, z, 0, n)
    BY <1>1, <1>4, <2>1, <2>2, SameLimbs
  <2>4. Sums(z)[0] = 0 /\ Sums(x)[0] = 0 /\ Sums(x)[n] \in Nat /\ Sums(z)[n] \in Nat
    <3>1. n \in 0 .. Len(x) /\ n \in 0 .. Len(z)
      BY <1>1, <1>2
    <3> QED
      BY <1>1, <1>4, <3>1, SumsUnfold
  <2> QED
    BY <2>3, <2>4 DEF GrowAlike
<1>6. 0 \in G
  <2>1. n + 0 = n /\ 0 \in 0 .. m - n
    BY <1>1
  <2> QED
    BY <2>1
<1>7. ASSUME NEW k \in 1 .. m - n, k - 1 \in G PROVE k \in G
  <2> DEFINE j == n + k
  <2>1. j \in 1 .. Len(z) /\ j \in 1 .. m /\ ~(j <= n) /\ j - 1 = n + (k - 1) /\ k \in 0 .. m - n
    BY <1>1, <1>2
  <2>2. Sums(z)[j - 1] = Sums(z)[n]
    BY <1>7, <2>1, Zenon
  <2>3. z[j] = 0
    BY <1>3, <2>1
  <2> HIDE DEF j
  <2>4. Sums(z)[j - 1] \in Nat /\ Weight(j - 1) \in Nat /\ Sums(z)[j] = Sums(z)[j - 1] + z[j] * Weight(j - 1)
    BY <1>4, <2>1, SumsAt
  <2>5. Sums(z)[j] = Sums(z)[n]
    BY <2>2, <2>3, <2>4
  <2> QED
    BY <2>1, <2>5 DEF j
<1>8. m - n \in G
  <2>1. G \in SUBSET Nat /\ m - n \in Nat /\ m - n \in 0 .. m - n
    BY <1>1
  <2> HIDE DEF G
  <2> QED
    BY <1>6, <1>7, <2>1, UpTo
<1>9. Number(z) = Number(x)
  <2>1. n + (m - n) = m
    BY <1>1
  <2> QED
    BY <1>2, <1>5, <1>8, <2>1 DEF Number
<1>10. z \in Numbers
  BY <1>2 DEF Numbers
<1> QED
  BY <1>2, <1>9, <1>10, <1>r DEF Big

(* The limbs of one vector added to those of another, from start on. *)
AddedAt(x, y, start) ==
    [i \in 1 .. Len(x) |-> IF i \in start + 1 .. start + Len(y) THEN x[i] + y[i - start] ELSE x[i]]

AddedRun(z, x, y, start) ==
    /\ z \in Seq(Nat) /\ Len(z) = Len(x)
    /\ \A i \in 1 .. Len(x) :
          z[i] = IF i \in start + 1 .. start + Len(y) THEN x[i] + y[i - start] ELSE x[i]
    /\ Number(z) = Number(x) + Number(y) * Weight(start)

LEMMA NumberOfAdded ==
    ASSUME NEW x \in Seq(Nat), NEW y \in Seq(Nat), NEW start \in Nat, start + Len(y) <= Len(x)
    PROVE  AddedRun(AddedAt(x, y, start), x, y, start)
<1> DEFINE z == AddedAt(x, y, start)
           n == Len(x)
           m == Len(y)
           last == start + m
           ws == Weight(start)
           G == {k \in 0 .. m : Sums(z)[start + k] = Sums(x)[start + k] + Sums(y)[k] * ws}
<1>0. n \in Nat /\ m \in Nat /\ last \in Nat /\ last <= n /\ ws \in Nat
  <2>1. Weight(start) \in Nat
    BY WeightIs
  <2> QED
    BY <2>1
<1>1. /\ z \in Seq(Nat) /\ Len(z) = n
      /\ \A i \in 1 .. n : z[i] = IF i \in start + 1 .. last THEN x[i] + y[i - start] ELSE x[i]
  <2>1. ASSUME NEW i \in 1 .. n
        PROVE  (IF i \in start + 1 .. last THEN x[i] + y[i - start] ELSE x[i]) \in Nat
    <3>1. CASE i \in start + 1 .. last
      <4>1. i - start \in 1 .. m
        BY <3>1
      <4>2. x[i] \in Nat /\ y[i - start] \in Nat
        BY <4>1
      <4> QED
        BY <3>1, <4>2, SMTT(30)
    <3>2. CASE i \notin start + 1 .. last
      BY <3>2
    <3> QED
      BY <3>1, <3>2
  <2>2. z = [i \in 1 .. n |-> IF i \in start + 1 .. last THEN x[i] + y[i - start] ELSE x[i]]
    BY DEF AddedAt
  <2> DEFINE f(i) == IF i \in start + 1 .. last THEN x[i] + y[i - start] ELSE x[i]
  <2>3. z = [i \in 1 .. n |-> f(i)] /\ \A i \in 1 .. n : f(i) \in Nat
    BY <2>1, <2>2
  <2> HIDE DEF f, z
  <2>4. z \in Seq(Nat) /\ Len(z) = n /\ \A i \in 1 .. n : z[i] = f(i)
    BY <1>0, <2>3
  <2> QED
    BY <2>4 DEF f
<1> HIDE DEF z
<1>2. 0 \in G
  <2>1. GrowAlike(x, z, 0, start)
    <3>1. 0 \in Nat /\ 0 <= start /\ start <= Len(x) /\ start <= Len(z)
      BY <1>0, <1>1
    <3>2. \A i \in 0 + 1 .. start : i \in 1 .. n /\ i \notin start + 1 .. last
      BY <1>0
    <3>3. SameBetween(x, z, 0, start)
      BY <1>1, <3>2 DEF SameBetween
    <3> QED
      BY <1>1, <3>1, <3>3, SameLimbs
  <2>2. Sums(z)[0] = 0 /\ Sums(x)[0] = 0 /\ Sums(x)[start] \in Nat /\ Sums(z)[start] \in Nat
    <3>1. start \in 0 .. Len(x) /\ start \in 0 .. Len(z)
      BY <1>0, <1>1
    <3> QED
      BY <1>1, <3>1, SumsUnfold
  <2>3. Sums(z)[start] = Sums(x)[start]
    BY <2>1, <2>2 DEF GrowAlike
  <2>4. Sums(y)[0] = 0
    BY SumsUnfold
  <2>5. start + 0 = start /\ Sums(x)[start] + 0 * ws = Sums(x)[start] /\ 0 \in 0 .. m
    BY <1>0, <2>2
  <2> QED
    BY <2>3, <2>4, <2>5
<1>3. ASSUME NEW k \in 1 .. m, k - 1 \in G PROVE k \in G
  <2> DEFINE j == start + k
             sz == Sums(z)[j - 1]
             sx == Sums(x)[j - 1]
             sy == Sums(y)[k - 1]
             u == x[j]
             v == y[k]
             wk == Weight(k - 1)
             w == Weight(j - 1)
  <2>1. /\ j \in 1 .. Len(z) /\ j \in 1 .. Len(x) /\ k \in 1 .. Len(y) /\ j \in start + 1 .. last
        /\ j - start = k /\ j - 1 = start + (k - 1) /\ k \in 0 .. m /\ k - 1 \in Nat
    BY <1>0, <1>1
  <2>2. sz = sx + sy * ws
    BY <1>3, <2>1, Zenon
  <2>3. z[j] = u + v
    <3>1. j \in 1 .. n
      BY <2>1
    <3>2. z[j] = IF j \in start + 1 .. last THEN x[j] + y[j - start] ELSE x[j]
      BY <1>1, <3>1
    <3> QED
      BY <2>1, <3>2, Zenon
  <2>4. w = ws * wk
    <3>1. Weight(start + (k - 1)) = Weight(start) * Weight(k - 1)
      BY <2>1, WeightOfBoth
    <3> QED
      BY <2>1, <3>1, Zenon
  <2> HIDE DEF j
  <2>5. u \in Nat /\ w \in Nat /\ sx \in Nat /\ Sums(x)[j] = sx + u * w
    BY <2>1, SumsAt
  <2>6. v \in Nat /\ wk \in Nat /\ sy \in Nat /\ Sums(y)[k] = sy + v * wk
    BY <2>1, SumsAt
  <2>7. Sums(z)[j] = sz + z[j] * w
    BY <1>1, <2>1, SumsAt
  <2> HIDE DEF sz, sx, sy, u, v, w, wk, ws
  <2>8. (sx + sy * ws) + (u + v) * (ws * wk) = (sx + u * (ws * wk)) + (sy + v * wk) * ws
    BY <1>0, <2>5, <2>6
  <2>9. Sums(z)[j] = Sums(x)[j] + Sums(y)[k] * ws
    BY <2>2, <2>3, <2>4, <2>5, <2>6, <2>7, <2>8, Zenon
  <2> QED
    BY <2>1, <2>9 DEF j
<1>4. m \in G
  <2>1. G \in SUBSET Nat /\ m \in 0 .. m
    BY <1>0
  <2> HIDE DEF G
  <2> QED
    BY <1>0, <1>2, <1>3, <2>1, UpTo
<1>5. Number(x) + Sums(z)[last] = Number(z) + Sums(x)[last]
  <2>1. GrowAlike(x, z, last, n)
    <3>1. last <= n /\ n <= Len(x) /\ n <= Len(z)
      BY <1>0, <1>1
    <3>2. \A i \in last + 1 .. n : i \in 1 .. n /\ i \notin start + 1 .. last
      BY <1>0
    <3>3. SameBetween(x, z, last, n)
      BY <1>1, <3>2 DEF SameBetween
    <3> HIDE DEF last
    <3> QED
      BY <1>0, <1>1, <3>1, <3>3, SameLimbs
  <2> QED
    BY <1>1, <2>1 DEF GrowAlike, Number
<1>6. Number(z) = Number(x) + Number(y) * ws
  <2>1. Sums(z)[last] = Sums(x)[last] + Sums(y)[m] * ws
    BY <1>4
  <2> DEFINE nx == Number(x)
             nz == Number(z)
             ny == Number(y)
             sx == Sums(x)[last]
             p == ny * ws
  <2>2. nx \in Nat /\ nz \in Nat /\ ny \in Nat /\ sx \in Nat
    <3>1. Len(x) \in 0 .. Len(x) /\ Len(y) \in 0 .. Len(y) /\ Len(z) \in 0 .. Len(z) /\ last \in 0 .. Len(x)
      BY <1>0, <1>1
    <3> HIDE DEF last
    <3> QED
      BY <1>1, <3>1, SumsUnfold DEF Number
  <2>3. p \in Nat
    BY <1>0, <2>2
  <2>4. nx + (sx + p) = nz + sx
    BY <1>5, <2>1 DEF Number
  <2> HIDE DEF nx, nz, ny, sx, p
  <2>5. nz = nx + p
    BY <2>2, <2>3, <2>4
  <2> QED
    BY <2>5 DEF nx, nz, ny, p
<1> QED
  BY <1>1, <1>6 DEF AddedRun, z

LEMMA NumberFits ==
    ASSUME NEW x \in Numbers
    PROVE  Number(x) \in Nat /\ Fits(Number(x))
<1>1. x \in Seq(Limbs) /\ Len(x) \in Nat /\ Len(x) <= BigintLimbs /\ BigintLimbs \in Nat
  BY NumbersAre, BigintAssumption
<1>2. Number(x) \in Nat /\ Number(x) < Weight(Len(x))
  BY <1>1, NumberBelow
<1>3. Weight(Len(x)) <= Weight(BigintLimbs) /\ Weight(Len(x)) \in Nat /\ Weight(BigintLimbs) \in Nat
  BY <1>1, WeightsGrow, WeightIs
<1> QED
  BY <1>2, <1>3 DEF Fits

(* With room for both, the addition of large_add_from is exact, and fails  *)
(* only when the sum has no room.                                          *)
LEMMA AddLimbsGives ==
    ASSUME NEW x \in Numbers, NEW y \in Numbers, NEW start \in Nat, start + Len(y) <= Len(x)
    PROVE  Gives(AddLimbs(x, y, start), Number(x) + Number(y) * Weight(start))
<1> DEFINE n == Len(x)
           last == start + Len(y)
           term == AddedAt(x, y, start)
           c == Carries(term, 0, start, last)
           z == Carried(term, c, start, last)
<1>1. /\ x \in Seq(Limbs) /\ x \in Seq(Nat) /\ n \in Nat /\ n <= BigintLimbs
      /\ y \in Seq(Limbs) /\ y \in Seq(Nat) /\ last \in Nat /\ start <= last /\ last <= n
  BY NumbersAre
<1>2. /\ term \in Seq(Nat) /\ Len(term) = n
      /\ \A i \in 1 .. n : term[i] = IF i \in start + 1 .. last THEN x[i] + y[i - start] ELSE x[i]
      /\ Number(term) = Number(x) + Number(y) * Weight(start)
  <2>1. AddedRun(AddedAt(x, y, start), x, y, start)
    BY <1>1, NumberOfAdded
  <2> QED
    BY <2>1, Zenon DEF AddedRun
<1>3. AddLimbs(x, y, start) = IF c[last] = 0 THEN Big(TRUE, z) ELSE SmallAddFrom(z, 1, last)
  BY Zenon DEF AddLimbs, AddedAt, term, c, z
<1> HIDE DEF term
<1>4. Bounded(term, 1, start, last)
  <2>1. ASSUME NEW i \in start + 1 .. last PROVE term[i] + 1 < (1 + 1) * Limb
    <3> DEFINE u == x[i]
               v == y[i - start]
    <3>1. i \in 1 .. n /\ i - start \in 1 .. Len(y) /\ i \in 1 .. Len(x)
      BY <1>1
    <3>2. u \in Limbs /\ v \in Limbs
      BY <1>1, <3>1
    <3>3. term[i] = u + v
      BY <1>2, <3>1
    <3> HIDE DEF u, v
    <3>4. u \in Nat /\ v \in Nat /\ u <= Limb - 1 /\ v <= Limb - 1 /\ Limb \in Nat
      BY <3>2, LimbsAre, WordIs
    <3> QED
      BY <3>3, <3>4
  <2> QED
    BY <2>1 DEF Bounded
<1>5. c[last] \in 0 .. 1 /\ Passed(term, start, last, c, z, 0)
  <2>1. PassedAll(term, start, last, 0, 1)
    <3>1. last <= Len(term) /\ 0 \in 0 .. 1 /\ 1 \in Nat
      BY <1>1, <1>2
    <3> HIDE DEF last
    <3> QED
      BY <1>1, <1>2, <1>4, <3>1, PassedOn
  <2> QED
    BY <2>1 DEF PassedAll
<1> HIDE DEF c, z, last
<1>6. z \in Numbers /\ Len(z) = n
  <2>1. \A i \in 1 .. Len(term) : i \notin start + 1 .. last => term[i] \in Limbs
    <3>1. \A i \in 1 .. n : x[i] \in Limbs
      BY <1>1
    <3> QED
      BY <1>2, <3>1, Zenon
  <2>2. Len(term) <= BigintLimbs
    BY <1>1, <1>2
  <2> QED
    <3>1. Passed(term, start, last, c, z, 0) /\ term \in Seq(Nat) /\ start \in Nat /\ last \in Nat
      BY <1>1, <1>2, <1>5
    <3>2. z \in Numbers
      BY <2>1, <2>2, <3>1, PassedNumbers, Zenon
    <3> QED
      BY <1>2, <3>1, <3>2 DEF Passed
<1>7. Number(z) + c[last] * Weight(last) = Number(term)
  <2>1. 0 * Weight(start) = 0
    BY WeightIs
  <2>2. Number(term) \in Nat
    <3>1. Len(term) \in 0 .. Len(term)
      BY <1>2
    <3> QED
      BY <1>2, <3>1, SumsUnfold DEF Number
  <2> QED
    BY <1>5, <2>1, <2>2 DEF Passed
<1>8. CASE c[last] = 0
  <2>1. Weight(last) \in Nat /\ Number(z) \in Nat /\ Fits(Number(z))
    BY <1>1, <1>6, WeightIs, NumberFits
  <2>2. Number(z) = Number(term)
    BY <1>7, <1>8, <2>1
  <2>3. AddLimbs(x, y, start) = Big(TRUE, z)
    BY <1>3, <1>8
  <2>4. Gives(Big(TRUE, z), Number(term))
    BY <1>6, <2>1, <2>2 DEF Gives, Bigs, Big
  <2> QED
    BY <1>2, <2>3, <2>4, Zenon
<1>9. CASE c[last] = 1
  <2>1. Gives(SmallAddFrom(z, 1, last), Number(z) + 1 * Weight(last))
    <3>1. 1 \in Limbs /\ last <= Len(z)
      BY <1>1, <1>6, WordIs DEF Limbs
    <3> QED
      BY <1>1, <1>6, <3>1, SmallAddIsExact
  <2>2. Number(z) + 1 * Weight(last) = Number(term)
    BY <1>7, <1>9, Zenon
  <2>3. AddLimbs(x, y, start) = SmallAddFrom(z, 1, last)
    BY <1>3, <1>9
  <2> QED
    BY <1>2, <2>1, <2>2, <2>3, Zenon
<1> QED
  BY <1>5, <1>8, <1>9

(* large_add_from adds a vector at any place exactly: past the last limb,  *)
(* with zeros in between, and with a carry out of the last sum.  It fails  *)
(* only when the sum has no room.  That zeros on top of y would make it    *)
(* resize in vain is why y has none.                                       *)
THEOREM LargeAddIsExact ==
    ASSUME NEW x \in Numbers, NEW y \in Numbers, NoZeroOnTop(y), NEW start \in Nat, start <= BigintLimbs
    PROVE  Gives(LargeAddFrom(x, y, start), Number(x) + Number(y) * Weight(start))
<1> DEFINE n == Len(x)
           m == Len(y)
           ws == Weight(start)
           total == Number(x) + Number(y) * ws
<1>1. /\ n \in Nat /\ n <= BigintLimbs /\ m \in Nat /\ m <= BigintLimbs /\ BigintLimbs \in Nat
      /\ x \in Seq(Limbs) /\ y \in Seq(Limbs)
  BY NumbersAre, BigintAssumption
<1>2. CASE m + start <= n
  <2>1. ~(Len(y) + start > Len(x)) /\ start + Len(y) <= Len(x)
    BY <1>1, <1>2
  <2>2. LargeAddFrom(x, y, start) = AddLimbs(x, y, start)
    BY <2>1 DEF LargeAddFrom, Big
  <2> QED
    BY <2>1, <2>2, AddLimbsGives
<1>3. CASE m + start > n /\ m + start <= BigintLimbs
  <2> DEFINE z == TryResize(x, m + start)
  <2>1. z.ok /\ z.vec \in Numbers /\ Len(z.vec) = m + start /\ Number(z.vec) = Number(x)
    <3>1. m + start \in Nat /\ Len(x) <= m + start
      BY <1>1, <1>3
    <3> HIDE DEF m
    <3> QED
      BY <1>3, <3>1, NumberOfPadded
  <2>2. LargeAddFrom(x, y, start) = AddLimbs(z.vec, y, start)
    BY <1>3, <2>1 DEF LargeAddFrom
  <2> HIDE DEF z
  <2>3. start + Len(y) <= Len(z.vec)
    BY <1>1, <2>1
  <2>4. Gives(AddLimbs(z.vec, y, start), Number(z.vec) + Number(y) * Weight(start))
    BY <2>1, <2>3, AddLimbsGives
  <2> QED
    BY <2>1, <2>2, <2>4, Zenon
<1>4. CASE m + start > BigintLimbs
  <2>1. m + start > n
    BY <1>1, <1>4
  <2>2. LargeAddFrom(x, y, start) = Big(FALSE, x)
    BY <1>4, <2>1 DEF LargeAddFrom, TryResize, Big
  <2>3. y # << >>
    BY <1>1, <1>4
  <2>4. m - 1 \in Nat /\ Number(y) >= Weight(m - 1) /\ Number(y) \in Nat /\ Number(x) \in Nat
    BY <1>1, <2>3, NormalAtLeast, NumberFits DEF NoZeroOnTop
  <2>5. Weight((m - 1) + start) >= Weight(BigintLimbs) /\ Weight(BigintLimbs) \in Nat
    <3>1. BigintLimbs <= (m - 1) + start /\ (m - 1) + start \in Nat
      BY <1>1, <1>4, <2>4
    <3> HIDE DEF m
    <3>2. Weight(BigintLimbs) <= Weight((m - 1) + start)
      BY <1>1, <3>1, WeightsGrow
    <3>3. Weight(BigintLimbs) \in Nat /\ Weight((m - 1) + start) \in Nat
      BY <1>1, <3>1, WeightIs
    <3> QED
      BY <3>2, <3>3
  <2>6. Weight((m - 1) + start) = Weight(m - 1) * ws
    BY <2>4, WeightOfBoth
  <2>7. ws \in Nat /\ Weight(m - 1) \in Nat
    <3> HIDE DEF m
    <3> QED
      BY <2>4, WeightIs
  <2> DEFINE ny == Number(y)   wy == Weight(m - 1)   nx == Number(x)
  <2>8. ny * ws >= wy * ws /\ ny * ws \in Nat /\ wy * ws \in Nat
    <3>1. ny \in Nat /\ wy \in Nat /\ ws \in Nat /\ ny >= wy
      BY <2>4, <2>7
    <3> HIDE DEF ny, wy, ws
    <3> QED
      BY <3>1
  <2>9. ~Fits(total)
    <3> DEFINE p == ny * ws   q == wy * ws
    <3>1. p >= q /\ p \in Nat /\ q \in Nat /\ nx \in Nat /\ q >= Weight(BigintLimbs)
      BY <2>4, <2>5, <2>6, <2>8
    <3>2. total = nx + p
      OBVIOUS
    <3> HIDE DEF p, q, nx, total
    <3> QED
      BY <2>5, <3>1, <3>2 DEF Fits
  <2>10. Big(FALSE, x) \in Bigs /\ ~Big(FALSE, x).ok
    BY DEF Big, Bigs
  <2> HIDE DEF total
  <2>11. Gives(LargeAddFrom(x, y, start), total)
    BY <2>2, <2>9, <2>10, Zenon DEF Gives
  <2> QED
    BY <2>11 DEF total
<1> QED
  BY <1>1, <1>2, <1>3, <1>4

LEMMA Largest ==
    ASSUME NEW n \in Nat, NEW S \in SUBSET (0 .. n), S # {}
    PROVE  Max(S) \in S /\ \A k \in S : k <= Max(S)
<1> DEFINE T == {n - k : k \in S}
<1>0. \A k \in S : k \in Nat /\ k <= n /\ n - k \in Nat
  OBVIOUS
<1>1. T \in SUBSET Nat /\ T # {}
  BY <1>0, Zenon
<1>2. PICK t \in T : \A u \in T : t <= u
  <2> HIDE DEF T
  <2> QED
    BY <1>1, Smallest
<1>3. PICK m \in S : t = n - m
  OBVIOUS
<1>4. \A k \in S : k <= m
  <2>1. \A k \in S : n - k \in T
    BY Zenon
  <2> HIDE DEF T
  <2>2. ASSUME NEW k \in S PROVE k <= m
    <3>1. n - m <= n - k
      BY <1>2, <1>3, <2>1
    <3> QED
      BY <1>0, <3>1
  <2> QED
    BY <2>2
<1>5. Max(S) = m
  <2>1. S \in SUBSET Int
    OBVIOUS
  <2> QED
    BY <1>4, <2>1, MaxIs
<1> QED
  BY <1>4, <1>5

(* normalize takes zeros off the top and keeps the number. *)
LEMMA NormalizeKeeps ==
    ASSUME NEW x \in Numbers
    PROVE  /\ Normalize(x) \in Numbers /\ NoZeroOnTop(Normalize(x))
           /\ Number(Normalize(x)) = Number(x)
<1> DEFINE n == Len(x)
           S == {0} \cup {i \in 1 .. n : x[i] # 0}
           m == Max(S)
           z == Normalize(x)
<1>1. x \in Seq(Limbs) /\ n \in Nat /\ n <= BigintLimbs /\ BigintLimbs \in Nat
  BY NumbersAre, BigintAssumption
<1>2. m \in S /\ \A k \in S : k <= m
  <2>1. S \in SUBSET (0 .. n) /\ S # {}
    BY <1>1
  <2> HIDE DEF S, n
  <2> QED
    BY <1>1, <2>1, Largest
<1>3. z = SubSeq(x, 1, m)
  BY DEF Normalize
<1> HIDE DEF m
<1>4. m \in Nat /\ m <= n /\ (m # 0 => x[m] # 0) /\ \A i \in 1 .. n : x[i] # 0 => i <= m
  BY <1>1, <1>2
<1> HIDE DEF z
<1>5. z \in Seq(Limbs) /\ Len(z) = m /\ \A i \in 1 .. m : z[i] = x[i]
  BY <1>1, <1>3, <1>4
<1>6. z \in Numbers
  BY <1>1, <1>4, <1>5 DEF Numbers
<1>7. NoZeroOnTop(z)
  <2>1. z # << >> => m # 0 /\ m \in 1 .. m
    BY <1>4, <1>5
  <2> QED
    BY <1>4, <1>5, <2>1 DEF NoZeroOnTop
<1>8. TryResize(z, n) = Big(TRUE, x)
  <2>1. [i \in 1 .. n |-> IF i <= m THEN z[i] ELSE 0] = x
    <3>1. \A i \in 1 .. n : (IF i <= m THEN z[i] ELSE 0) = x[i]
      <4>1. \A i \in 1 .. n : i <= m => i \in 1 .. m
        BY <1>4
      <4>2. \A i \in 1 .. n : ~(i <= m) => x[i] = 0
        BY <1>4
      <4> QED
        BY <1>5, <4>1, <4>2, Zenon
    <3>2. x = [i \in 1 .. n |-> x[i]]
      BY <1>1
    <3> DEFINE f(i) == IF i <= m THEN z[i] ELSE 0
    <3>3. \A i \in 1 .. n : f(i) = x[i]
      BY <3>1
    <3> HIDE DEF f
    <3>4. [i \in 1 .. n |-> f(i)] = [i \in 1 .. n |-> x[i]]
      BY <3>3
    <3> QED
      BY <3>2, <3>4 DEF f
  <2>2. ~(n > BigintLimbs)
    BY <1>1
  <2> QED
    BY <1>5, <2>1, <2>2, Zenon DEF TryResize
<1>9. Number(x) = Number(z)
  <2>1. Number(TryResize(z, n).vec) = Number(z)
    <3>1. Len(z) <= n
      BY <1>4, <1>5
    <3> HIDE DEF n
    <3> QED
      BY <1>1, <1>6, <3>1, NumberOfPadded
  <2> QED
    BY <1>8, <2>1 DEF Big
<1> QED
  BY <1>6, <1>7, <1>9 DEF z

(* An operation that does not make the number smaller leaves no zero on top. *)
LEMMA PushedNormal ==
    ASSUME NEW x \in Numbers, NoZeroOnTop(x), NEW b, NEW t \in Nat, t >= Number(x), Pushed(b, x, t), b.ok
    PROVE  NoZeroOnTop(b.vec)
<1> DEFINE n == Len(x)
           w == Weight(n - 1)
<1>1. PICK z \in Numbers, c \in Limbs : PushedWith(b, x, t, z, c)
  BY DEF Pushed
<1>2. b = PushCarry(z, c) /\ Len(z) = n /\ Number(z) + c * Weight(n) = t
  BY <1>1 DEF PushedWith
<1>3. x \in Seq(Limbs) /\ z \in Seq(Limbs) /\ n \in Nat /\ c \in Nat
  BY NumbersAre, LimbsAre
<1>4. CASE c # 0
  <2>1. b.vec = Append(z, c)
    BY <1>2, <1>4 DEF PushCarry, TryPush, Big
  <2>2. Len(Append(z, c)) = n + 1 /\ Append(z, c)[n + 1] = c
    BY <1>2, <1>3
  <2> QED
    BY <1>4, <2>1, <2>2 DEF NoZeroOnTop
<1>5. CASE c = 0 /\ (z = << >> \/ z[n] # 0)
  <2>1. b.vec = z
    BY <1>2, <1>5 DEF PushCarry, TryPush, Big
  <2> QED
    BY <1>2, <1>5, <2>1 DEF NoZeroOnTop
<1>6. CASE z # << >> /\ z[n] = 0 /\ c = 0
  <2>1. Number(z) < w /\ n - 1 \in Nat
    BY <1>2, <1>3, <1>6, NormalAtLeast
  <2>2. x # << >>
    BY <1>2, <1>3, <1>6
  <2>3. Number(x) >= w
    BY <1>3, <2>2, NormalAtLeast DEF NoZeroOnTop
  <2>4. w \in Nat /\ Weight(n) \in Nat
    <3> HIDE DEF n
    <3> QED
      BY <1>3, <2>1, WeightIs
  <2>5. Number(z) \in Nat /\ Number(x) \in Nat
    BY NumberFits
  <2> DEFINE nx == Number(x)   nz == Number(z)   wn == Weight(n)
  <2>6. /\ nz + c * wn = t /\ t >= nx /\ nz < w /\ nx >= w
        /\ nz \in Nat /\ nx \in Nat /\ wn \in Nat /\ w \in Nat
    BY <1>2, <2>1, <2>3, <2>4, <2>5
  <2> HIDE DEF nx, nz, wn, w
  <2>7. c * wn = 0
    BY <1>6, <2>6
  <2>8. FALSE
    BY <2>6, <2>7
  <2> QED
    BY <2>8
<1> QED
  BY <1>4, <1>5, <1>6

LEMMA SmallMulNormal ==
    ASSUME NEW x \in Numbers, NoZeroOnTop(x), NEW y \in Limbs, y # 0
    PROVE  SmallMul(x, y).ok => NoZeroOnTop(SmallMul(x, y).vec)
<1> DEFINE nx == Number(x)
<1>1. nx \in Nat /\ y \in Nat
  BY NumberFits, LimbsAre
<1>2. Pushed(SmallMul(x, y), x, nx * y)
  BY SmallMulIs
<1>3. nx * y \in Nat /\ nx * y >= nx
  <2> HIDE DEF nx
  <2> QED
    BY <1>1
<1> DEFINE t == nx * y
<1>4. t \in Nat /\ t >= Number(x) /\ Pushed(SmallMul(x, y), x, t)
  BY <1>2, <1>3
<1> HIDE DEF t
<1> QED
  BY <1>4, PushedNormal

LEMMA ProductAtLeast ==
    ASSUME NEW a \in Nat, NEW v \in Nat, NEW w \in Nat \ {0}
    PROVE  a * w \in Nat /\ v + a * w >= a
OBVIOUS

LEMMA DoesNotFit ==
    ASSUME NEW a \in Nat, NEW n \in Nat, n >= a, ~Fits(a)
    PROVE  ~Fits(n)
<1>1. Weight(BigintLimbs) \in Nat
  BY WeightIs, BigintAssumption
<1> QED
  BY <1>1 DEF Fits

LEMMA AddProductGives ==
    ASSUME NEW v \in Numbers, NEW x \in Numbers, NoZeroOnTop(x), NEW yi \in Limbs, yi # 0,
           NEW start \in Nat, start <= BigintLimbs
    PROVE  Gives(AddProduct(v, x, yi, start), Number(v) + (Number(x) * yi) * Weight(start))
<1> DEFINE zi == SmallMul(x, yi)
           a == Number(x) * yi
           w == Weight(start)
<1>1. Gives(zi, a)
  BY SmallMulIsExact
<1>2. zi.ok => NoZeroOnTop(zi.vec)
  BY SmallMulNormal
<1>3. AddProduct(v, x, yi, start) = IF zi.ok THEN LargeAddFrom(v, zi.vec, start) ELSE Big(FALSE, v)
  BY Zenon DEF AddProduct
<1>4. Number(v) \in Nat /\ Number(x) \in Nat /\ yi \in Nat /\ w \in Nat \ {0}
  BY NumberFits, LimbsAre, WeightIs
<1>5. a \in Nat
  BY <1>4
<1> HIDE DEF zi, a, w
<1>6. CASE zi.ok
  <2>1. zi.vec \in Numbers /\ Number(zi.vec) = a /\ NoZeroOnTop(zi.vec)
    BY <1>1, <1>2, <1>6 DEF Gives, Bigs
  <2>2. Gives(LargeAddFrom(v, zi.vec, start), Number(v) + Number(zi.vec) * Weight(start))
    BY <2>1, LargeAddIsExact
  <2> QED
    BY <1>3, <1>6, <2>1, <2>2, Zenon DEF a, w
<1>7. CASE ~zi.ok
  <2>1. ~Fits(a)
    BY <1>1, <1>7 DEF Gives
  <2>2. a * w \in Nat /\ Number(v) + a * w >= a
    BY <1>4, <1>5, ProductAtLeast
  <2> DEFINE t == Number(v) + a * w
  <2>3. t \in Nat /\ t >= a
    BY <1>4, <2>2
  <2> HIDE DEF t
  <2>4. ~Fits(t)
    BY <1>5, <2>1, <2>3, DoesNotFit
  <2>5. Big(FALSE, v) \in Bigs /\ ~Big(FALSE, v).ok
    BY DEF Big, Bigs
  <2>6. Gives(AddProduct(v, x, yi, start), t)
    BY <1>3, <1>7, <2>4, <2>5, Zenon DEF Gives
  <2> QED
    BY <2>6 DEF t, a, w
<1> QED
  BY <1>6, <1>7

(* One limb of y more. *)
RowStep(x, y, i, b) == IF y[i] = 0 \/ ~b.ok THEN b ELSE AddProduct(b.vec, x, y[i], i - 1)

RowAdded(x, y, i, b) ==
    /\ RowStep(x, y, i, b) \in Bigs
    /\ Gives(b, Number(x) * Sums(y)[i - 1]) => Gives(RowStep(x, y, i, b), Number(x) * Sums(y)[i])

LEMMA RowStepGives ==
    ASSUME NEW x \in Numbers, NoZeroOnTop(x), NEW y \in Numbers, NEW i \in 1 .. Len(y), NEW b \in Bigs
    PROVE  RowAdded(x, y, i, b)
<1> DEFINE nx == Number(x)
           s == Sums(y)[i - 1]
           t == Sums(y)[i]
           u == y[i]
           w == Weight(i - 1)
           r == RowStep(x, y, i, b)
<1>1. /\ u \in Limbs /\ u \in Nat /\ w \in Nat \ {0} /\ s \in Nat /\ t = s + u * w
      /\ i - 1 \in Nat /\ i - 1 <= BigintLimbs
  <2>1. y \in Seq(Limbs) /\ y \in Seq(Nat) /\ Len(y) \in Nat /\ Len(y) <= BigintLimbs /\ BigintLimbs \in Nat
    BY NumbersAre, BigintAssumption
  <2>2. u \in Limbs /\ i - 1 \in Nat /\ i - 1 <= BigintLimbs
    BY <2>1
  <2>3. u \in Nat /\ w \in Nat \ {0} /\ s \in Nat /\ t = s + u * w
    BY <2>1, SumsAt
  <2> QED
    BY <2>2, <2>3
<1>2. nx \in Nat
  BY NumberFits
<1>3. b.vec \in Numbers /\ b.ok \in BOOLEAN
  BY DEF Bigs
<1>4. r = IF u = 0 \/ ~b.ok THEN b ELSE AddProduct(b.vec, x, u, i - 1)
  BY Zenon DEF RowStep
<1> HIDE DEF nx, s, t, u, w, r
<1>5. CASE u = 0
  <2>1. t = s
    BY <1>1, <1>5
  <2>2. r = b
    BY <1>4, <1>5
  <2> QED
    BY <2>1, <2>2, Zenon DEF RowAdded, r, s, t
<1>6. CASE ~b.ok
  <2>1. r = b
    BY <1>4, <1>6
  <2>2. nx * s \in Nat /\ nx * t \in Nat /\ nx * t >= nx * s
    <3>1. u * w \in Nat
      BY <1>1
    <3> DEFINE p == u * w
    <3>2. t = s + p /\ p \in Nat
      BY <1>1, <3>1
    <3> HIDE DEF p
    <3>3. t \in Nat /\ t >= s
      BY <1>1, <3>2
    <3> QED
      BY <1>1, <1>2, <3>2, <3>3
  <2>3. Gives(b, nx * s) => Gives(b, nx * t)
    <3> DEFINE p == nx * s   q == nx * t
    <3>1. p \in Nat /\ q \in Nat /\ q >= p
      BY <2>2
    <3> HIDE DEF p, q
    <3>2. Gives(b, p) => ~Fits(p)
      BY <1>6 DEF Gives
    <3>3. ~Fits(p) => ~Fits(q)
      BY <3>1, DoesNotFit
    <3>4. Gives(b, p) => Gives(b, q)
      BY <1>6, <3>2, <3>3 DEF Gives
    <3> QED
      BY <3>4 DEF p, q
  <2> QED
    BY <2>1, <2>3, Zenon DEF RowAdded, r, s, t, nx
<1>7. CASE u # 0 /\ b.ok
  <2> DEFINE v == b.vec
             start == i - 1
  <2>1. v \in Numbers /\ start \in Nat /\ start <= BigintLimbs
    BY <1>1, <1>3
  <2> HIDE DEF v, start
  <2>2. Gives(AddProduct(v, x, u, start), Number(v) + (Number(x) * u) * Weight(start))
    BY <1>1, <1>7, <2>1, AddProductGives
  <2>3. r = AddProduct(v, x, u, start) /\ w = Weight(start)
    BY <1>4, <1>7 DEF v, start, w
  <2>4. r \in Bigs
    BY <2>2, <2>3 DEF Gives
  <2>5. Gives(b, nx * s) => Number(v) = nx * s
    BY <1>7 DEF Gives, v
  <2>6. nx * s + (nx * u) * w = nx * t
    BY <1>1, <1>2
  <2>7. Gives(b, nx * s) => Gives(r, nx * t)
    BY <2>2, <2>3, <2>5, <2>6, Zenon DEF nx
  <2> QED
    BY <2>4, <2>7, Zenon DEF RowAdded, r, s, t, nx
<1> QED
  BY <1>3, <1>5, <1>6, <1>7

RowsAre(x, y, r) ==
    r = [i \in 1 .. Len(y) |->
            IF i = 1 THEN SmallMul(x, y[1])
            ELSE IF y[i] = 0 \/ ~r[i - 1].ok THEN r[i - 1]
            ELSE AddProduct(r[i - 1].vec, x, y[i], i - 1)]

Rows(x, y) == CHOOSE r : RowsAre(x, y, r)

LEMMA LongMulIs ==
    ASSUME NEW x, NEW y, y # << >>
    PROVE  LongMul(x, y) =
              Big(Rows(x, y)[Len(y)].ok,
                  IF Rows(x, y)[Len(y)].ok THEN Normalize(Rows(x, y)[Len(y)].vec)
                  ELSE Rows(x, y)[Len(y)].vec)
BY DEF LongMul, Rows, RowsAre

(* The rows exist: each follows from the one before. *)
RowsRun(x, y, r) ==
    /\ r[1] = SmallMul(x, y[1])
    /\ \A i \in 2 .. Len(y) : r[i] = RowStep(x, y, i, r[i - 1])

LEMMA RowsUnfold ==
    ASSUME NEW x \in Numbers, NoZeroOnTop(x), NEW y \in Numbers, y # << >>
    PROVE  RowsRun(x, y, Rows(x, y))
<1> DEFINE n == Len(y)
           first == SmallMul(x, y[1])
           h == [p \in (1 .. n - 1) \X Bigs |-> RowStep(x, y, p[1] + 1, p[2])]
<1>1. y \in Seq(Limbs) /\ n \in Nat \ {0} /\ n - 1 \in Nat
  BY NumbersAre
<1>2. first \in Bigs
  <2>1. y[1] \in Limbs
    BY <1>1
  <2> QED
    BY <2>1, SmallMulIsExact DEF Gives
<1> HIDE DEF first
<1>3. ASSUME NEW k \in 1 .. n - 1, NEW b \in Bigs PROVE RowStep(x, y, k + 1, b) \in Bigs
  <2>1. k + 1 \in 1 .. Len(y)
    BY <1>1
  <2>2. RowAdded(x, y, k + 1, b)
    BY <2>1, RowStepGives
  <2> QED
    BY <2>2 DEF RowAdded
<1>4. h \in [(1 .. n - 1) \X Bigs -> Bigs]
  <2>1. \A p \in (1 .. n - 1) \X Bigs : RowStep(x, y, p[1] + 1, p[2]) \in Bigs
    BY <1>3
  <2> HIDE DEF n
  <2> QED
    BY <2>1
<1>5. PICK r \in [0 .. n - 1 -> Bigs] : Chain(r, n - 1, first, h)
  <2> DEFINE m == n - 1
  <2>1. m \in Nat /\ h \in [(1 .. m) \X Bigs -> Bigs]
    BY <1>1, <1>4
  <2> HIDE DEF h, m
  <2>2. \E r \in [0 .. m -> Bigs] : Chain(r, m, first, h)
    BY <1>2, <2>1, ChainExists
  <2> QED
    BY <2>2 DEF m
<1> DEFINE q == [i \in 1 .. n |-> r[i - 1]]
<1>6. q[1] = first
  <2>1. r[0] = first
    BY <1>5 DEF Chain
  <2>2. 1 \in 1 .. n /\ 1 - 1 = 0
    BY <1>1
  <2> HIDE DEF n
  <2> QED
    BY <2>1, <2>2
<1>7. ASSUME NEW i \in 2 .. n PROVE q[i] = RowStep(x, y, i, q[i - 1])
  <2> DEFINE k == i - 1
  <2>1. k \in 1 .. n - 1 /\ k + 1 = i /\ k - 1 \in 0 .. n - 1 /\ i \in 1 .. n /\ k \in 1 .. n
    BY <1>1
  <2>2. r[k] = h[<<k, r[k - 1]>>] /\ r[k - 1] \in Bigs
    <3> HIDE DEF h, k
    <3> QED
      BY <1>5, <2>1 DEF Chain
  <2>3. <<k, r[k - 1]>> \in (1 .. n - 1) \X Bigs
    BY <2>1, <2>2, Zenon
  <2>4. h[<<k, r[k - 1]>>] = RowStep(x, y, k + 1, r[k - 1])
    <3> HIDE DEF n, k
    <3> QED
      BY <2>3
  <2>5. q[i] = r[k] /\ q[k] = r[k - 1]
    <3> HIDE DEF n, h
    <3> QED
      BY <2>1
  <2> QED
    BY <2>1, <2>2, <2>4, <2>5, Zenon
<1> HIDE DEF h
<1>8. RowsAre(x, y, q)
  <2> DEFINE g(i) == IF i = 1 THEN SmallMul(x, y[1])
                     ELSE IF y[i] = 0 \/ ~q[i - 1].ok THEN q[i - 1]
                     ELSE AddProduct(q[i - 1].vec, x, y[i], i - 1)
  <2>1. ASSUME NEW i \in 1 .. n PROVE q[i] = g(i)
    <3> HIDE DEF q
    <3>1. CASE i = 1
      BY <1>6, <3>1, Zenon DEF first
    <3>2. CASE i # 1
      <4>1. i \in 2 .. n
        BY <1>1, <3>2
      <4> QED
        BY <1>7, <3>2, <4>1, Zenon DEF RowStep
    <3> QED
      BY <3>1, <3>2
  <2>2. q = [i \in 1 .. n |-> q[i]]
    OBVIOUS
  <2> HIDE DEF q, g
  <2>3. q = [i \in 1 .. n |-> g(i)]
    BY <2>1, <2>2
  <2> QED
    BY <2>3, Zenon DEF RowsAre, g
<1> DEFINE R == Rows(x, y)
<1>9. RowsAre(x, y, R)
  <2> HIDE DEF q
  <2> QED
    BY <1>8, Zenon DEF Rows
<1> HIDE DEF q, R
<1>10. R = [i \in 1 .. n |->
            IF i = 1 THEN SmallMul(x, y[1])
            ELSE IF y[i] = 0 \/ ~R[i - 1].ok THEN R[i - 1]
            ELSE AddProduct(R[i - 1].vec, x, y[i], i - 1)]
  BY <1>9, Zenon DEF RowsAre
<1>11. R[1] = SmallMul(x, y[1])
  <2>1. 1 \in 1 .. n
    BY <1>1
  <2> QED
    BY <1>10, <2>1, Zenon
<1>12. ASSUME NEW i \in 2 .. n PROVE R[i] = RowStep(x, y, i, R[i - 1])
  <2>1. i \in 1 .. n /\ i # 1
    BY <1>1
  <2> QED
    BY <1>10, <2>1, Zenon DEF RowStep
<1> QED
  BY <1>11, <1>12 DEF RowsRun, R

(* long_mul is exact: the rows it adds, those of the limbs of y that are   *)
(* not zero, are the product.  It fails only when that has no room, and    *)
(* leaves no zero on top.  An empty y it does not multiply with at all; no *)
(* caller has one.                                                         *)
THEOREM LongMulIsExact ==
    ASSUME NEW x \in Numbers, NoZeroOnTop(x), NEW y \in Numbers, y # << >>
    PROVE  /\ Gives(LongMul(x, y), Number(x) * Number(y))
           /\ LongMul(x, y).ok => NoZeroOnTop(LongMul(x, y).vec)
<1> DEFINE n == Len(y)
           R == Rows(x, y)
           s == Sums(y)
           G == {k \in 0 .. n - 1 : Gives(R[k + 1], Number(x) * s[k + 1])}
<1>1. y \in Seq(Limbs) /\ y \in Seq(Nat) /\ n \in Nat \ {0} /\ n - 1 \in Nat
  BY NumbersAre
<1>2. R[1] = SmallMul(x, y[1]) /\ \A i \in 2 .. n : R[i] = RowStep(x, y, i, R[i - 1])
  <2>1. RowsRun(x, y, Rows(x, y))
    BY RowsUnfold
  <2> QED
    BY <2>1 DEF RowsRun
<1> HIDE DEF R
<1>3. 0 \in G
  <2>1. 1 \in 1 .. Len(y) /\ y[1] \in Limbs /\ 1 - 1 = 0 /\ y[1] \in Nat
    BY <1>1, LimbsAre
  <2>2. Gives(R[1], Number(x) * y[1])
    BY <1>2, <2>1, SmallMulIsExact
  <2>3. s[1] = s[0] + y[1] * Weight(0) /\ s[0] = 0 /\ Weight(0) = 1
    BY <1>1, <2>1, SumsUnfold, WeightIs
  <2>4. s[1] = y[1]
    BY <2>1, <2>3
  <2>5. 0 + 1 = 1 /\ 0 \in 0 .. n - 1
    BY <1>1
  <2> HIDE DEF s
  <2> QED
    BY <2>2, <2>4, <2>5
<1>4. ASSUME NEW k \in 1 .. n - 1, k - 1 \in G PROVE k \in G
  <2> DEFINE i == k + 1
  <2>1. i \in 2 .. n /\ i \in 1 .. Len(y) /\ i - 1 = (k - 1) + 1 /\ k \in 0 .. n - 1
    BY <1>1
  <2>2. Gives(R[i - 1], Number(x) * s[i - 1])
    BY <1>4, <2>1, Zenon
  <2> HIDE DEF i
  <2>3. R[i - 1] \in Bigs
    BY <2>2 DEF Gives
  <2>4. RowAdded(x, y, i, R[i - 1])
    BY <2>1, <2>3, RowStepGives
  <2>5. Gives(R[i], Number(x) * s[i])
    BY <1>2, <2>1, <2>2, <2>4, Zenon DEF RowAdded
  <2> QED
    BY <2>1, <2>5 DEF i
<1>5. n - 1 \in G
  <2>1. G \in SUBSET Nat /\ n - 1 \in 0 .. n - 1
    BY <1>1
  <2> DEFINE m == n - 1
  <2>2. m \in Nat /\ G \in SUBSET Nat /\ m \in 0 .. m /\ 0 \in G
    BY <1>1, <1>3, <2>1
  <2>3. \A k \in 1 .. m : k - 1 \in G => k \in G
    BY <1>4
  <2> HIDE DEF G, m
  <2>4. m \in G
    BY <2>2, <2>3, UpTo
  <2> QED
    BY <2>4 DEF m
<1>6. Gives(R[n], Number(x) * Number(y))
  <2>1. (n - 1) + 1 = n
    BY <1>1
  <2> QED
    BY <1>5, <2>1, Zenon DEF Number
<1>7. LongMul(x, y) = Big(R[n].ok, IF R[n].ok THEN Normalize(R[n].vec) ELSE R[n].vec)
  BY LongMulIs DEF R
<1> HIDE DEF n, s
<1>8. R[n] \in Bigs
  BY <1>6 DEF Gives
<1>9. R[n].vec \in Numbers /\ R[n].ok \in BOOLEAN
  BY <1>8 DEF Bigs
<1> DEFINE v == R[n].vec
           p == Number(x) * Number(y)
<1>10. Normalize(v) \in Numbers /\ NoZeroOnTop(Normalize(v)) /\ Number(Normalize(v)) = Number(v)
  <2>1. v \in Numbers
    BY <1>9
  <2> HIDE DEF v
  <2> QED
    BY <2>1, NormalizeKeeps
<1> HIDE DEF v, p
<1>11. CASE R[n].ok
  <2>1. LongMul(x, y) = Big(TRUE, Normalize(v))
    BY <1>7, <1>11 DEF v
  <2>2. Number(v) = p /\ Fits(p)
    BY <1>6, <1>11 DEF Gives, v, p
  <2>3. Gives(Big(TRUE, Normalize(v)), p)
    BY <1>10, <2>2 DEF Gives, Big, Bigs
  <2> QED
    BY <1>10, <2>1, <2>3 DEF Big, p
<1>12. CASE ~R[n].ok
  <2>1. LongMul(x, y) = Big(FALSE, v)
    BY <1>7, <1>9, <1>12 DEF v
  <2>2. ~Fits(p)
    BY <1>6, <1>12 DEF Gives, p
  <2>3. Gives(Big(FALSE, v), p)
    BY <1>9, <2>2 DEF Gives, Big, Bigs, v
  <2> QED
    BY <2>1, <2>3 DEF Big, p
<1> QED
  BY <1>11, <1>12

-------------------------------------------------------------------------------
LEMMA TopDecides ==
    ASSUME NEW w \in Nat, NEW s \in Nat, s < w, NEW t \in Nat, t < w,
           NEW u \in Nat, NEW v \in Nat, u > v
    PROVE  s + u * w > t + v * w
<1>1. u * w >= (v + 1) * w
  OBVIOUS
<1>2. (v + 1) * w = v * w + w /\ v * w \in Nat /\ u * w \in Nat
  OBVIOUS
<1> DEFINE p == u * w   q == v * w
<1>3. p >= q + w /\ p \in Nat /\ q \in Nat
  BY <1>1, <1>2
<1> HIDE DEF p, q
<1>4. s + p > t + q
  BY <1>3
<1> QED
  BY <1>4 DEF p, q

(* The vector with more limbs is the larger number. *)
LEMMA LongerIsLarger ==
    ASSUME NEW x \in Numbers, NEW y \in Numbers, NoZeroOnTop(x), Len(x) > Len(y)
    PROVE  Number(x) > Number(y)
<1> DEFINE m == Len(x) - 1
           n == Len(y)
<1>1. x \in Seq(Limbs) /\ y \in Seq(Limbs) /\ Len(x) \in Nat /\ n \in Nat /\ x # << >>
  BY NumbersAre
<1>2. m \in Nat /\ Number(x) >= Weight(m)
  BY <1>1, NormalAtLeast DEF NoZeroOnTop
<1>3. n <= m
  BY <1>1
<1> HIDE DEF m
<1>4. Number(y) < Weight(n) /\ Number(y) \in Nat /\ Number(x) \in Nat
  BY <1>1, NumberBelow
<1> HIDE DEF n
<1>5. Weight(n) <= Weight(m) /\ Weight(n) \in Nat /\ Weight(m) \in Nat
  BY <1>1, <1>2, <1>3, WeightsGrow, WeightIs
<1> QED
  BY <1>2, <1>4, <1>5

(* Of two of the same length, the highest limb that differs decides. *)
LEMMA HighestDecides ==
    ASSUME NEW x \in Numbers, NEW y \in Numbers, Len(x) = Len(y),
           NEW m \in 1 .. Len(x), x[m] > y[m], SameBetween(x, y, m, Len(x))
    PROVE  Number(x) > Number(y)
<1> DEFINE n == Len(x)
           w == Weight(m - 1)
           sx == Sums(x)[m - 1]
           sy == Sums(y)[m - 1]
           u == x[m]
           v == y[m]
<1>1. x \in Seq(Limbs) /\ y \in Seq(Limbs) /\ x \in Seq(Nat) /\ y \in Seq(Nat) /\ n \in Nat
  BY NumbersAre
<1>2. u \in Nat /\ w \in Nat /\ sx \in Nat /\ Sums(x)[m] = sx + u * w
  BY <1>1, SumsAt
<1>3. v \in Nat /\ sy \in Nat /\ Sums(y)[m] = sy + v * w
  BY <1>1, SumsAt
<1>4. sx < w /\ sy < w
  <2>1. m - 1 \in 0 .. Len(x) /\ m - 1 \in 0 .. Len(y)
    BY <1>1
  <2> QED
    BY <1>1, <2>1, SumsBelow
<1>5. Sums(x)[m] > Sums(y)[m]
  <2>1. u > v
    OBVIOUS
  <2> HIDE DEF u, v, w, sx, sy
  <2>2. sx + u * w > sy + v * w
    BY <1>2, <1>3, <1>4, <2>1, TopDecides
  <2> QED
    BY <1>2, <1>3, <2>2
<1>6. Sums(x)[n] + Sums(y)[m] = Sums(y)[n] + Sums(x)[m]
  <2>1. m \in Nat /\ m <= n /\ n <= Len(x) /\ n <= Len(y)
    BY <1>1
  <2>2. SameBetween(x, y, m, n)
    OBVIOUS
  <2> HIDE DEF n
  <2>3. GrowAlike(x, y, m, n)
    BY <1>1, <2>1, <2>2, SameLimbs
  <2> QED
    BY <2>3 DEF GrowAlike
<1>7. Sums(x)[n] \in Nat /\ Sums(y)[n] \in Nat /\ Sums(x)[m] \in Nat /\ Sums(y)[m] \in Nat
  <2>1. n \in 0 .. Len(x) /\ n \in 0 .. Len(y) /\ m \in 0 .. Len(x) /\ m \in 0 .. Len(y)
    BY <1>1
  <2> QED
    BY <1>1, <2>1, SumsUnfold
<1>8. Number(x) = Sums(x)[n] /\ Number(y) = Sums(y)[n]
  BY DEF Number
<1> QED
  BY <1>5, <1>6, <1>7, <1>8

(* compare decides as the numbers compare, for vectors without zeros on    *)
(* top: what negative_digit_comp of digit_comparison.h rounds by.          *)
THEOREM CompareIsRight ==
    ASSUME NEW x \in Numbers, NEW y \in Numbers, NoZeroOnTop(x), NoZeroOnTop(y)
    PROVE  /\ Compare(x, y) \in {-1, 0, 1}
           /\ Compare(x, y) = 1 <=> Number(x) > Number(y)
           /\ Compare(x, y) = 0 <=> Number(x) = Number(y)
<1> DEFINE n == Len(x)
           differ == {i \in 1 .. n : x[i] # y[i]}
           m == Max(differ)
<1>1. /\ x \in Seq(Limbs) /\ y \in Seq(Limbs) /\ x \in Seq(Nat) /\ y \in Seq(Nat)
      /\ n \in Nat /\ Len(y) \in Nat
      /\ Number(x) \in Nat /\ Number(y) \in Nat
  BY NumbersAre, NumberFits
<1>2. CASE Len(x) > Len(y)
  <2>1. Compare(x, y) = 1
    BY <1>2 DEF Compare
  <2> QED
    BY <1>1, <1>2, <2>1, LongerIsLarger
<1>3. CASE Len(x) < Len(y)
  <2>1. Compare(x, y) = -1
    BY <1>1, <1>3 DEF Compare
  <2>2. Number(y) > Number(x)
    BY <1>1, <1>3, LongerIsLarger
  <2> QED
    BY <1>1, <2>1, <2>2
<1>4. CASE Len(x) = Len(y)
  <2>0. Compare(x, y) = IF differ = {} THEN 0 ELSE IF x[m] > y[m] THEN 1 ELSE -1
    <3>1. ~(Len(x) > Len(y)) /\ ~(Len(x) < Len(y))
      BY <1>1, <1>4
    <3> QED
      BY <3>1 DEF Compare
  <2>1. CASE differ = {}
    <3>1. SameBetween(x, y, 0, n)
      <4>1. \A i \in 0 + 1 .. n : i \in 1 .. n
        OBVIOUS
      <4> QED
        BY <2>1, <4>1 DEF SameBetween
    <3>2. GrowAlike(x, y, 0, n)
      <4>1. 0 \in Nat /\ 0 <= n /\ n <= Len(x) /\ n <= Len(y)
        BY <1>1, <1>4
      <4> HIDE DEF n
      <4> QED
        BY <1>1, <3>1, <4>1, SameLimbs
    <3>3. Sums(x)[0] = 0 /\ Sums(y)[0] = 0
      BY <1>1, SumsUnfold
    <3>4. Number(x) = Sums(x)[n] /\ Number(y) = Sums(y)[n]
      BY <1>4 DEF Number
    <3>5. Number(x) = Number(y)
      BY <1>1, <3>2, <3>3, <3>4 DEF GrowAlike
    <3>6. Compare(x, y) = 0
      BY <2>0, <2>1
    <3> QED
      BY <1>1, <3>5, <3>6
  <2>2. CASE differ # {}
    <3>1. m \in differ /\ \A k \in differ : k <= m
      <4>1. differ \in SUBSET (0 .. n)
        OBVIOUS
      <4> HIDE DEF differ, n
      <4> QED
        BY <1>1, <2>2, <4>1, Largest
    <3>2. m \in 1 .. n /\ x[m] # y[m]
      BY <3>1
    <3>3. \A i \in m + 1 .. n : x[i] = y[i]
      <4>1. \A i \in m + 1 .. n : i \in 1 .. n /\ ~(i <= m)
        BY <3>2
      <4> HIDE DEF m
      <4> QED
        BY <3>1, <4>1
    <3> HIDE DEF m, differ
    <3>4. SameBetween(x, y, m, n) /\ SameBetween(y, x, m, n)
      BY <3>3 DEF SameBetween
    <3>5. x[m] \in Nat /\ y[m] \in Nat /\ m \in 1 .. Len(x) /\ m \in 1 .. Len(y)
      BY <1>1, <1>4, <3>2
    <3>6. CASE x[m] > y[m]
      <4>1. Number(x) > Number(y)
        BY <1>4, <3>4, <3>5, <3>6, HighestDecides
      <4>2. Compare(x, y) = 1
        BY <2>0, <2>2, <3>6
      <4> QED
        BY <1>1, <4>1, <4>2
    <3>7. CASE ~(x[m] > y[m])
      <4>1. y[m] > x[m]
        BY <3>2, <3>5, <3>7
      <4>2. Number(y) > Number(x)
        <5>1. Len(y) = Len(x) /\ SameBetween(y, x, m, Len(y))
          BY <1>4, <3>4
        <5> QED
          BY <3>5, <4>1, <5>1, HighestDecides
      <4>3. Compare(x, y) = -1
        BY <2>0, <2>2, <3>7
      <4> QED
        BY <1>1, <4>2, <4>3
    <3> QED
      BY <3>6, <3>7
  <2> QED
    BY <2>1, <2>2
<1> QED
  BY <1>1, <1>2, <1>3, <1>4

-------------------------------------------------------------------------------
(* bigint(value): the two limbs of a word. *)
LEMMA FromWordGives ==
    ASSUME NEW word \in 0 .. Word - 1
    PROVE  /\ Gives(FromWord(word), word) /\ FromWord(word).ok
           /\ NoZeroOnTop(FromWord(word).vec)
<1> DEFINE a == word % Limb
           b == word \div Limb
           x == <<a, b>>
<1>1. Limb \in Nat \ {0} /\ Word = Limb * Limb /\ word \in Nat /\ word < Word
  BY WordIs
<1>2. a \in Nat /\ a < Limb /\ b \in Nat /\ word = Limb * b + a
  BY <1>1, DivMod
<1>3. b < Limb
  <2> HIDE DEF a, b
  <2> QED
    BY <1>1, <1>2
<1> HIDE DEF a, b
<1>4. a \in Limbs /\ b \in Limbs
  BY <1>1, <1>2, <1>3 DEF Limbs
<1>5. x \in Numbers /\ x \in Seq(Nat) /\ Len(x) = 2 /\ x[1] = a /\ x[2] = b
  <2>1. x \in Seq(Limbs) /\ Len(x) = 2 /\ x[1] = a /\ x[2] = b
    BY <1>4
  <2>2. 2 <= BigintLimbs
    BY BigintAssumption
  <2>3. x \in Numbers
    BY <2>1, <2>2 DEF Numbers
  <2> QED
    BY <2>1, <2>3, NumbersAre
<1>6. Number(x) = word
  <2>1. /\ Sums(x)[0] = 0 /\ Sums(x)[1] = Sums(x)[1 - 1] + x[1] * Weight(1 - 1)
        /\ Sums(x)[2] = Sums(x)[2 - 1] + x[2] * Weight(2 - 1)
    <3>1. 1 \in 1 .. Len(x) /\ 2 \in 1 .. Len(x)
      BY <1>5
    <3> HIDE DEF x
    <3> QED
      BY <1>5, <3>1, SumsUnfold
  <2>2. Weight(0) = 1 /\ Weight(1) = Limb
    <3>1. Weight(0) = 1 /\ Weight(0 + 1) = Weight(0) * Limb
      BY WeightIs
    <3> QED
      BY <1>1, <3>1
  <2> HIDE DEF x
  <2>3. Sums(x)[1] = a
    <3>1. 1 - 1 = 0 /\ a * 1 = a /\ 0 + a = a
      BY <1>2
    <3> QED
      BY <1>5, <2>1, <2>2, <3>1
  <2>4. Sums(x)[2] = a + b * Limb
    <3>1. 2 - 1 = 1
      OBVIOUS
    <3> QED
      BY <1>5, <2>1, <2>2, <2>3, <3>1
  <2>5. a + b * Limb = word
    BY <1>1, <1>2
  <2> QED
    BY <1>5, <2>4, <2>5 DEF Number
<1>7. FromWord(word) = Big(TRUE, Normalize(x))
  BY Zenon DEF FromWord, a, b
<1> HIDE DEF x
<1>8. Normalize(x) \in Numbers /\ NoZeroOnTop(Normalize(x)) /\ Number(Normalize(x)) = word /\ Fits(word)
  BY <1>5, <1>6, NormalizeKeeps, NumberFits
<1> QED
  BY <1>7, <1>8 DEF Gives, Big, Bigs

LEMMA ShlStep ==
    ASSUME NEW q \in Nat \ {0}, NEW p \in Nat \ {0}, NEW x \in Nat, NEW c \in Nat, c < p
    PROVE  LET d == (x * p + c) \div (p * q)
           IN  /\ d = x \div q
               /\ (x * p + c) % (p * q) = ((x * p) % (p * q)) + c
<1> DEFINE d == x \div q
           r == x % q
           m == p * q
<1>1. d \in Nat /\ r \in Nat /\ r < q /\ x = q * d + r
  BY DivMod
<1>2. m \in Nat \ {0}
  OBVIOUS
<1> HIDE DEF d, r
<1>3. x * p = m * d + r * p
  BY <1>1
<1>4. r * p + c < m /\ r * p \in Nat
  <2>1. r + 1 <= q
    BY <1>1
  <2>2. (r + 1) * p <= q * p
    BY <1>1, <2>1
  <2>3. (r + 1) * p = r * p + p /\ r * p \in Nat /\ q * p = p * q
    BY <1>1
  <2> DEFINE rp == r * p
  <2>4. rp + p <= m /\ rp \in Nat
    BY <2>2, <2>3
  <2> HIDE DEF rp, m
  <2>5. rp + c < m
    BY <1>2, <2>4
  <2> QED
    BY <2>4, <2>5 DEF rp
<1> DEFINE rp == r * p   xp == x * p
<1>5. xp = m * d + rp /\ rp \in Nat /\ rp + c < m /\ m \in Nat \ {0} /\ rp < m
  BY <1>2, <1>3, <1>4
<1> HIDE DEF m, rp, xp
<1>6. (m * d + (rp + c)) \div m = d /\ (m * d + (rp + c)) % m = rp + c /\ (m * d + rp) % m = rp
  BY <1>1, <1>5
<1>7. m * d \in Nat
  BY <1>1, <1>5
<1>8. m * d + (rp + c) = (m * d + rp) + c
  BY <1>5, <1>7
<1>9. (xp + c) \div m = d /\ (xp + c) % m = (xp % m) + c
  BY <1>5, <1>6, <1>8
<1> QED
  BY <1>9 DEF xp, m, d

(* A shift by less than a limb. *)
LEMMA ShlBitsIs ==
    ASSUME NEW x \in Numbers, NEW n \in 1 .. LimbBits - 1
    PROVE  Pushed(ShlBits(x, n), x, Number(x) * 2 ^ n)
<1> DEFINE k == Len(x)
           p == 2 ^ n
           q == 2 ^ (LimbBits - n)
           prev(i) == IF i = 1 THEN 0 ELSE x[i - 1] \div q
           z == [i \in 1 .. k |-> ((x[i] * p) % Limb) + prev(i)]
           term == Times(x, p)
           c == [i \in 0 .. k |-> prev(i + 1)]
<1>1. x \in Seq(Limbs) /\ x \in Seq(Nat) /\ k \in Nat /\ k <= BigintLimbs /\ n \in Nat /\ LimbBits - n \in Nat
  BY NumbersAre, SizesAssumption, SMTT(30)
<1>2. p \in Nat \ {0} /\ q \in Nat \ {0} /\ Limb = p * q
  <2>1. 2 ^ (n + (LimbBits - n)) = 2 ^ n * 2 ^ (LimbBits - n)
    BY <1>1, PowersOfTwo
  <2>2. n + (LimbBits - n) = LimbBits
    BY SizesAssumption
  <2>3. Limb = 2 ^ n * 2 ^ (LimbBits - n)
    BY <2>1, <2>2, Zenon DEF Limb
  <2>4. 2 ^ n \in Nat \ {0} /\ 2 ^ (LimbBits - n) \in Nat \ {0}
    BY <1>1, TwoToThe
  <2> QED
    BY <2>3, <2>4
<1>3. ShlBits(x, n) = PushCarry(z, prev(k + 1))
  BY Zenon DEF ShlBits
<1> HIDE DEF p, q
<1>4. ASSUME NEW v \in Limbs PROVE v \in Nat /\ v \div q \in Nat /\ v \div q < p
  <2>1. v \in Nat /\ v < p * q
    BY <1>2, LimbsAre
  <2>2. v \div q \in Nat /\ v % q \in Nat /\ v = q * (v \div q) + (v % q)
    BY <1>2, <2>1, DivMod
  <2> DEFINE d == v \div q   r == v % q
  <2>3. d \in Nat /\ r \in Nat /\ q * d + r < p * q
    BY <2>1, <2>2
  <2> HIDE DEF d, r
  <2>4. d < p
    BY <1>2, <2>3
  <2> QED
    BY <2>1, <2>2, <2>4 DEF d
<1>5. \A i \in 0 .. k : c[i] \in Nat /\ c[i] < p /\ c[i] = prev(i + 1)
  <2>1. ASSUME NEW i \in 0 .. k PROVE prev(i + 1) \in Nat /\ prev(i + 1) < p
    <3>1. CASE i = 0
      BY <1>2, <3>1
    <3>2. CASE i # 0
      <4>1. i \in 1 .. k /\ (i + 1) - 1 = i /\ i + 1 # 1
        BY <1>1, <3>2
      <4>2. x[i] \in Limbs
        BY <1>1, <4>1
      <4> QED
        BY <1>4, <4>1, <4>2
    <3> QED
      BY <3>1, <3>2
  <2> HIDE DEF prev
  <2> QED
    BY <2>1
<1>6. c \in [0 .. k -> Nat] /\ c[0] = 0
  <2>1. c \in [0 .. k -> Nat]
    <3> HIDE DEF prev
    <3>1. \A i \in 0 .. k : prev(i + 1) \in Nat
      BY <1>5
    <3> QED
      BY <3>1
  <2>2. c[0] = 0
    <3>1. 0 \in 0 .. k /\ 0 + 1 = 1
      BY <1>1
    <3> QED
      BY <3>1
  <2> QED
    BY <2>1, <2>2
<1>7. /\ term \in Seq(Nat) /\ Len(term) = k /\ \A i \in 1 .. k : term[i] = x[i] * p
      /\ Number(term) = Number(x) * p
  BY <1>1, <1>2, NumberOfTimes
<1> HIDE DEF term
<1>8. ASSUME NEW i \in 1 .. k
      PROVE  /\ c[i] = (term[i] + c[i - 1]) \div Limb
             /\ ((x[i] * p) % Limb) + prev(i) = (term[i] + c[i - 1]) % Limb
  <2> DEFINE u == x[i]
             e == c[i - 1]
  <2>1. i \in 0 .. k /\ i - 1 \in 0 .. k /\ (i - 1) + 1 = i /\ i + 1 # 1 /\ (i + 1) - 1 = i
    BY <1>1
  <2>2. e = prev(i) /\ e \in Nat /\ e < p
    <3> HIDE DEF prev, c
    <3> QED
      BY <1>5, <2>1
  <2>3. c[i] = u \div q
    BY <2>1
  <2>4. u \in Nat
    BY <1>1
  <2>5. term[i] = u * p
    BY <1>7
  <2> HIDE DEF u, e, c, prev
  <2>6. /\ (u * p + e) \div (p * q) = u \div q
        /\ (u * p + e) % (p * q) = ((u * p) % (p * q)) + e
    BY <1>2, <2>2, <2>4, ShlStep, ZenonT(60)
  <2>7. /\ c[i] = (term[i] + e) \div Limb
        /\ ((u * p) % Limb) + prev(i) = (term[i] + e) % Limb
    BY <1>2, <2>2, <2>3, <2>5, <2>6, Zenon
  <2> QED
    BY <2>7 DEF u, e
<1>9. ASSUME NEW i \in 1 .. k PROVE (term[i] + c[i - 1]) % Limb \in Limbs
  <2> DEFINE t == term[i] + c[i - 1]
  <2>1. t \in Nat
    <3>1. i \in 1 .. Len(term) /\ i - 1 \in 0 .. k
      BY <1>1, <1>7
    <3>2. term[i] \in Nat
      BY <1>7, <3>1
    <3> HIDE DEF c
    <3>3. c[i - 1] \in Nat
      BY <1>6, <3>1
    <3> QED
      BY <3>2, <3>3
  <2> HIDE DEF t
  <2>2. t % Limb \in Limbs
    <3>1. Limb \in Nat \ {0}
      BY WordIs
    <3> QED
      BY <2>1, <3>1, DivMod DEF Limbs
  <2> QED
    BY <2>2 DEF t
<1> HIDE DEF c
<1>10. z \in Seq(Limbs) /\ Len(z) = k /\ \A i \in 1 .. k : z[i] = (term[i] + c[i - 1]) % Limb
  <2> DEFINE f(i) == ((x[i] * p) % Limb) + prev(i)
  <2>1. \A i \in 1 .. k : f(i) \in Limbs /\ f(i) = (term[i] + c[i - 1]) % Limb
    BY <1>8, <1>9, Zenon
  <2>2. z = [i \in 1 .. k |-> f(i)]
    OBVIOUS
  <2> HIDE DEF f, z
  <2>3. z \in Seq(Limbs) /\ Len(z) = k /\ \A i \in 1 .. k : z[i] = f(i)
    BY <1>1, <2>1, <2>2
  <2> QED
    BY <2>1, <2>3, Zenon
<1> HIDE DEF z
<1>11. z \in Numbers /\ z \in Seq(Nat)
  BY <1>1, <1>10, LimbsAreNumbers DEF Numbers
<1>12. NothingLost(term, z, 0, k, c)
  <2>1. PassesOn(term, z, 0, k, c)
    <3>1. \A i \in 0 + 1 .. k : i \in 1 .. k
      OBVIOUS
    <3> QED
      BY <1>8, <1>10, <3>1 DEF PassesOn
  <2>2. 0 \in Nat /\ 0 <= k /\ k <= Len(term) /\ k <= Len(z)
    BY <1>1, <1>7, <1>10
  <2> HIDE DEF k
  <2> QED
    BY <1>1, <1>6, <1>7, <1>11, <2>1, <2>2, CarriesAreRight
<1>13. Number(z) + c[k] * Weight(k) = Number(x) * p
  <2>1. Sums(z)[k] + c[k] * Weight(k) = Sums(term)[k] + (c[0] * Weight(0) + Sums(z)[0] - Sums(term)[0])
    BY <1>12 DEF NothingLost
  <2>2. Sums(z)[0] = 0 /\ Sums(term)[0] = 0 /\ Weight(0) = 1
    BY <1>7, <1>11, SumsUnfold, WeightIs
  <2>3. Sums(term)[k] \in Nat
    <3>1. k \in 0 .. Len(term)
      BY <1>1, <1>7
    <3> HIDE DEF k
    <3> QED
      BY <1>7, <3>1, SumsUnfold
  <2>4. Sums(z)[k] + c[k] * Weight(k) = Sums(term)[k]
    BY <1>6, <2>1, <2>2, <2>3
  <2> QED
    BY <1>7, <1>10, <2>4 DEF Number
<1>14. prev(k + 1) = c[k] /\ c[k] \in Limbs
  <2>1. k \in 0 .. k
    BY <1>1
  <2> HIDE DEF prev
  <2>2. prev(k + 1) = c[k] /\ c[k] \in Nat /\ c[k] < p
    BY <1>5, <2>1
  <2>3. p <= Limb
    BY <1>2
  <2> QED
    BY <1>2, <2>2, <2>3, WordIs DEF Limbs
<1>15. PushedWith(ShlBits(x, n), x, Number(x) * p, z, c[k])
  BY <1>3, <1>10, <1>13, <1>14, Zenon DEF PushedWith
<1> QED
  BY <1>11, <1>14, <1>15, Zenon DEF Pushed, p

LEMMA ShlBitsGives ==
    ASSUME NEW x \in Numbers, NoZeroOnTop(x), NEW n \in 1 .. LimbBits - 1
    PROVE  /\ Gives(ShlBits(x, n), Number(x) * 2 ^ n)
           /\ ShlBits(x, n).ok => NoZeroOnTop(ShlBits(x, n).vec)
<1> DEFINE p == 2 ^ n
           nx == Number(x)
           t == nx * p
<1>1. Pushed(ShlBits(x, n), x, t)
  BY ShlBitsIs
<1>2. nx \in Nat /\ p \in Nat \ {0}
  BY NumberFits, TwoToThe
<1>3. t \in Nat /\ t >= nx
  <2> HIDE DEF nx, p
  <2> QED
    BY <1>2
<1>4. Gives(ShlBits(x, n), t)
  BY <1>1, PushedGives, Zenon
<1>5. ShlBits(x, n).ok => NoZeroOnTop(ShlBits(x, n).vec)
  <2> HIDE DEF t
  <2> QED
    BY <1>1, <1>3, PushedNormal
<1> QED
  BY <1>4, <1>5

(* A shift by whole limbs. *)
LEMMA ShlLimbsGives ==
    ASSUME NEW x \in Numbers, NoZeroOnTop(x), x # << >>, NEW n \in Nat
    PROVE  /\ Gives(ShlLimbs(x, n), Number(x) * Weight(n))
           /\ ShlLimbs(x, n).ok => NoZeroOnTop(ShlLimbs(x, n).vec)
<1> DEFINE k == Len(x)
           t == Number(x) * Weight(n)
<1>1. x \in Seq(Limbs) /\ x \in Seq(Nat) /\ k \in Nat \ {0} /\ k <= BigintLimbs /\ BigintLimbs \in Nat
  BY NumbersAre, BigintAssumption
<1>2. CASE n + k > BigintLimbs
  <2>1. ShlLimbs(x, n) = Big(FALSE, x)
    BY <1>2 DEF ShlLimbs
  <2>2. k - 1 \in Nat /\ Number(x) >= Weight(k - 1) /\ Number(x) \in Nat
    BY <1>1, NormalAtLeast, NumberFits DEF NoZeroOnTop
  <2>3. Weight((k - 1) + n) >= Weight(BigintLimbs) /\ Weight(BigintLimbs) \in Nat
        /\ Weight((k - 1) + n) \in Nat
    <3>1. BigintLimbs <= (k - 1) + n /\ (k - 1) + n \in Nat
      BY <1>1, <1>2, <2>2
    <3> HIDE DEF k
    <3>2. Weight(BigintLimbs) <= Weight((k - 1) + n)
      BY <1>1, <3>1, WeightsGrow
    <3>3. Weight(BigintLimbs) \in Nat /\ Weight((k - 1) + n) \in Nat
      BY <1>1, <3>1, WeightIs
    <3> QED
      BY <3>2, <3>3
  <2>4. Weight((k - 1) + n) = Weight(k - 1) * Weight(n)
    BY <2>2, WeightOfBoth
  <2>5. Weight(n) \in Nat /\ Weight(k - 1) \in Nat
    <3> HIDE DEF k
    <3> QED
      BY <2>2, WeightIs
  <2> DEFINE nx == Number(x)   a == Weight(k - 1)   b == Weight(n)
  <2>6. nx * b >= a * b /\ nx * b \in Nat /\ a * b \in Nat
    <3>1. nx \in Nat /\ a \in Nat /\ b \in Nat /\ nx >= a
      BY <2>2, <2>5
    <3> HIDE DEF nx, a, b
    <3> QED
      BY <3>1
  <2>7. t \in Nat /\ t >= Weight(BigintLimbs)
    BY <2>3, <2>4, <2>6
  <2> HIDE DEF t
  <2>8. ~Fits(t)
    BY <2>3, <2>7 DEF Fits
  <2>9. Big(FALSE, x) \in Bigs /\ ~Big(FALSE, x).ok
    BY DEF Big, Bigs
  <2> QED
    BY <2>1, <2>8, <2>9 DEF Gives, t
<1>3. CASE n + k <= BigintLimbs
  <2> DEFINE zeros == [i \in 1 .. n |-> 0]
             z == zeros \o x
             m == n + k
             blank == TryResize(<< >>, m).vec
  <2>1. m \in Nat /\ m <= BigintLimbs /\ 0 \in Limbs
    BY <1>1, <1>3, WordIs DEF Limbs
  <2>2. zeros \in Seq(Limbs) /\ Len(zeros) = n /\ \A i \in 1 .. n : zeros[i] = 0
    BY <2>1
  <2> HIDE DEF zeros
  <2>3. /\ z \in Seq(Limbs) /\ Len(z) = m /\ \A i \in 1 .. n : z[i] = 0
        /\ \A i \in n + 1 .. m : z[i] = x[i - n]
    BY <1>1, <2>2
  <2>4. z \in Numbers
    BY <2>1, <2>3 DEF Numbers
  <2>5. ShlLimbs(x, n) = Big(TRUE, z)
    <3>1. ~(n + Len(x) > BigintLimbs)
      BY <1>1, <1>3
    <3> QED
      BY <3>1 DEF ShlLimbs, zeros
  <2>6. << >> \in Numbers /\ Number(<< >>) = 0
    <3>1. << >> \in Seq(Limbs) /\ << >> \in Seq(Nat) /\ Len(<< >>) = 0
      OBVIOUS
    <3>2. << >> \in Numbers
      BY <1>1, <3>1 DEF Numbers
    <3>3. Sums(<< >>)[0] = 0
      BY <3>1, SumsUnfold
    <3>4. Number(<< >>) = 0
      BY <3>1, <3>3, Zenon DEF Number
    <3> QED
      BY <3>2, <3>4
  <2>7. blank \in Numbers /\ Len(blank) = m /\ Number(blank) = 0
    <3>1. Len(<< >>) <= m
      BY <2>1
    <3> DEFINE nothing == << >>
    <3>2. nothing \in Numbers /\ Number(nothing) = 0 /\ Len(nothing) <= m
      BY <2>6, <3>1
    <3> HIDE DEF m, nothing
    <3>3. /\ TryResize(nothing, m).vec \in Numbers /\ Len(TryResize(nothing, m).vec) = m
          /\ Number(TryResize(nothing, m).vec) = Number(nothing)
      BY <2>1, <3>2, NumberOfPadded
    <3> QED
      BY <3>2, <3>3 DEF nothing
  <2>8. \A i \in 1 .. m : blank[i] = 0
    <3>1. ~(m > BigintLimbs) /\ \A i \in 1 .. m : ~(i <= Len(<< >>))
      BY <1>1, <2>1
    <3>2. blank = [i \in 1 .. m |-> IF i <= Len(<< >>) THEN << >>[i] ELSE 0]
      BY <3>1, Zenon DEF TryResize, Big
    <3> HIDE DEF blank, m
    <3>3. \A i \in 1 .. m : blank[i] = IF i <= Len(<< >>) THEN << >>[i] ELSE 0
      BY <3>2, Zenon
    <3> QED
      BY <3>1, <3>3, Zenon
  <2> HIDE DEF blank, z
  <2>9. AddedRun(AddedAt(blank, x, n), blank, x, n)
    <3>1. blank \in Seq(Nat) /\ n + Len(x) <= Len(blank)
      BY <2>1, <2>7, NumbersAre
    <3> QED
      BY <1>1, <3>1, NumberOfAdded
  <2> DEFINE added == AddedAt(blank, x, n)
  <2>10. /\ added \in Seq(Nat) /\ Len(added) = m
         /\ \A i \in 1 .. m : added[i] = IF i \in n + 1 .. n + Len(x) THEN blank[i] + x[i - n] ELSE blank[i]
         /\ Number(added) = 0 + Number(x) * Weight(n)
    BY <2>7, <2>9, Zenon DEF AddedRun
  <2> HIDE DEF added
  <2>11. added = z
    <3>1. ASSUME NEW i \in 1 .. m PROVE added[i] = z[i]
      <4>1. CASE i \in n + 1 .. m
        <5>1. i \in n + 1 .. n + Len(x) /\ i - n \in 1 .. Len(x)
          BY <1>1, <4>1
        <5>2. added[i] = blank[i] + x[i - n]
          BY <2>10, <5>1, Zenon
        <5>3. blank[i] = 0 /\ x[i - n] \in Nat
          BY <1>1, <2>8, <5>1
        <5>4. z[i] = x[i - n]
          BY <2>3, <4>1
        <5> QED
          BY <5>2, <5>3, <5>4
      <4>2. CASE i \notin n + 1 .. m
        <5>1. i \notin n + 1 .. n + Len(x) /\ i \in 1 .. n
          BY <2>1, <4>2
        <5>2. added[i] = blank[i]
          BY <2>10, <5>1, Zenon
        <5> QED
          BY <2>3, <2>8, <5>1, <5>2, Zenon
      <4> QED
        BY <4>1, <4>2
    <3>2. z \in Seq(Nat)
      BY <2>4, NumbersAre
    <3>3. added = [i \in 1 .. m |-> added[i]] /\ z = [i \in 1 .. m |-> z[i]]
      BY <2>3, <2>10, <3>2
    <3> HIDE DEF m
    <3> QED
      BY <3>1, <3>3
  <2>12. Number(z) = t /\ Fits(t)
    <3>1. Number(x) * Weight(n) \in Nat
      <4>1. Number(x) \in Nat /\ Weight(n) \in Nat
        BY NumberFits, WeightIs
      <4> QED
        BY <4>1
    <3>2. Number(z) = t
      BY <2>10, <2>11, <3>1
    <3> QED
      BY <2>4, <3>2, NumberFits
  <2>13. NoZeroOnTop(z)
    <3>1. z[m] = x[k] /\ m \in Nat \ {0}
      <4>1. m \in n + 1 .. m /\ m - n = k
        BY <1>1
      <4> HIDE DEF m, k
      <4> QED
        BY <1>1, <2>3, <4>1
    <3> QED
      BY <1>1, <2>3, <3>1 DEF NoZeroOnTop
  <2> HIDE DEF t
  <2>14. Gives(Big(TRUE, z), t)
    BY <2>4, <2>12 DEF Gives, Big, Bigs
  <2> QED
    BY <2>5, <2>13, <2>14 DEF Big, t
<1> QED
  BY <1>1, <1>2, <1>3

(* pow2 multiplies a number other than zero by that power of two exactly,  *)
(* by a shift within the limbs and one of whole limbs, and fails only when *)
(* the product has no room.                                                *)
THEOREM Pow2IsExact ==
    ASSUME NEW x \in Numbers, NoZeroOnTop(x), x # << >>, NEW exp \in Nat
    PROVE  Gives(Pow2(Big(TRUE, x), exp), Number(x) * 2 ^ exp)
<1> DEFINE rem == exp % LimbBits
           div == exp \div LimbBits
           b == IF rem # 0 THEN ShlBits(x, rem) ELSE Big(TRUE, x)
           p == 2 ^ rem
           w == Weight(div)
           nx == Number(x)
<1>1. LimbBits \in Nat \ {0}
  BY SizesAssumption
<1>2. rem \in Nat /\ rem < LimbBits /\ div \in Nat /\ exp = LimbBits * div + rem
  BY <1>1, DivMod
<1>3. 2 ^ exp = p * w
  <2>1. LimbBits * div \in Nat /\ exp = rem + LimbBits * div
    <3> HIDE DEF rem, div
    <3> QED
      BY <1>1, <1>2
  <2>2. 2 ^ (rem + LimbBits * div) = 2 ^ rem * 2 ^ (LimbBits * div)
    BY <1>2, <2>1, PowersOfTwo
  <2> QED
    BY <2>1, <2>2, Zenon DEF Weight
<1>4. nx \in Nat /\ p \in Nat \ {0} /\ w \in Nat \ {0}
  BY <1>2, NumberFits, TwoToThe, WeightIs
<1>5. Pow2(Big(TRUE, x), exp) = IF b.ok THEN IF div # 0 THEN ShlLimbs(b.vec, div) ELSE Big(TRUE, b.vec)
                                ELSE b
  BY DEF Pow2, Try, Big
<1>6. Gives(b, nx * p) /\ (b.ok => NoZeroOnTop(b.vec))
  <2>1. CASE rem # 0
    <3> DEFINE r == rem
    <3>1. r \in 1 .. LimbBits - 1 /\ b = ShlBits(x, r) /\ p = 2 ^ r
      BY <1>1, <1>2, <2>1
    <3> HIDE DEF r
    <3>2. /\ Gives(ShlBits(x, r), Number(x) * 2 ^ r)
          /\ ShlBits(x, r).ok => NoZeroOnTop(ShlBits(x, r).vec)
      BY <3>1, ShlBitsGives
    <3> QED
      BY <3>1, <3>2, Zenon
  <2>2. CASE rem = 0
    <3>1. b = Big(TRUE, x)
      BY <2>2
    <3>2. p = 1
      <4>1. Weight(0) = 1 /\ LimbBits * 0 = 0
        BY <1>1, WeightIs
      <4>2. 2 ^ (LimbBits * 0) = 1
        BY <4>1, Zenon DEF Weight
      <4>3. 2 ^ 0 = 1
        BY <4>1, <4>2, Zenon
      <4>4. p = 2 ^ 0
        BY <2>2
      <4> HIDE DEF p
      <4> QED
        BY <4>3, <4>4
    <3>3. nx * p = nx
      <4> HIDE DEF nx, p
      <4> QED
        BY <1>4, <3>2
    <3>4. Fits(nx)
      BY NumberFits
    <3> HIDE DEF b, p
    <3>5. Gives(Big(TRUE, x), nx)
      BY <3>4 DEF Gives, Big, Bigs
    <3> QED
      BY <3>1, <3>3, <3>5 DEF Big
  <2> QED
    BY <2>1, <2>2
<1>7. nx # 0
  <2>1. x \in Seq(Limbs) /\ Len(x) - 1 \in Nat /\ Number(x) >= Weight(Len(x) - 1)
    BY NumbersAre, NormalAtLeast DEF NoZeroOnTop
  <2> DEFINE i == Len(x) - 1
  <2>2. i \in Nat /\ Number(x) >= Weight(i)
    BY <2>1
  <2> HIDE DEF i
  <2>3. Weight(i) \in Nat \ {0}
    BY <2>2, WeightIs
  <2> QED
    BY <1>4, <2>2, <2>3
<1> HIDE DEF rem, div, b, nx
<1> DEFINE t == nx * p
<1>8. t \in Nat /\ t # 0 /\ nx * (p * w) = t * w
  <2> HIDE DEF p, w
  <2> QED
    BY <1>4, <1>7
<1> HIDE DEF p, t
<1>9. CASE ~b.ok
  <2>1. Pow2(Big(TRUE, x), exp) = b
    BY <1>5, <1>9
  <2>2. ~Fits(t)
    BY <1>6, <1>9 DEF Gives, t
  <2>3. t * w \in Nat /\ t * w >= t
    <3> HIDE DEF w
    <3> QED
      BY <1>4, <1>8
  <2> DEFINE q == t * w
  <2>4. q \in Nat /\ q >= t
    BY <2>3
  <2> HIDE DEF q
  <2>5. ~Fits(q)
    BY <1>8, <2>2, <2>4, DoesNotFit
  <2>6. Gives(b, q)
    BY <1>6, <1>9, <2>5 DEF Gives
  <2> QED
    BY <1>3, <1>8, <2>1, <2>6, Zenon DEF q, nx
<1>10. CASE b.ok
  <2>1. b.vec \in Numbers /\ Number(b.vec) = t /\ NoZeroOnTop(b.vec) /\ Fits(t)
    BY <1>6, <1>10 DEF Gives, Bigs, t
  <2> DEFINE v == b.vec
  <2>2. v # << >>
    <3>1. Number(<< >>) = 0
      <4>1. << >> \in Seq(Nat) /\ Len(<< >>) = 0
        OBVIOUS
      <4>2. Sums(<< >>)[0] = 0
        BY <4>1, SumsUnfold
      <4> QED
        BY <4>1, <4>2, Zenon DEF Number
    <3> QED
      BY <1>8, <2>1, <3>1
  <2>3. v \in Numbers /\ Number(v) = t /\ NoZeroOnTop(v)
    BY <2>1
  <2>4. Pow2(Big(TRUE, x), exp) = IF div # 0 THEN ShlLimbs(v, div) ELSE Big(TRUE, v)
    BY <1>5, <1>10
  <2> HIDE DEF v
  <2>5. CASE div # 0
    <3>1. Gives(ShlLimbs(v, div), Number(v) * Weight(div))
      BY <1>2, <2>2, <2>3, ShlLimbsGives
    <3> QED
      BY <1>3, <1>8, <2>3, <2>4, <2>5, <3>1, Zenon DEF nx
  <2>6. CASE div = 0
    <3>1. w = 1
      BY <2>6, WeightIs
    <3>2. t * w = t
      BY <1>8, <3>1
    <3>3. Gives(Big(TRUE, v), t)
      BY <2>1, <2>3 DEF Gives, Big, Bigs
    <3>4. Pow2(Big(TRUE, x), exp) = Big(TRUE, v)
      BY <2>4, <2>6
    <3> QED
      BY <1>3, <1>8, <3>2, <3>3, <3>4, Zenon DEF nx
  <2> QED
    BY <2>5, <2>6
<1> QED
  BY <1>6, <1>9, <1>10 DEF Gives, Bigs

=============================================================================
