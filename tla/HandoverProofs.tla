--------------------------- MODULE HandoverProofs ---------------------------
(***************************************************************************)
(* Proofs about the sending and scanning of a payment: how the display may *)
(* be read, that a promise beyond the balance needs something that came    *)
(* between its check and its signature or a scanned TVC, that signatures   *)
(* survive the bytes, and that the scanner is released.                    *)
(***************************************************************************)
EXTENDS Handover, TLAPS, FiniteSetTheorems

-----------------------------------------------------------------------------
(* Amounts *)

\* What the arithmetic of Dart returns is an amount.
LEMMA OfType == ASSUME NEW k \in Int
                PROVE  Of(k) \in Amount /\ Infinite(k) \in Amount
  BY DEF Of, Infinite, Amount

LEMMA ZeroType == Zero \in Amount
  BY DEF Zero, Of, Amount

LEMMA SignType == ASSUME NEW k \in Int PROVE Sign(k) \in Int /\ Magnitude(k) \in Nat
  BY DEF Sign, Magnitude

LEMMA PlusType == ASSUME NEW a \in Amount, NEW b \in Amount
                  PROVE  Plus(a, b) \in Amount /\ Minus(a, b) \in Amount
<1>1. ASSUME NEW c \in Amount, NEW d \in Amount PROVE Plus(c, d) \in Amount
  <2>1. c.n \in Int /\ d.n \in Int BY DEF Amount
  <2>2. Rank(c) + Rank(d) \in Int BY <2>1, SignType DEF Rank
  <2> QED BY <2>1, <2>2, SignType, OfType DEF Plus
<1>2. Negated(b) \in Amount BY DEF Negated, Amount
<1> QED BY <1>1, <1>2 DEF Minus

LEMMA TimesType == ASSUME NEW a \in Amount, NEW b \in Amount
                   PROVE  Times(a, b) \in Amount
<1>1. a.n \in Int /\ b.n \in Int BY DEF Amount
<1>2. a.n \div Unit \in Int /\ a.n % Unit \in Int BY <1>1 DEF Unit
<1>3. (a.n \div Unit) * b.n \in Int /\ (a.n % Unit) * b.n \in Int BY <1>1, <1>2
<1>4. ((a.n % Unit) * b.n) \div Unit \in Int BY <1>3 DEF Unit
<1>5. Sign(a.n) * Sign(b.n) \in Int BY <1>1, SignType
<1> QED BY <1>3, <1>4, <1>5, OfType DEF Times

LEMMA OverType == ASSUME NEW a \in Amount, NEW b \in Amount
                  PROVE  Over(a, b) \in Amount
<1>1. a.n \in Int /\ b.n \in Int BY DEF Amount
<1>2. a.n * Unit * Sign(b.n) \in Int BY <1>1, SignType DEF Unit
<1>3. b.n # 0 => Magnitude(b.n) \in Nat \ {0} BY <1>1 DEF Magnitude
<1>4. b.n # 0 => (a.n * Unit * Sign(b.n)) \div Magnitude(b.n) \in Int
  BY <1>2, <1>3
<1>5. Sign(a.n) \in Int /\ Sign(a.n) * 1 \in Int /\ Sign(a.n) * Sign(b.n) \in Int
  BY <1>1, SignType
<1> QED BY <1>4, <1>5, OfType, ZeroType DEF Over

LEMMA RoundType == ASSUME NEW a \in Amount
                   PROVE  /\ Truncated(a) \in Amount
                          /\ TwoPlaces(a) \in Amount
                          /\ TenthFloored(a) \in Amount
                          /\ Float32(a) \in Amount
<1>1. a.n \in Int BY DEF Amount
<1>2. Magnitude(a.n) \div Unit \in Int BY <1>1, SignType DEF Unit
<1>3. Sign(a.n) * (Magnitude(a.n) \div Unit) * Unit \in Int BY <1>1, <1>2, SignType DEF Unit
<1>4. (Magnitude(a.n) + 5) \div 10 \in Int BY <1>1, SignType
<1>5. Sign(a.n) * ((Magnitude(a.n) + 5) \div 10) * 10 \in Int BY <1>1, <1>4, SignType
<1>6. (a.n \div (10 * Unit)) * Unit \in Int /\ (a.n \div 8) * 8 \in Int BY <1>1 DEF Unit
<1> QED BY <1>3, <1>5, <1>6, OfType DEF Truncated, TwoPlaces, TenthFloored, Float32

LEMMA ShiftedType == ASSUME NEW a \in Amount, NEW d \in 0..9
                     PROVE  Shifted(a, d) \in Amount
<1>1. a.n * 10 + d * Unit \in Int BY DEF Amount, Unit
<1> QED BY <1>1, OfType DEF Shifted

\* A float32 is not rounded again.
LEMMA Float32Idempotent == ASSUME NEW a \in Amount
                           PROVE  Float32(Float32(a)) = Float32(a)
<1>1. a.n \in Int BY DEF Amount
<1>2. ((((a.n \div 8) * 8)) \div 8) * 8 = (a.n \div 8) * 8 BY <1>1
<1> QED BY <1>1, <1>2 DEF Float32, Of

\* Whole seconds are not cut again.
LEMMA SecondIdempotent == ASSUME NEW time \in Nat
                          PROVE  /\ Second(time) \in Nat
                                 /\ Second(time) * TicksPerSecond \in Nat
                                 /\ Second(Second(time) * TicksPerSecond) = Second(time)
<1> DEFINE s == time \div TicksPerSecond
<1>1. TicksPerSecond \in Nat \ {0} BY MessagesAssumption
<1>2. s \in Nat BY <1>1
<1> HIDE DEF s
<1>3. s * TicksPerSecond \in Nat BY <1>1, <1>2
<1>4. (s * TicksPerSecond) \div TicksPerSecond = s BY <1>1, <1>2, <1>3
<1> QED BY <1>2, <1>3, <1>4 DEF Second, s

-----------------------------------------------------------------------------
(* The keypad *)

\* The widths on the display are numbers.
LEMMA WidthType == ASSUME NEW a \in Amount
                   PROVE  WholeWidth(a) \in Nat /\ FixedWidth(a) \in Nat
<1> DEFINE k == Magnitude(a.n) \div Unit
           S == {e \in 1..8 : 10 ^ e <= k}
<1>1. IsFiniteSet(1..8) BY FS_Interval, 1 \in Int, 8 \in Int
<1>2. IsFiniteSet(S) BY <1>1, FS_Subset
<1>3. Cardinality(S) \in Nat BY <1>2, FS_CardinalityType
<1>4. WholeWidth(a) = 1 + Cardinality(S) BY DEF WholeWidth, Length
<1> HIDE DEF S
<1> QED BY <1>3, <1>4 DEF FixedWidth

\* The texts the handlers write are texts.
LEMMA DottedTextType == ASSUME NEW a \in Amount, NEW edited \in BOOLEAN
                        PROVE  /\ DottedText(a) \in Texts
                               /\ [DottedText(a) EXCEPT !.edited = edited] \in Texts
<1>1. BlankText \in Texts BY ZeroType DEF BlankText, Texts, NoOperator, NoSign
<1>2. (IF a.n < 0 THEN WholeWidth(a) + 2 ELSE NoSign) \in Int BY WidthType DEF NoSign
<1>3. ASSUME NEW behind \in Int
      PROVE  [BlankText EXCEPT !.blank = a = Zero, !.left = a, !.dotted = a # Zero,
                               !.behind = behind] \in Texts
  BY <1>1 DEF Texts
<1>4. DottedText(a) \in Texts BY <1>2, <1>3 DEF DottedText
<1> QED BY <1>4 DEF Texts

LEMMA BlankTextType == BlankText \in Texts /\ Pad0 \in Pads
  BY ZeroType DEF BlankText, Texts, NoOperator, NoSign, Pad0, Pads

LEMMA ResultTextType == ASSUME NEW a \in Amount PROVE ResultText(a) \in Texts
<1>1. TwoPlaces(a) \in Amount /\ FixedWidth(a) \in Int BY RoundType, WidthType
<1>2. ASSUME NEW behind \in Int
      PROVE  [BlankText EXCEPT !.blank = FALSE, !.left = TwoPlaces(a), !.behind = behind] \in Texts
  BY <1>1, BlankTextType DEF Texts
<1>3. (IF a.n < 0 THEN FixedWidth(a) ELSE NoSign) \in Int BY <1>1 DEF NoSign
<1> QED BY <1>2, <1>3 DEF ResultText

LEMMA OperatorTextType == ASSUME NEW a \in Amount, NEW op \in Operators
                          PROVE  OperatorText(a, op) \in Texts
<1>1. Truncated(a) \in Amount /\ WholeWidth(a) + 1 \in Int BY RoundType, WidthType
<1>2. ASSUME NEW behind \in Int
      PROVE  [BlankText EXCEPT !.blank = FALSE, !.left = Truncated(a), !.op = op,
                               !.behind = behind] \in Texts
  BY <1>1, BlankTextType DEF Texts
<1>3. (IF op # "/" THEN 0 ELSE IF Truncated(a).n < 0 THEN WholeWidth(a) + 1 ELSE NoSign) \in Int
  BY <1>1 DEF NoSign
<1> QED BY <1>2, <1>3 DEF OperatorText

LEMMA TypedTextType == ASSUME NEW text \in Texts, NEW d \in 0..9
                       PROVE  TypedText(text, d) \in Texts
<1>1. Shifted(text.left, d) \in Amount /\ Shifted(text.right, d) \in Amount
  BY ShiftedType DEF Texts
<1>2. (IF text.behind = NoSign THEN NoSign ELSE text.behind + 1) \in Int BY DEF Texts, NoSign
<1> DEFINE typed == [text EXCEPT !.blank = FALSE, !.dotted = FALSE,
                                 !.edited = @ \/ text.dotted,
                                 !.behind = IF @ = NoSign THEN NoSign ELSE @ + 1]
<1>3. (text.edited \/ text.dotted) \in BOOLEAN BY DEF Texts
<1>4. ASSUME NEW behind \in Int, NEW edited \in BOOLEAN
      PROVE  [text EXCEPT !.blank = FALSE, !.dotted = FALSE, !.edited = edited,
                          !.behind = behind] \in Texts
  BY DEF Texts
<1>5. typed \in Texts /\ typed.left = text.left /\ typed.right = text.right
  BY <1>2, <1>3, <1>4 DEF Texts
<1>6. TypedText(text, d) = IF text.op = NoOperator
                           THEN [typed EXCEPT !.left = Shifted(@, d)]
                           ELSE [typed EXCEPT !.right = Shifted(@, d)]
  BY DEF TypedText
<1> HIDE DEF typed
<1> QED BY <1>1, <1>5, <1>6 DEF Texts

LEMMA ErasedTextType == ASSUME NEW text \in Texts PROVE ErasedText(text) \in Texts
<1>1. WholeWidth(text.left) \in Int BY WidthType DEF Texts
<1>2. text.behind - 1 \in Int BY DEF Texts
<1>3. (IF text.op \in {"+", "-", "*"} /\ text.left.n < 0
       THEN WholeWidth(text.left) ELSE NoSign) \in Int BY <1>1 DEF NoSign
<1>4. ASSUME NEW behind \in Int
      PROVE  /\ [text EXCEPT !.behind = behind, !.edited = TRUE] \in Texts
             /\ [text EXCEPT !.op = NoOperator, !.edited = TRUE, !.behind = behind] \in Texts
  BY DEF Texts
<1> QED BY <1>2, <1>3, <1>4 DEF ErasedText

\* Every key leaves a pad.
LEMMA EqualsType == ASSUME NEW p \in Pads PROVE Equals(p) \in Pads
<1> DEFINE result == Calculate(p.amount, p.operand, p.operator)
<1>1. p.amount \in Amount /\ p.operand \in Amount BY DEF Pads
<1>2. result \in Amount BY <1>1, PlusType, TimesType, OverType DEF Calculate
<1> HIDE DEF result
<1>3. ResultText(result) \in Texts BY <1>2, ResultTextType
<1>4. Equals(p) = [amount |-> result, text |-> ResultText(result), pressed |-> TRUE,
                   operand |-> Zero, operator |-> NoOperator]
  BY DEF Equals, result
<1> QED BY <1>2, <1>3, <1>4, ZeroType DEF Pads

LEMMA KeyTypes ==
  ASSUME NEW p \in Pads
  PROVE  /\ \A d \in 0..9 : Digit(p, d) \in Pads
         /\ \A op \in Operators : Operator(p, op) \in Pads
         /\ Clear(p) \in Pads
         /\ Erase(p) \in Pads
<1>1. ASSUME NEW d \in 0..9 PROVE Digit(p, d) \in Pads
  <2> DEFINE fresh == IF p.pressed
                      THEN [p EXCEPT !.amount = Zero, !.text = BlankText, !.pressed = FALSE]
                      ELSE p
  <2>1. fresh \in Pads BY BlankTextType, ZeroType DEF Pads
  <2>2. Digit(p, d) = [fresh EXCEPT !.amount = Shifted(@, d),
                                    !.text = TypedText(@, d), !.pressed = FALSE]
    BY DEF Digit
  <2> HIDE DEF fresh
  <2>3. Shifted(fresh.amount, d) \in Amount /\ TypedText(fresh.text, d) \in Texts
    BY <2>1, ShiftedType, TypedTextType DEF Pads
  <2> QED BY <2>1, <2>2, <2>3 DEF Pads
<1>2. ASSUME NEW op \in Operators PROVE Operator(p, op) \in Pads
  <2> DEFINE ready == IF p.operator # NoOperator THEN Equals(p) ELSE p
  <2>1. ready \in Pads BY EqualsType
  <2>2. Operator(p, op) =
          IF ready.amount.finite
          THEN [[ready EXCEPT !.operand = ready.amount, !.operator = op]
                  EXCEPT !.amount = Zero, !.pressed = FALSE,
                         !.text = OperatorText(ready.amount, op)]
          ELSE [ready EXCEPT !.operand = ready.amount, !.operator = op]
    BY DEF Operator
  <2> HIDE DEF ready
  <2>3. OperatorText(ready.amount, op) \in Texts BY <2>1, OperatorTextType DEF Pads
  <2> QED BY <2>1, <2>2, <2>3, ZeroType DEF Pads
<1>3. Clear(p) \in Pads BY BlankTextType, ZeroType DEF Clear, Pads
<1>4. Erase(p) \in Pads
  <2> DEFINE tenth == TenthFloored(p.amount)
             tenth_text == [DottedText(tenth) EXCEPT !.edited = p.operator # NoOperator]
  <2>1. tenth \in Amount BY RoundType DEF Pads
  <2> HIDE DEF tenth
  <2>2. tenth_text \in Texts BY <2>1, DottedTextType
  <2>3. ErasedText(p.text) \in Texts BY ErasedTextType DEF Pads
  <2>4. [p EXCEPT !.amount = p.operand, !.text = ErasedText(@)] \in Pads
    BY <2>3 DEF Pads
  <2>5. Erase(p) = IF p.text.behind # NoSign
                   THEN [p EXCEPT !.amount = p.operand, !.text = ErasedText(@)]
                   ELSE IF ~p.amount.finite THEN p
                   ELSE [p EXCEPT !.amount = tenth, !.pressed = FALSE, !.text = tenth_text]
    BY DEF Erase, tenth, tenth_text
  <2> HIDE DEF tenth_text
  <2>6. [p EXCEPT !.amount = tenth, !.pressed = FALSE, !.text = tenth_text] \in Pads
    BY <2>1, <2>2 DEF Pads
  <2> QED BY <2>4, <2>5, <2>6
<1> QED BY <1>1, <1>2, <1>3, <1>4

\* Rounding to two places is off by half a hundredth, cutting the fraction by
\* less than one, and neither changes a number that has nothing to lose.
LEMMA TwoPlacesShows == ASSUME NEW a \in Amount
                        PROVE  ShownTo(10, 5, TwoPlaces(a), a)
<1>1. a.n \in Int BY DEF Amount
<1>2. CASE ~a.finite BY <1>2 DEF TwoPlaces, ShownTo
<1>3. CASE a.finite
  <2> DEFINE k == Magnitude(a.n)
             q == (k + 5) \div 10
  <2>1. k \in Nat BY <1>1, SignType
  <2>2. a = Of(a.n) BY <1>3 DEF Of, Amount
  <2>3. TwoPlaces(a) = Of(Sign(a.n) * q * 10) BY <1>3 DEF TwoPlaces
  <2>4. /\ q \in Int /\ 10 * q <= k + 5 /\ k + 5 < 10 * q + 10 BY <2>1
  <2> HIDE DEF q
  <2>5. CASE a.n = 0
    <3>1. k = 0 /\ Sign(a.n) = 0 BY <2>5 DEF Magnitude, Sign
    <3>2. Sign(a.n) * q * 10 = 0 BY <3>1, <2>4
    <3> QED BY <2>2, <2>3, <2>5, <3>2 DEF ShownTo
  <2>6. CASE a.n > 0
    <3>1. k = a.n /\ Sign(a.n) * q * 10 = 10 * q BY <1>1, <2>4, <2>6 DEF Magnitude, Sign
    <3>2. TwoPlaces(a) = Of(10 * q) BY <2>3, <3>1
    <3>3. Magnitude(10 * q - a.n) <= 5 BY <1>1, <2>4, <3>1 DEF Magnitude
    <3>4. a.n % 10 = 0 => 10 * q = a.n BY <1>1, <2>4, <3>1
    <3> QED BY <1>3, <2>2, <3>2, <3>3, <3>4 DEF ShownTo, Of
  <2>7. CASE a.n < 0
    <3>1. k = 0 - a.n /\ Sign(a.n) * q * 10 = 0 - 10 * q
      BY <1>1, <2>4, <2>7 DEF Magnitude, Sign
    <3>2. TwoPlaces(a) = Of(0 - 10 * q) BY <2>3, <3>1
    <3>3. Magnitude((0 - 10 * q) - a.n) <= 5 BY <1>1, <2>4, <3>1 DEF Magnitude
    <3>4. a.n % 10 = 0 => 0 - 10 * q = a.n BY <1>1, <2>4, <3>1
    <3> QED BY <1>3, <2>2, <3>2, <3>3, <3>4 DEF ShownTo, Of
  <2> QED BY <1>1, <2>5, <2>6, <2>7
<1> QED BY <1>2, <1>3 DEF Amount

LEMMA TruncatedShows == ASSUME NEW a \in Amount, a.finite
                        PROVE  ShownTo(Unit, Unit - 1, Truncated(a), a)
<1>1. a.n \in Int BY DEF Amount
<1> DEFINE k == Magnitude(a.n)
           q == k \div 1000
<1>2. k \in Nat BY <1>1, SignType
<1>3. a = Of(a.n) BY DEF Of, Amount
<1>4. Truncated(a) = Of(Sign(a.n) * q * 1000) BY DEF Truncated, Unit
<1>5. q \in Int /\ 1000 * q <= k /\ k < 1000 * q + 1000 BY <1>2
<1> HIDE DEF q
<1> USE DEF Unit
<1>6. CASE a.n = 0
  <2>1. Sign(a.n) = 0 BY <1>6 DEF Sign
  <2>2. Sign(a.n) * q * 1000 = 0 BY <2>1, <1>5
  <2> QED BY <1>3, <1>4, <1>6, <2>2 DEF ShownTo
<1>7. CASE a.n > 0
  <2>1. k = a.n /\ Sign(a.n) * q * 1000 = 1000 * q BY <1>1, <1>5, <1>7 DEF Magnitude, Sign
  <2>2. Truncated(a) = Of(1000 * q) BY <1>4, <2>1
  <2>3. Magnitude(1000 * q - a.n) <= 999 BY <1>1, <1>5, <2>1 DEF Magnitude
  <2>4. a.n % 1000 = 0 => 1000 * q = a.n BY <1>1, <1>5, <2>1
  <2> QED BY <1>3, <2>2, <2>3, <2>4 DEF ShownTo, Of
<1>8. CASE a.n < 0
  <2>1. k = 0 - a.n /\ Sign(a.n) * q * 1000 = 0 - 1000 * q
    BY <1>1, <1>5, <1>8 DEF Magnitude, Sign
  <2>2. Truncated(a) = Of(0 - 1000 * q) BY <1>4, <2>1
  <2>3. Magnitude((0 - 1000 * q) - a.n) <= 999 BY <1>1, <1>5, <2>1 DEF Magnitude
  <2>4. a.n % 1000 = 0 => 0 - 1000 * q = a.n BY <1>1, <1>5, <2>1
  <2> QED BY <1>3, <2>2, <2>3, <2>4 DEF ShownTo, Of
<1> QED BY <1>1, <1>6, <1>7, <1>8

\* What ShownIsMeant needs to be kept by every key: a result has no finite
\* operand behind it, and "0.0" is an entry of nothing.
Legible(p) ==
    /\ p.pressed => p.operator = NoOperator \/ ~p.operand.finite
    /\ \/ p.text.edited
       \/ p.operator # NoOperator /\ ~p.operand.finite
       \/ /\ ReadsAs(p.text, p)
          /\ p.text.blank => p.operator = NoOperator /\ ~p.pressed

LEMMA LegibleAtFirst == Legible(Pad0)
  BY DEF Legible, Pad0, ReadsAs, BlankText

LEMMA EqualsLegible == ASSUME NEW p \in Pads PROVE Legible(Equals(p))
<1> DEFINE result == Calculate(p.amount, p.operand, p.operator)
<1>1. Equals(p) = [amount |-> result, text |-> ResultText(result), pressed |-> TRUE,
                   operand |-> Zero, operator |-> NoOperator]
  BY DEF Equals
<1>0. result \in Amount BY PlusType, TimesType, OverType DEF Calculate, Pads
<1> HIDE DEF result
<1>2. /\ ResultText(result).op = NoOperator
      /\ ResultText(result).left = TwoPlaces(result)
      /\ ResultText(result).blank = FALSE
  BY DEF ResultText, BlankText
<1>3. ShownTo(10, 5, ResultText(result).left, result) BY <1>0, <1>2, TwoPlacesShows
<1> QED BY <1>1, <1>2, <1>3 DEF Legible, ReadsAs

LEMMA DigitLegible == ASSUME NEW p \in Pads, Legible(p), NEW d \in 0..9
                      PROVE  Legible(Digit(p, d))
<1> DEFINE fresh == IF p.pressed
                    THEN [p EXCEPT !.amount = Zero, !.text = BlankText, !.pressed = FALSE]
                    ELSE p
           q == Digit(p, d)
<1>1. fresh \in Pads BY BlankTextType, ZeroType DEF Pads
<1>2. Legible(fresh) /\ ~fresh.pressed
  <2>1. CASE ~p.pressed BY <2>1
  <2>2. CASE p.pressed
    <3>1. /\ fresh.amount = Zero /\ fresh.text = BlankText /\ ~fresh.pressed
          /\ fresh.operand = p.operand /\ fresh.operator = p.operator
      BY <2>2 DEF Pads
    <3> HIDE DEF fresh
    <3> QED BY <2>2, <3>1 DEF Legible, ReadsAs, BlankText
  <2> QED BY <2>1, <2>2
<1>3. q = [fresh EXCEPT !.amount = Shifted(@, d), !.text = TypedText(@, d), !.pressed = FALSE]
  BY DEF Digit
<1> HIDE DEF fresh, q
<1>4. /\ q.amount = Shifted(fresh.amount, d) /\ q.text = TypedText(fresh.text, d)
      /\ ~q.pressed /\ q.operand = fresh.operand /\ q.operator = fresh.operator
  BY <1>1, <1>3 DEF Pads
<1>5. /\ q.text.edited = (fresh.text.edited \/ fresh.text.dotted)
      /\ ~q.text.blank /\ q.text.op = fresh.text.op
      /\ q.text.op = NoOperator => q.text.left = Shifted(fresh.text.left, d)
      /\ q.text.op # NoOperator => /\ q.text.left = fresh.text.left
                                  /\ q.text.right = Shifted(fresh.text.right, d)
  <2>1. fresh.text \in Texts BY <1>1 DEF Pads
  <2> QED BY <1>4, <2>1 DEF TypedText, Texts
<1>6. CASE fresh.text.edited \/ (fresh.operator # NoOperator /\ ~fresh.operand.finite)
  BY <1>4, <1>5, <1>6 DEF Legible, q
<1>7. CASE ReadsAs(fresh.text, fresh)
  <2>1. CASE fresh.text.dotted BY <1>4, <1>5, <2>1 DEF Legible, q
  <2>2. CASE ~fresh.text.dotted
    <3>1. ReadsAs(q.text, q) BY <1>2, <1>4, <1>5, <1>7, <2>2 DEF ReadsAs
    <3> QED BY <1>4, <1>5, <3>1 DEF Legible, q
  <2> QED BY <2>1, <2>2
<1> QED BY <1>2, <1>6, <1>7 DEF Legible, q

LEMMA OperatorLegible == ASSUME NEW p \in Pads, NEW op \in Operators, Legible(p)
                         PROVE  Legible(Operator(p, op))
<1> DEFINE ready == IF p.operator # NoOperator THEN Equals(p) ELSE p
           q == Operator(p, op)
<1>1. ready \in Pads BY EqualsType
<1>2. q = IF ready.amount.finite
          THEN [[ready EXCEPT !.operand = ready.amount, !.operator = op]
                  EXCEPT !.amount = Zero, !.pressed = FALSE,
                         !.text = OperatorText(ready.amount, op)]
          ELSE [ready EXCEPT !.operand = ready.amount, !.operator = op]
  BY DEF Operator
<1> HIDE DEF ready, q
<1>3. op # NoOperator BY DEF Operators, NoOperator
<1>4. CASE ready.amount.finite
  <2>1. /\ q.amount = Zero /\ ~q.pressed /\ q.operand = ready.amount /\ q.operator = op
        /\ q.text = OperatorText(ready.amount, op)
    BY <1>1, <1>2, <1>4 DEF Pads
  <2>2. /\ OperatorText(ready.amount, op).op = op
        /\ OperatorText(ready.amount, op).left = Truncated(ready.amount)
        /\ OperatorText(ready.amount, op).right = Zero
        /\ ~OperatorText(ready.amount, op).blank
    BY DEF OperatorText, BlankText
  <2>3. ShownTo(Unit, Unit - 1, Truncated(ready.amount), ready.amount)
    BY <1>1, <1>4, TruncatedShows DEF Pads
  <2> QED BY <1>3, <2>1, <2>2, <2>3 DEF Legible, ReadsAs, q
<1>5. CASE ~ready.amount.finite
  <2>1. q.operand = ready.amount /\ q.operator = op
    BY <1>1, <1>2, <1>5 DEF Pads
  <2> QED BY <1>3, <1>5, <2>1 DEF Legible, q
<1> QED BY <1>4, <1>5

LEMMA ClearLegible == ASSUME NEW p \in Pads, Legible(p) PROVE Legible(Clear(p))
<1>1. /\ Clear(p).amount = Zero /\ Clear(p).text = BlankText /\ ~Clear(p).pressed
      /\ Clear(p).operator = NoOperator
  BY DEF Clear, Pads
<1> QED BY <1>1 DEF Legible, ReadsAs, BlankText

LEMMA EraseLegible == ASSUME NEW p \in Pads, Legible(p) PROVE Legible(Erase(p))
<1> DEFINE tenth == TenthFloored(p.amount)
           tenth_text == [DottedText(tenth) EXCEPT !.edited = p.operator # NoOperator]
           q == Erase(p)
<1>1. q = IF p.text.behind # NoSign
          THEN [p EXCEPT !.amount = p.operand, !.text = ErasedText(@)]
          ELSE IF ~p.amount.finite THEN p
          ELSE [p EXCEPT !.amount = tenth, !.pressed = FALSE, !.text = tenth_text]
  BY DEF Erase
<1>2. /\ tenth_text.op = NoOperator /\ tenth_text.left = tenth
      /\ tenth_text.blank <=> tenth = Zero
      /\ tenth_text.edited <=> p.operator # NoOperator
  BY DEF BlankText, DottedText
<1>3. ErasedText(p.text).edited
  BY DEF ErasedText, Texts, Pads
<1> HIDE DEF tenth, tenth_text, q
<1>4. CASE p.text.behind # NoSign
  <2>1. /\ q.text = ErasedText(p.text) /\ q.pressed = p.pressed
        /\ q.operand = p.operand /\ q.operator = p.operator
    BY <1>1, <1>4 DEF Pads
  <2> QED BY <1>3, <2>1 DEF Legible, q
<1>5. CASE p.text.behind = NoSign /\ ~p.amount.finite
  BY <1>1, <1>5 DEF q
<1>6. CASE p.text.behind = NoSign /\ p.amount.finite
  <2>1. /\ q.amount = tenth /\ q.text = tenth_text /\ ~q.pressed
        /\ q.operand = p.operand /\ q.operator = p.operator
    BY <1>1, <1>6 DEF Pads
  <2> QED BY <1>2, <2>1 DEF Legible, ReadsAs, q
<1> QED BY <1>4, <1>5, <1>6

-----------------------------------------------------------------------------
(* The messages *)

\* A certificate keeps what is signed of it when it travels.
LEMMA CertTrip ==
  ASSUME NEW c, c.balance \in Amount, c.time \in Nat
  PROVE  LET d == DecodeCert(EncodeCert(c))
         IN  /\ CertBody(d) = CertBody(c)
             /\ d.signature = c.signature /\ d.key = c.key
             /\ d.balance \in Amount /\ d.time \in Nat
<1> DEFINE d == DecodeCert(EncodeCert(c))
<1>1. /\ d.user = c.user /\ d.balance = Float32(c.balance) /\ d.key = c.key
      /\ d.time = Second(c.time) * TicksPerSecond /\ d.signature = c.signature
  BY DEF DecodeCert, EncodeCert, CertBody
<1>2. Float32(d.balance) = Float32(c.balance) /\ d.balance \in Amount
  BY <1>1, Float32Idempotent, RoundType
<1>3. Second(d.time) = Second(c.time) /\ d.time \in Nat
  BY <1>1, SecondIdempotent
<1> HIDE DEF d
<1>4. CertBody(d) = CertBody(c) BY <1>1, <1>2, <1>3 DEF CertBody
<1> QED BY <1>1, <1>2, <1>3, <1>4 DEF d

\* The certificates of the payer, signed or not, as the phone decodes them.
Raw == {Stamped(Payer, Whole(balance), key, time) :
          balance \in Balances, key \in {PhoneKey, OtherKey}, time \in Nat}
Certs == {DecodeCert(EncodeCert(c)) : c \in Raw}
         \cup {DecodeCert(EncodeCert(SignCert(c))) : c \in Raw}

\* What the phone holds of a certificate verifies with the server's key, or it
\* has no signature.
LEMMA CertFacts ==
  ASSUME NEW c \in Certs
  PROVE  /\ c.balance \in Amount /\ c.balance.finite /\ c.time \in Nat
         /\ c.key \in {PhoneKey, OtherKey}
         /\ VerifyCert(c) \/ c.signature = Unsigned
<1>1. PICK raw \in Raw : \/ c = DecodeCert(EncodeCert(raw))
                         \/ c = DecodeCert(EncodeCert(SignCert(raw)))
  BY DEF Certs
<1>2. PICK b \in Balances, k \in {PhoneKey, OtherKey}, t \in Nat :
        raw = Stamped(Payer, Whole(b), k, t)
  BY DEF Raw
<1>3. b * Unit \in Int BY HandoverAssumption DEF Unit
<1>4. Whole(b) \in Amount /\ Whole(b).finite BY <1>3, OfType DEF Whole, Of
<1>5. /\ raw.user = Payer /\ raw.balance = Whole(b) /\ raw.key = k /\ raw.time = t
      /\ raw.signature = Unsigned
  BY <1>2 DEF Stamped
<1>6. ASSUME NEW made, made \in {raw, SignCert(raw)}, c = DecodeCert(EncodeCert(made))
      PROVE  /\ CertBody(c) = CertBody(raw) /\ c.signature = made.signature
             /\ c.key = k /\ c.balance \in Amount /\ c.time \in Nat
             /\ c.balance.finite
  <2>1. SignCert(raw) = [raw EXCEPT !.signature = [by |-> ServerKey, of |-> CertBody(raw)]]
    BY DEF SignCert
  <2>2. /\ made.user = Payer /\ made.balance = Whole(b) /\ made.key = k /\ made.time = t
    BY <1>2, <1>5, <1>6, <2>1 DEF Stamped
  <2>3. CertBody(made) = CertBody(raw) BY <1>5, <2>2 DEF CertBody
  <2>4. c.balance = Float32(Whole(b))
    BY <1>6, <2>2 DEF DecodeCert, EncodeCert, CertBody
  <2> QED BY <1>4, <1>6, <2>2, <2>3, <2>4, CertTrip DEF Float32, Of
<1>7. SignCert(raw).signature = [by |-> ServerKey, of |-> CertBody(raw)]
  BY <1>2 DEF SignCert, Stamped
<1>8. CASE c = DecodeCert(EncodeCert(raw)) BY <1>5, <1>6, <1>8
<1>9. CASE c = DecodeCert(EncodeCert(SignCert(raw)))
  BY <1>6, <1>7, <1>9 DEF VerifyCert
<1> QED BY <1>1, <1>8, <1>9

LEMMA CertifiedIsCert ==
  ASSUME NEW b \in Balances, NEW k \in {PhoneKey, OtherKey}, NEW t \in Nat
  PROVE  Certified(b, k, t) \in Certs
<1>1. Stamped(Payer, Whole(b), k, t) \in Raw BY DEF Raw
<1> QED BY <1>1 DEF Certs, Certified, Issued

\* The TVCs an answer leaves behind bring certificates of the payer.
LEMMA LaterCert ==
  ASSUME NEW c \in Certs, NEW tvc \in Later(c)
  PROVE  tvc.cert \in Certs
<1> DEFINE stamped(balance) ==
             Stamped(Payer, Whole(balance), c.key, c.time + TicksPerSecond)
<1>1. c.time + TicksPerSecond \in Nat /\ c.key \in {PhoneKey, OtherKey}
  BY CertFacts, MessagesAssumption
<1>2. \A b \in Balances : stamped(b) \in Raw BY <1>1 DEF Raw
<1>3. PICK b \in Balances :
        \E from \in {Payee, Payer}, d \in {stamped(b), SignCert(stamped(b))} :
          tvc = Decode(Encode("TVC", Tvc(d.balance, from, d, c.time)))
  BY DEF Later
<1>4. PICK from \in {Payee, Payer}, d \in {stamped(b), SignCert(stamped(b))} :
        tvc = Decode(Encode("TVC", Tvc(d.balance, from, d, c.time)))
  BY <1>3
<1> DEFINE body == [amount |-> d.balance, party |-> from, cert |-> d,
                    time |-> c.time, signature |-> Unsigned]
           w == Tvc(d.balance, from, d, c.time)
<1>5. w = [body EXCEPT !.signature = [by |-> ServerKey, of |-> Body("TVC", body)]]
  BY DEF Tvc, SignAs
<1>6. w.cert = d BY <1>5
<1>7. Decode(Encode("TVC", w)).cert = DecodeCert(EncodeCert(w.cert))
  BY DEF Decode, Encode, Body
<1> HIDE DEF w, body
<1>8. tvc.cert = DecodeCert(EncodeCert(d)) BY <1>4, <1>6, <1>7 DEF w
<1> QED BY <1>2, <1>8, <1>4 DEF Certs

\* The TAMs of this phone.
IsTam(m) ==
    /\ m = [amount |-> m.amount, party |-> m.party, cert |-> m.cert,
            time |-> m.time, signature |-> m.signature]
    /\ m.amount \in Amount
    /\ m.cert \in Certs
    /\ m.time \in Nat

\* Signing changes nothing of what is signed.
LEMMA SignedFacts ==
  ASSUME NEW m, IsTam(m), NEW key
  PROVE  LET n == SignAs("TAM", key, m)
         IN  /\ IsTam(n)
             /\ n.amount = m.amount /\ n.cert = m.cert
             /\ Body("TAM", n) = Body("TAM", m)
             /\ n.signature = [by |-> key, of |-> Body("TAM", n)]
<1> DEFINE n == SignAs("TAM", key, m)
           sig == [by |-> key, of |-> Body("TAM", m)]
<1>1. n = [m EXCEPT !.signature = sig] BY DEF SignAs
<1> HIDE DEF sig, n
<1>2. n = [amount |-> m.amount, party |-> m.party, cert |-> m.cert,
           time |-> m.time, signature |-> sig]
  BY <1>1 DEF IsTam
<1>3. Body("TAM", n) = Body("TAM", m) BY <1>2 DEF Body
<1> QED BY <1>2, <1>3 DEF IsTam, n, sig

\* The bytes of a TAM mean the TAM that was signed: decoded, it has the same
\* signed bytes, and encoded again it has the same bytes.
LEMMA RoundTrip ==
  ASSUME NEW m, IsTam(m)
  PROVE  LET d == Decode(Encode("TAM", m))
         IN  /\ Body("TAM", d) = Body("TAM", m)
             /\ Encode("TAM", d) = Encode("TAM", m)
             /\ d.signature = m.signature /\ d.cert.key = m.cert.key
             /\ VerifyCert(m.cert) => VerifyCert(d.cert)
<1> DEFINE d == Decode(Encode("TAM", m))
<1>1. /\ d.amount = Float32(m.amount) /\ d.party = m.party
      /\ d.cert = DecodeCert(EncodeCert(m.cert))
      /\ d.time = Second(m.time) * TicksPerSecond /\ d.signature = m.signature
  BY DEF Decode, Encode, Body
<1> HIDE DEF d
<1>2. m.cert.balance \in Amount /\ m.cert.time \in Nat
  BY CertFacts DEF IsTam
<1>3. /\ CertBody(d.cert) = CertBody(m.cert) /\ d.cert.signature = m.cert.signature
      /\ d.cert.key = m.cert.key
  BY <1>1, <1>2, CertTrip
<1>4. EncodeCert(d.cert) = EncodeCert(m.cert) BY <1>3 DEF EncodeCert
<1>5. Float32(d.amount) = Float32(m.amount) BY <1>1, Float32Idempotent DEF IsTam
<1>6. Second(d.time) = Second(m.time) BY <1>1, SecondIdempotent DEF IsTam
<1>7. Body("TAM", d) = Body("TAM", m) BY <1>1, <1>4, <1>5, <1>6 DEF Body
<1>8. Encode("TAM", d) = Encode("TAM", m) BY <1>1, <1>7 DEF Encode
<1> QED BY <1>1, <1>2, <1>3, <1>7, <1>8 DEF VerifyCert, d

\* A TAM that carries the signature of the certified key still does when it has
\* travelled, and if its certificate is signed the server accepts it.
LEMMA SignedIsAccepted ==
  ASSUME NEW m, IsTam(m),
         m.signature = [by |-> m.cert.key, of |-> Body("TAM", m)]
  PROVE  /\ VerifyTAM(Decode(Encode("TAM", m)))
         /\ ServerAccepts(Encode("TAM", m)) \/ m.cert.signature = Unsigned
<1> DEFINE d == Decode(Encode("TAM", m))
<1>1. /\ Body("TAM", d) = Body("TAM", m) /\ d.signature = m.signature
      /\ d.cert.key = m.cert.key
      /\ VerifyCert(m.cert) => VerifyCert(d.cert)
  BY RoundTrip
<1>2. VerifyCert(m.cert) \/ m.cert.signature = Unsigned BY CertFacts DEF IsTam
<1> HIDE DEF d
<1>3. VerifyTAM(d) BY <1>1 DEF VerifyTAM, VerifyAs
<1> QED BY <1>1, <1>2, <1>3 DEF ServerAccepts, d

\* A TVC never passes for a TAM: the first signed byte differs.
LEMMA TvcIsNoTam ==
  ASSUME NEW code, code.signature.of.type = "TVC"
  PROVE  ~VerifyTAM(Decode(code))
<1> DEFINE d == Decode(code)
<1>1. d.signature = code.signature BY DEF Decode
<1> HIDE DEF d
<1>2. Body("TAM", d).type = "TAM" BY DEF Body
<1>3. SUFFICES ASSUME VerifyTAM(d) PROVE FALSE BY DEF d
<1>4. d.signature.of = Body("TAM", d) BY <1>3 DEF VerifyTAM, VerifyAs
<1> QED BY <1>1, <1>2, <1>4

\* The signature of a TVC says so.
LEMMA TvcFacts == ASSUME NEW t
                  PROVE  LET code == Encode("TVC", TvcOf(t))
                         IN  /\ code.signature.of.type = "TVC"
                             /\ IsTam(sends[t].tam) => VerifyTVC(Decode(code))
<1> DEFINE m == sends[t].tam
           c == Stamped(Payee, m.amount, PayeeKey, m.time + TicksPerSecond)
           v == [amount |-> m.amount, party |-> Payer, cert |-> c,
                 time |-> m.time, signature |-> Unsigned]
           sig == [by |-> ServerKey, of |-> Body("TVC", v)]
           w == TvcOf(t)
           d == Decode(Encode("TVC", w))
<1>1. w = [v EXCEPT !.signature = sig] BY DEF TvcOf, Tvc, SignAs
<1>2. sig.of.type = "TVC" BY DEF Body
<1>3. /\ w.amount = m.amount /\ w.party = Payer /\ w.cert = c /\ w.time = m.time
      /\ w.signature = sig
  BY <1>1
<1>4. Body("TVC", w) = Body("TVC", v) BY <1>3 DEF Body
<1>5. sig = [by |-> ServerKey, of |-> Body("TVC", w)] BY <1>4
<1>6. ASSUME IsTam(m) PROVE VerifyTVC(d)
  <2>1. m.amount \in Amount /\ m.time \in Nat BY <1>6 DEF IsTam
  <2>2. c.balance \in Amount /\ c.time \in Nat BY <2>1, MessagesAssumption DEF Stamped
  <2> HIDE DEF c, sig, v, w
  <2>3. /\ d.amount = Float32(w.amount) /\ d.party = w.party
        /\ d.cert = DecodeCert(EncodeCert(w.cert))
        /\ d.time = Second(w.time) * TicksPerSecond /\ d.signature = w.signature
    BY DEF Decode, Encode, Body
  <2> HIDE DEF d
  <2>4. EncodeCert(d.cert) = EncodeCert(w.cert)
    BY <1>3, <2>2, <2>3, CertTrip DEF EncodeCert
  <2>5. Float32(d.amount) = Float32(w.amount) BY <1>3, <2>1, <2>3, Float32Idempotent
  <2>6. Second(d.time) = Second(w.time) BY <1>3, <2>1, <2>3, SecondIdempotent
  <2>7. Body("TVC", d) = Body("TVC", w) BY <2>3, <2>4, <2>5, <2>6 DEF Body
  <2> QED BY <1>3, <1>5, <2>3, <2>7 DEF VerifyTVC, VerifyAs
<1> HIDE DEF sig
<1>7. Encode("TVC", w).signature = sig BY <1>3 DEF Encode
<1> QED BY <1>2, <1>6, <1>7

-----------------------------------------------------------------------------
(* Types *)

SendPhases == {"idle", "reading", "signing", "recorded", "over"}

\* A TAM that is being signed is complete, and one that is recorded carries
\* the signature of this phone's key, which its certificate names.
SendInv ==
    /\ DOMAIN sends = Taps
    /\ \A t \in Taps :
         /\ sends[t].phase \in SendPhases
         /\ sends[t].phase = "signing" => IsTam(sends[t].tam) /\ privateKey = PhoneKey
         /\ sends[t].phase = "recorded" =>
              /\ IsTam(sends[t].tam)
              /\ sends[t].tam.cert.key = PhoneKey
              /\ sends[t].tam.signature = [by |-> PhoneKey, of |-> Body("TAM", sends[t].tam)]

TypeInv ==
    /\ pad \in Pads
    /\ tamStatus \in {"other", "initiated"}
    /\ shown \in Amount
    /\ cert \in Certs
    /\ storedCert \in Certs
    /\ writes \in Seq(Certs)
    /\ \A v \in late : v.cert \in Certs
    /\ unsubmitted \subseteq Recorded
    /\ sentAmount \in Amount
    /\ privateKey \in {PhoneKey, NoKey}
    /\ scannedOnce \in BOOLEAN
    /\ DOMAIN scans = Scans
    /\ \A c \in Scans : scans[c].phase \in {"idle", "verifying", "over"}
    /\ payeeCert.user = Payee
    /\ half \in BOOLEAN
    /\ listed \subseteq settled
    /\ settled \subseteq Recorded
    /\ clock \in Nat
    /\ budget \in Kinds
    /\ overtaken \subseteq Taps
    /\ foreign \in BOOLEAN

LEMMA AvailableType == ASSUME TypeInv PROVE Available \in Amount
  BY CertFacts, PlusType DEF TypeInv, Available

LEMMA IssuedTo == ASSUME NEW user, NEW balance, NEW key, NEW time
                  PROVE  Issued(user, balance, key, time).user = user
<1> DEFINE c == Stamped(user, Whole(balance), key, time)
<1>1. SignCert(c) = [c EXCEPT !.signature = [by |-> ServerKey, of |-> CertBody(c)]]
  BY DEF SignCert
<1>2. SignCert(c).user = user BY <1>1 DEF Stamped
<1> HIDE DEF c
<1> QED BY <1>2 DEF Issued, DecodeCert, EncodeCert, CertBody, c

LEMMA InitTypes == ASSUME Init PROVE TypeInv /\ SendInv
<1>1. PICK b \in Balances : cert = Certified(b, PhoneKey, 0) BY DEF Init
<1>2. cert \in Certs BY <1>1, CertifiedIsCert
<1>3. TypeInv
  <2>1. pad \in Pads /\ sentAmount \in Amount BY BlankTextType, ZeroType DEF Init
  <2>2. shown \in Amount BY <1>2, CertFacts DEF Init
  <2>3. writes \in Seq(Certs) BY DEF Init
  <2>4. budget \in Kinds
    BY HandoverAssumption DEF Init
  <2>5. payeeCert.user = Payee
    BY IssuedTo DEF Init
  <2> QED BY <1>2, <2>1, <2>2, <2>3, <2>4, <2>5 DEF Init, TypeInv, Unread
<1>4. SendInv BY DEF Init, SendInv, SendPhases, Blank
<1> QED BY <1>3, <1>4

\* What a key, a tap, an answer or a code takes from the budget.
LEMMA SpendType ==
  ASSUME TypeInv, NEW kind \in {"keys", "taps", "answers", "between", "payee", "codes"},
         Spend(kind)
  PROVE  budget' \in Kinds
<1>1. budget \in Kinds /\ budget[kind] \in Nat BY DEF TypeInv, Kinds
<1>2. budget' = [budget EXCEPT ![kind] = @ - 1] /\ budget[kind] > 0 BY DEF Spend
<1>3. budget[kind] - 1 \in Nat BY <1>1, <1>2
<1> QED BY <1>1, <1>2, <1>3 DEF Kinds

\* A send that leaves the phases before "recorded" changes no recorded TAM.
LEMMA RecordedStays ==
  ASSUME SendInv, NEW t \in Taps, sends[t].phase # "recorded", NEW new,
         sends' = [sends EXCEPT ![t] = new]
  PROVE  /\ DOMAIN sends' = Taps
         /\ \A u \in Taps : sends'[u] = IF u = t THEN new ELSE sends[u]
         /\ \A u \in Recorded : u \in Recorded' /\ sends'[u] = sends[u]
<1>1. DOMAIN sends = Taps BY DEF SendInv
<1>2. /\ DOMAIN sends' = Taps
      /\ \A u \in Taps : sends'[u] = IF u = t THEN new ELSE sends[u]
  BY <1>1
<1> QED BY <1>2 DEF Recorded, Has

LEMMA PressedTypes ==
  ASSUME TypeInv, SendInv, NEW next \in Pads, Pressed(next)
  PROVE  TypeInv' /\ SendInv'
<1>1. /\ UNCHANGED <<tamStatus, sends, shown, ledger, scanner, settled, clock>>
      /\ Spend("keys") /\ pad' = next
      /\ overtaken' = overtaken \cup Has({"reading"})
  BY DEF Pressed
<1>2. budget' \in Kinds BY <1>1, SpendType
<1>3. overtaken' \subseteq Taps BY <1>1 DEF TypeInv, Has
<1>4. SendInv' BY <1>1 DEF SendInv, ledger
<1>5. Recorded' = Recorded BY <1>1 DEF Recorded, Has
<1> QED BY <1>1, <1>2, <1>3, <1>4, <1>5 DEF TypeInv, ledger, scanner, payee

LEMMA KeyTypesStep == ASSUME TypeInv, SendInv, Key PROVE TypeInv' /\ SendInv'
<1>1. pad \in Pads BY DEF TypeInv
<1>2. CASE PressDigit
  <2>1. PICK d \in DigitKeys : Pressed(Digit(pad, d)) BY <1>2 DEF PressDigit
  <2>2. d \in 0..9 BY HandoverAssumption
  <2> QED BY <1>1, <2>1, <2>2, KeyTypes, PressedTypes
<1>3. CASE PressOperator BY <1>1, <1>3, KeyTypes, PressedTypes DEF PressOperator
<1>4. CASE PressEquals BY <1>1, <1>4, EqualsType, PressedTypes DEF PressEquals
<1>5. CASE PressClear BY <1>1, <1>5, KeyTypes, PressedTypes DEF PressClear
<1>6. CASE PressErase BY <1>1, <1>6, KeyTypes, PressedTypes DEF PressErase
<1> QED BY <1>2, <1>3, <1>4, <1>5, <1>6 DEF Key

LEMMA SendTypesStep ==
  ASSUME TypeInv, SendInv, NEW t \in Taps, Send(t)
  PROVE  TypeInv' /\ SendInv'
<1>1. CASE Tap(t)
  <2>1. /\ sends[t].phase = "idle" /\ sends' = [sends EXCEPT ![t] = Blank("reading")]
        /\ Spend("taps") /\ overtaken' \subseteq overtaken \cup {t}
        /\ UNCHANGED <<pad, tamStatus, shown, ledger, scanner, settled, clock>>
    BY <1>1 DEF Tap
  <2>2. budget' \in Kinds BY <2>1, SpendType
  <2>3. /\ DOMAIN sends' = Taps
        /\ \A u \in Taps : sends'[u] = IF u = t THEN Blank("reading") ELSE sends[u]
        /\ \A u \in Recorded : u \in Recorded' /\ sends'[u] = sends[u]
    BY <2>1, RecordedStays
  <2>4. SendInv' BY <2>1, <2>3 DEF SendInv, SendPhases, Blank, ledger
  <2>5. TypeInv' BY <2>1, <2>2, <2>3 DEF TypeInv, ledger, scanner, payee
  <2> QED BY <2>4, <2>5
<1>2. CASE TapRefused(t)
  <2>1. /\ sends[t].phase = "idle" /\ sends' = [sends EXCEPT ![t] = Blank("over")]
        /\ Spend("taps") /\ tamStatus' = "other"
        /\ UNCHANGED <<pad, shown, ledger, scanner, settled, clock, overtaken>>
    BY <1>2 DEF TapRefused
  <2>2. budget' \in Kinds BY <2>1, SpendType
  <2>3. /\ DOMAIN sends' = Taps
        /\ \A u \in Taps : sends'[u] = IF u = t THEN Blank("over") ELSE sends[u]
        /\ \A u \in Recorded : u \in Recorded' /\ sends'[u] = sends[u]
    BY <2>1, RecordedStays
  <2>4. SendInv' BY <2>1, <2>3 DEF SendInv, SendPhases, Blank, ledger
  <2>5. TypeInv' BY <2>1, <2>2, <2>3 DEF TypeInv, ledger, scanner, payee
  <2> QED BY <2>4, <2>5
<1>3. CASE Build(t)
  <2> DEFINE tam == [amount |-> pad.amount, party |-> Payee, cert |-> storedCert,
                     time |-> clock, signature |-> Unsigned]
             new == [phase |-> "signing", tam |-> tam]
  <2>1. /\ sends[t].phase = "reading" /\ sends' = [sends EXCEPT ![t] = new]
        /\ privateKey # NoKey /\ tamStatus' = "initiated"
        /\ clock' \in {clock + 1, clock + TicksPerSecond}
        /\ UNCHANGED <<pad, shown, ledger, scanner, settled, budget, overtaken>>
    BY <1>3 DEF Build
  <2>2. clock' \in Nat BY <2>1, MessagesAssumption DEF TypeInv
  <2>3. IsTam(new.tam) /\ new.phase = "signing" BY DEF IsTam, TypeInv, Pads
  <2> HIDE DEF new, tam
  <2>4. /\ DOMAIN sends' = Taps
        /\ \A u \in Taps : sends'[u] = IF u = t THEN new ELSE sends[u]
        /\ \A u \in Recorded : u \in Recorded' /\ sends'[u] = sends[u]
    BY <2>1, RecordedStays
  <2>5. privateKey = PhoneKey /\ privateKey' = privateKey BY <2>1 DEF TypeInv, ledger
  <2>6. SendInv'
    <3>1. \A u \in Taps : IsTam(sends[u].tam)' <=> IsTam(sends'[u].tam) BY DEF IsTam
    <3> QED BY <2>3, <2>4, <2>5 DEF SendInv, SendPhases
  <2>7. TypeInv' BY <2>1, <2>2, <2>4 DEF TypeInv, ledger, scanner, payee
  <2> QED BY <2>6, <2>7
<1>4. CASE NotPrimary(t)
  <2>1. /\ sends[t].phase = "reading" /\ sends' = [sends EXCEPT ![t] = Blank("over")]
        /\ tamStatus' = "other"
        /\ UNCHANGED <<pad, shown, ledger, scanner, rest, overtaken>>
    BY <1>4 DEF NotPrimary
  <2>3. /\ DOMAIN sends' = Taps
        /\ \A u \in Taps : sends'[u] = IF u = t THEN Blank("over") ELSE sends[u]
        /\ \A u \in Recorded : u \in Recorded' /\ sends'[u] = sends[u]
    BY <2>1, RecordedStays
  <2>4. SendInv' BY <2>1, <2>3 DEF SendInv, SendPhases, Blank, ledger
  <2>5. TypeInv' BY <2>1, <2>3 DEF TypeInv, ledger, scanner, payee, rest
  <2> QED BY <2>4, <2>5
<1>5. CASE HandOver(t)
  <2> DEFINE new == [phase |-> "recorded", tam |-> SignedBy(t)]
  <2>1. /\ sends[t].phase = "signing" /\ sends' = [sends EXCEPT ![t] = new]
        /\ VerifyTAM(SignedBy(t)) /\ tamStatus' = "other"
        /\ unsubmitted' = unsubmitted \cup {t}
        /\ sentAmount' = Plus(sentAmount, sends[t].tam.amount)
        /\ writes' = Append(writes, cert)
        /\ overtaken' = overtaken \cup (UnderWay \ {t})
        /\ UNCHANGED <<pad, shown, cert, late, storedCert, privateKey, scanner, rest>>
    BY <1>5 DEF HandOver, Save
  <2>2. IsTam(sends[t].tam) /\ privateKey = PhoneKey BY <2>1 DEF SendInv
  <2>3. /\ IsTam(SignedBy(t))
        /\ SignedBy(t).signature = [by |-> PhoneKey, of |-> Body("TAM", SignedBy(t))]
    BY <2>2, SignedFacts DEF SignedBy
  <2>4. SignedBy(t).cert.key = PhoneKey
    BY <2>1, <2>3 DEF VerifyTAM, VerifyAs
  <2>5. new.phase = "recorded" /\ new.tam = SignedBy(t) OBVIOUS
  <2> HIDE DEF new
  <2>6. /\ DOMAIN sends' = Taps
        /\ \A u \in Taps : sends'[u] = IF u = t THEN new ELSE sends[u]
        /\ \A u \in Recorded : u \in Recorded' /\ sends'[u] = sends[u]
    BY <2>1, RecordedStays
  <2>7. t \in Recorded' BY <2>5, <2>6 DEF Recorded, Has
  <2>8. sentAmount' \in Amount BY <2>1, <2>2, PlusType DEF TypeInv, IsTam
  <2>9. writes' \in Seq(Certs) BY <2>1 DEF TypeInv
  <2>10. overtaken' \subseteq Taps BY <2>1 DEF TypeInv, UnderWay, Has
  <2>11. SendInv' BY <2>1, <2>2, <2>3, <2>4, <2>5, <2>6 DEF SendInv, SendPhases
  <2>12. TypeInv'
    BY <2>1, <2>6, <2>7, <2>8, <2>9, <2>10 DEF TypeInv, scanner, payee, rest
  <2> QED BY <2>11, <2>12
<1>6. CASE DropUnverified(t)
  <2>1. /\ sends[t].phase = "signing" /\ sends' = [sends EXCEPT ![t] = Blank("over")]
        /\ tamStatus' = "other"
        /\ UNCHANGED <<pad, shown, ledger, scanner, rest, overtaken>>
    BY <1>6 DEF DropUnverified
  <2>3. /\ DOMAIN sends' = Taps
        /\ \A u \in Taps : sends'[u] = IF u = t THEN Blank("over") ELSE sends[u]
        /\ \A u \in Recorded : u \in Recorded' /\ sends'[u] = sends[u]
    BY <2>1, RecordedStays
  <2>4. SendInv' BY <2>1, <2>3 DEF SendInv, SendPhases, Blank, ledger
  <2>5. TypeInv' BY <2>1, <2>3 DEF TypeInv, ledger, scanner, payee, rest
  <2> QED BY <2>4, <2>5
<1> QED BY <1>1, <1>2, <1>3, <1>4, <1>5, <1>6 DEF Send

LEMMA AnsweredCert == ASSUME TypeInv, Answered PROVE cert' \in Certs
<1>1. PICK balance \in Balances, key \in {PhoneKey, OtherKey} :
        cert' = Certified(balance, key, clock)
  BY DEF Answered
<1>2. clock \in Nat BY DEF TypeInv
<1> QED BY <1>1, <1>2, CertifiedIsCert

LEMMA AnsweredTypes ==
  ASSUME TypeInv, SendInv, Answered, budget' \in Kinds,
         \A v \in late' : v.cert \in Certs
  PROVE  TypeInv' /\ SendInv'
<1>1. /\ unsubmitted' = {} /\ sentAmount' = Zero
      /\ writes' = Append(writes, cert')
      /\ overtaken' = overtaken \cup UnderWay
      /\ UNCHANGED <<sender, storedCert, privateKey, scanner, clock>>
  BY DEF Answered, Save
<1>2. cert' \in Certs BY AnsweredCert
<1>3. writes' \in Seq(Certs) BY <1>1, <1>2 DEF TypeInv
<1>4. Recorded' = Recorded BY <1>1 DEF Recorded, Has, sender
<1>5. settled' \subseteq Recorded /\ settled \subseteq settled' BY DEF Answered, TypeInv
<1>6. overtaken' \subseteq Taps BY <1>1 DEF TypeInv, UnderWay, Has
<1>7. SendInv' BY <1>1 DEF SendInv, sender
<1> QED BY <1>1, <1>2, <1>3, <1>4, <1>5, <1>6, <1>7, ZeroType
        DEF TypeInv, sender, scanner, payee

LEMMA SubmitTypes ==
  ASSUME TypeInv, SendInv, NEW tvc \in late, SubmitTVC(tvc)
  PROVE  TypeInv' /\ SendInv'
<1>1. /\ cert' = tvc.cert /\ writes' = Append(writes, cert')
      /\ overtaken' \subseteq overtaken \cup UnderWay \cup unsubmitted
      /\ UNCHANGED <<sender, unsubmitted, sentAmount, late, storedCert, privateKey,
                     scanner, rest>>
  BY DEF SubmitTVC, Save
<1>2. cert' \in Certs BY <1>1 DEF TypeInv
<1>3. writes' \in Seq(Certs) BY <1>1, <1>2 DEF TypeInv
<1>4. Recorded' = Recorded BY <1>1 DEF Recorded, Has, sender
<1>5. overtaken' \subseteq Taps BY <1>1 DEF TypeInv, UnderWay, Recorded, Has
<1>6. SendInv' BY <1>1 DEF SendInv, sender
<1> QED BY <1>1, <1>2, <1>3, <1>4, <1>5, <1>6 DEF TypeInv, sender, scanner, payee, rest

LEMMA PhoneTypesStep ==
  ASSUME TypeInv, SendInv,
         \/ Frame \/ Refresh \/ RefreshBetween \/ Flush \/ Reopen
         \/ PayeeRefresh \/ Adopt
         \/ \E tvc \in late : SubmitTVC(tvc)
  PROVE  TypeInv' /\ SendInv'
<1>1. CASE Frame
  <2>1. UNCHANGED <<pad, tamStatus, sends, ledger, scanner, rest, overtaken>>
    BY <1>1 DEF Frame
  <2>2. shown' \in Amount BY <1>1, AvailableType DEF Frame
  <2>3. Recorded' = Recorded BY <2>1 DEF Recorded, Has
  <2> QED BY <2>1, <2>2, <2>3 DEF TypeInv, SendInv, ledger, scanner, payee, rest
<1>2. CASE Refresh
  <2>1. budget' \in Kinds BY <1>2, SpendType DEF Refresh
  <2> QED BY <1>2, <2>1, AnsweredTypes DEF Refresh
<1>3. CASE RefreshBetween
  <2>1. budget' \in Kinds BY <1>3, SpendType DEF RefreshBetween
  <2>2. cert' \in Certs BY <1>3, AnsweredCert DEF RefreshBetween
  <2>3. PICK tvc \in Later(cert') : late' = {tvc} BY <1>3 DEF RefreshBetween
  <2>4. tvc.cert \in Certs BY <2>2, LaterCert
  <2> QED BY <1>3, <2>1, <2>3, <2>4, AnsweredTypes DEF RefreshBetween
<1>4. CASE Flush
  <2>1. /\ writes # <<>> /\ storedCert' = Head(writes) /\ writes' = Tail(writes)
        /\ UNCHANGED <<sender, cert, unsubmitted, sentAmount, late, privateKey, scanner,
                       rest, overtaken>>
    BY <1>4 DEF Flush
  <2>2. storedCert' \in Certs /\ writes' \in Seq(Certs) BY <2>1 DEF TypeInv
  <2>3. Recorded' = Recorded BY <2>1 DEF Recorded, Has, sender
  <2> QED BY <2>1, <2>2, <2>3 DEF TypeInv, SendInv, sender, scanner, payee, rest
<1>5. CASE Reopen
  <2>1. /\ scannedOnce' = FALSE /\ foreign' = FALSE
        /\ UNCHANGED <<sender, ledger, scans, tvcs, payee, rest, overtaken>>
    BY <1>5 DEF Reopen
  <2>2. Recorded' = Recorded BY <2>1 DEF Recorded, Has, sender
  <2> QED BY <2>1, <2>2 DEF TypeInv, SendInv, sender, ledger, payee, rest
<1>6. CASE PayeeRefresh
  <2>1. /\ listed' \subseteq settled /\ half' = FALSE
        /\ UNCHANGED <<sender, ledger, scannedOnce, scans, tvcs, foreign, settled, clock,
                       overtaken>>
    BY <1>6 DEF PayeeRefresh
  <2>2. budget' \in Kinds BY <1>6, SpendType DEF PayeeRefresh
  <2>3. payeeCert'.user = Payee BY <1>6, IssuedTo DEF PayeeRefresh
  <2>4. Recorded' = Recorded BY <2>1 DEF Recorded, Has, sender
  <2> QED BY <2>1, <2>2, <2>3, <2>4 DEF TypeInv, SendInv, sender, ledger
<1>7. CASE Adopt
  <2>1. PICK tvc \in tvcs : AdoptTVC(tvc) \/ IgnoreTVC(tvc) BY <1>7 DEF Adopt
  <2>2. UNCHANGED <<sender, ledger, scannedOnce, scans, foreign, received, listed, rest,
                    overtaken>>
    BY <2>1 DEF AdoptTVC, IgnoreTVC, Handle
  <2>3. payeeCert'.user = Payee BY <2>1 DEF AdoptTVC, IgnoreTVC, MayAdopt, TypeInv
  <2>4. half' \in BOOLEAN BY <2>1 DEF AdoptTVC, IgnoreTVC, IsPending, TypeInv
  <2>5. Recorded' = Recorded BY <2>2 DEF Recorded, Has, sender
  <2> QED BY <2>2, <2>3, <2>4, <2>5 DEF TypeInv, SendInv, sender, ledger, rest
<1>8. CASE \E tvc \in late : SubmitTVC(tvc) BY <1>8, SubmitTypes
<1> QED BY <1>1, <1>2, <1>3, <1>4, <1>5, <1>6, <1>7, <1>8

\* A handler of a code changes nothing on the payer's side, and its own phase
\* on the payee's.
LEMMA ReadFacts ==
  ASSUME TypeInv, NEW c \in Scans, Read(c)
  PROVE  /\ UNCHANGED <<sender, ledger, half, payeeCert, listed, settled, clock, overtaken>>
         /\ scannedOnce' \in BOOLEAN /\ foreign' \in BOOLEAN
         /\ budget' \in Kinds
         /\ DOMAIN scans' = Scans
         /\ \A d \in Scans \ {c} : scans'[d] = scans[d]
         /\ scans'[c].phase \in {"verifying", "over"}
<1> USE DEF TypeInv
<1>1. ASSUME NEW new, new.phase \in {"verifying", "over"}, scans' = [scans EXCEPT ![c] = new]
      PROVE  /\ DOMAIN scans' = Scans
             /\ \A d \in Scans \ {c} : scans'[d] = scans[d]
             /\ scans'[c].phase \in {"verifying", "over"}
  BY <1>1
<1>2. CASE Scan(c)
  <2>1. PICK code \in Codes : scans' = [scans EXCEPT ![c] = [phase |-> "verifying", code |-> code]]
    BY <1>2 DEF Scan
  <2>2. Spend("codes") /\ scannedOnce' = TRUE
        /\ UNCHANGED <<sender, ledger, half, payeeCert, listed, foreign, settled, clock, overtaken>>
    BY <1>2 DEF Scan, payee
  <2>3. [phase |-> "verifying", code |-> code].phase = "verifying" OBVIOUS
  <2>4. /\ DOMAIN scans' = Scans
        /\ \A d \in Scans \ {c} : scans'[d] = scans[d]
        /\ scans'[c].phase \in {"verifying", "over"}
    BY <1>1, <2>1, <2>3
  <2>5. budget' \in Kinds BY <2>2, SpendType
  <2> QED BY <2>2, <2>4, <2>5
<1>3. ASSUME NEW free \in BOOLEAN, ScanEnds(c, free)
      PROVE  /\ scans' = [scans EXCEPT ![c] = Unread("over")]
             /\ Unread("over").phase = "over"
             /\ scannedOnce' \in BOOLEAN
  BY <1>3 DEF ScanEnds, Unread
<1>4. CASE ScanTAM(c) \/ ScanTVC(c)
  <2>1. /\ ScanEnds(c, TRUE)
        /\ UNCHANGED <<sender, ledger, half, payeeCert, listed, foreign, rest, overtaken>>
    BY <1>4 DEF ScanTAM, ScanTVC, Receive, payee
  <2> QED BY <1>1, <1>3, <2>1 DEF rest
<1>5. CASE ScanJson(c) \/ ScanForeign(c)
  <2>1. PICK free \in BOOLEAN : ScanEnds(c, free) BY <1>5 DEF ScanJson, ScanForeign
  <2>2. /\ Spend("codes") /\ foreign' \in BOOLEAN
        /\ UNCHANGED <<sender, ledger, half, payeeCert, listed, settled, clock, overtaken>>
    BY <1>5 DEF ScanJson, ScanForeign, payee
  <2>3. budget' \in Kinds BY <2>2, SpendType
  <2>4. /\ scans' = [scans EXCEPT ![c] = Unread("over")]
        /\ Unread("over").phase = "over"
        /\ scannedOnce' \in BOOLEAN
    BY <1>3, <2>1
  <2>5. /\ DOMAIN scans' = Scans
        /\ \A d \in Scans \ {c} : scans'[d] = scans[d]
        /\ scans'[c].phase \in {"verifying", "over"}
    BY <1>1, <2>4
  <2> QED BY <2>2, <2>3, <2>4, <2>5
<1> QED BY <1>2, <1>4, <1>5 DEF Read

LEMMA ReadTypesStep ==
  ASSUME TypeInv, SendInv, NEW c \in Scans, Read(c)
  PROVE  TypeInv' /\ SendInv'
<1>1. /\ UNCHANGED <<sender, ledger, half, payeeCert, listed, settled, clock, overtaken>>
      /\ scannedOnce' \in BOOLEAN /\ foreign' \in BOOLEAN
      /\ budget' \in Kinds
      /\ DOMAIN scans' = Scans
      /\ \A d \in Scans \ {c} : scans'[d] = scans[d]
      /\ scans'[c].phase \in {"verifying", "over"}
  BY ReadFacts
<1>2. Recorded' = Recorded BY <1>1 DEF Recorded, Has, sender
<1> QED BY <1>1, <1>2 DEF TypeInv, SendInv, sender, ledger

LEMMA TypesStutter == ASSUME TypeInv, SendInv, UNCHANGED vars PROVE TypeInv' /\ SendInv'
<1>1. UNCHANGED <<sender, ledger, scanner, rest, overtaken>> BY DEF vars
<1>2. Recorded' = Recorded BY <1>1 DEF Recorded, Has, sender
<1> QED BY <1>1, <1>2 DEF TypeInv, SendInv, sender, ledger, scanner, payee, rest

\* The variables keep their types, and a recorded TAM is signed.
THEOREM TypesAlways == Spec => [](TypeInv /\ SendInv)
<1>1. Init => TypeInv /\ SendInv BY InitTypes
<1>2. TypeInv /\ SendInv /\ [Next]_vars => (TypeInv /\ SendInv)'
  BY KeyTypesStep, SendTypesStep, PhoneTypesStep, ReadTypesStep, TypesStutter DEF Next
<1> QED BY <1>1, <1>2, PTL DEF Spec

\* Type correctness of Handover.
THEOREM TypeCorrect == Spec => []TypeOK
<1>1. TypeInv /\ SendInv => TypeOK
  BY CertFacts DEF TypeInv, SendInv, SendPhases, TypeOK
<1> QED BY <1>1, TypesAlways, PTL

-----------------------------------------------------------------------------
(* What the display means *)

LEMMA LegibleStep ==
  ASSUME TypeInv, Legible(pad), [Next]_vars
  PROVE  Legible(pad)'
<1>1. pad \in Pads BY DEF TypeInv
<1>2. Legible(pad)' = Legible(pad') BY DEF Legible, ReadsAs
<1>3. CASE UNCHANGED pad BY <1>2, <1>3
<1>4. CASE PressDigit
  <2>1. PICK d \in DigitKeys : pad' = Digit(pad, d) BY <1>4 DEF PressDigit, Pressed
  <2>2. d \in 0..9 BY HandoverAssumption
  <2> QED BY <1>1, <1>2, <2>1, <2>2, DigitLegible
<1>5. CASE PressOperator
  <2>1. PICK op \in Operators : pad' = Operator(pad, op) BY <1>5 DEF PressOperator, Pressed
  <2> QED BY <1>1, <1>2, <2>1, OperatorLegible
<1>6. CASE PressEquals BY <1>1, <1>2, <1>6, EqualsLegible DEF PressEquals, Pressed
<1>7. CASE PressClear BY <1>1, <1>2, <1>7, ClearLegible DEF PressClear, Pressed
<1>8. CASE PressErase BY <1>1, <1>2, <1>8, EraseLegible DEF PressErase, Pressed
<1>9. ASSUME NEW t \in Taps, Send(t) PROVE UNCHANGED pad
  BY <1>9 DEF Send, Tap, TapRefused, Build, NotPrimary, HandOver, DropUnverified
<1>10. ASSUME NEW c \in Scans, Read(c) PROVE UNCHANGED pad
  BY <1>10, ReadFacts DEF sender
<1>11. ASSUME \/ Frame \/ Refresh \/ RefreshBetween \/ Flush \/ Reopen \/ PayeeRefresh
               \/ Adopt \/ UNCHANGED vars
               \/ \E tvc \in late : SubmitTVC(tvc)
       PROVE  UNCHANGED pad
  BY <1>11 DEF Frame, Refresh, RefreshBetween, Answered, Flush, Reopen, PayeeRefresh, Adopt,
               AdoptTVC, IgnoreTVC, Handle, SubmitTVC, vars, sender
<1> QED BY <1>3, <1>4, <1>5, <1>6, <1>7, <1>8, <1>9, <1>10, <1>11 DEF Next, Key

\* The display is read as what the next key computes with, up to the rounding of
\* a result and the lost fraction of an operand, unless it was cut by erase,
\* typed on after that, or an infinite operand is pending: whichever keys were
\* pressed and however many.
THEOREM ShownMeant == Spec => []ShownIsMeant
<1>1. Init => Legible(pad) BY LegibleAtFirst DEF Init
<1>2. TypeInv /\ Legible(pad) /\ [Next]_vars => Legible(pad)' BY LegibleStep
<1>3. Legible(pad) => ShownIsMeant BY DEF Legible, ShownIsMeant
<1> QED BY <1>1, <1>2, <1>3, TypesAlways, PTL DEF Spec

-----------------------------------------------------------------------------
(* Promises and the balance *)

\* What is less than what is left after the promises may be promised too.
LEMMA PromiseFits ==
  ASSUME NEW balance \in Amount, balance.finite, NEW sent \in Amount, NEW a \in Amount,
         Greater(Minus(balance, sent), a), Greater(a, Zero)
  PROVE  Greater(balance, Plus(sent, a))
<1> DEFINE left == Minus(balance, sent)
<1>1. /\ balance.n \in Int /\ sent.n \in Int /\ a.n \in Int
      /\ sent.finite \in BOOLEAN /\ a.finite \in BOOLEAN
  BY DEF Amount
<1>2. Zero.finite /\ Zero.n = 0 BY DEF Zero, Of
<1>3. /\ Negated(sent).n = 0 - sent.n /\ Negated(sent).finite = sent.finite
  BY DEF Negated, Amount
<1>4. ~NaN(a) /\ (a.finite => a.n > 0) /\ (~a.finite => a.n > 0)
  BY <1>1, <1>2 DEF Greater, Rank, NaN, Sign
<1>5. CASE sent.finite
  <2>1. left = Of(balance.n - sent.n) BY <1>1, <1>3, <1>5 DEF Minus, Plus
  <2>2. a.finite /\ balance.n - sent.n > a.n
    BY <1>1, <1>4, <2>1 DEF Greater, Rank, NaN, Sign, Of
  <2>3. Plus(sent, a) = Of(sent.n + a.n) BY <1>5, <2>2 DEF Plus
  <2> QED BY <1>1, <2>2, <2>3 DEF Greater, Rank, NaN, Of
<1>6. CASE ~sent.finite
  <2>1. ~NaN(sent) /\ sent.n < 0
    <3>1. left = IF NaN(Negated(sent)) THEN Infinite(0)
                 ELSE Infinite(Sign(Rank(balance) + Rank(Negated(sent))))
      BY <1>3, <1>6 DEF Minus, Plus, NaN
    <3>2. ~NaN(left) /\ ~(Rank(left) < 0)
      BY <1>1, <1>4 DEF Greater, Rank, NaN, Sign
    <3> HIDE DEF left
    <3>3. CASE sent.n = 0
      <4>0. 0 - sent.n = 0 BY <1>1, <3>3
      <4>1. Negated(sent).n = 0 BY <1>3, <4>0
      <4>4. ~Negated(sent).finite BY <1>6 DEF Negated, Amount
      <4>2. left = Infinite(0) BY <3>1, <4>1, <4>4 DEF NaN
      <4>3. NaN(left) BY <4>2 DEF NaN, Infinite
      <4> QED BY <3>2, <4>3
    <3>4. CASE sent.n > 0
      <4>1. Rank(Negated(sent)) = -1 /\ Rank(balance) = 0
        BY <1>1, <1>3, <1>6, <3>4 DEF Rank, Sign
      <4>2. left = Infinite(-1) BY <1>1, <1>3, <1>6, <3>1, <3>4, <4>1 DEF NaN, Sign
      <4> QED BY <3>2, <4>2 DEF Infinite, Rank, Sign
    <3>5. CASE sent.n < 0 BY <3>5 DEF NaN
    <3> QED BY <1>1, <3>3, <3>4, <3>5
  <2>2. a.finite
    <3>1. Rank(sent) = -1 BY <1>1, <1>6, <2>1 DEF Rank, Sign
    <3>2. ~(Rank(left) > 1) BY <1>1, <1>6 DEF Rank, Sign
    <3>3. SUFFICES ASSUME ~a.finite PROVE FALSE OBVIOUS
    <3>4. Rank(a) = 1 BY <1>1, <1>4, <3>3 DEF Rank, Sign
    <3> QED BY <3>2, <3>3, <3>4 DEF Greater
  <2>3. Rank(sent) = -1 /\ Rank(a) = 0 BY <1>1, <1>6, <2>1, <2>2 DEF Rank, Sign
  <2>4. Plus(sent, a) = Infinite(-1) BY <1>6, <2>1, <2>2, <2>3 DEF Plus, NaN, Sign
  <2> QED BY <1>1, <2>4 DEF Greater, Rank, NaN, Sign, Infinite
<1> QED BY <1>1, <1>5, <1>6

\* A certificate of no smaller balance is none the worse for the promises.
LEMMA LargerFits ==
  ASSUME NEW balance \in Amount, balance.finite, NEW larger \in Amount, larger.finite,
         ~Greater(balance, larger), NEW sent \in Amount, NEW a \in Amount
  PROVE  /\ Greater(balance, sent) => Greater(larger, sent)
         /\ Greater(Minus(balance, sent), a) => Greater(Minus(larger, sent), a)
<1>1. /\ balance.n \in Int /\ larger.n \in Int /\ sent.n \in Int /\ a.n \in Int
      /\ sent.finite \in BOOLEAN /\ a.finite \in BOOLEAN
  BY DEF Amount
<1>2. balance.n <= larger.n BY <1>1 DEF Greater, Rank, NaN
<1>3. Greater(balance, sent) => Greater(larger, sent)
  BY <1>1, <1>2 DEF Greater, Rank, NaN, Sign
<1>4. /\ Negated(sent).n = 0 - sent.n /\ Negated(sent).finite = sent.finite
  BY DEF Negated, Amount
<1>5. CASE sent.finite
  <2>1. /\ Minus(balance, sent) = Of(balance.n - sent.n)
        /\ Minus(larger, sent) = Of(larger.n - sent.n)
    BY <1>1, <1>4, <1>5 DEF Minus, Plus
  <2> QED BY <1>1, <1>2, <1>3, <2>1 DEF Greater, Rank, NaN, Sign, Of
<1>6. CASE ~sent.finite
  <2>1. Rank(balance) = 0 /\ Rank(larger) = 0 BY DEF Rank
  <2>2. ~NaN(balance) /\ ~NaN(larger) BY DEF NaN
  <2>3. Minus(balance, sent) = Minus(larger, sent)
    BY <1>4, <1>6, <2>1, <2>2 DEF Minus, Plus
  <2> QED BY <1>3, <2>3
<1> QED BY <1>5, <1>6

\* The amount a send under way will promise.
Asked(t) == IF sends[t].phase = "reading" THEN pad.amount ELSE sends[t].tam.amount

\* A send that nothing came between still fits in what is available.
PromiseInv ==
    /\ OverdraftIsOvertaken
    /\ \A t \in UnderWay \ overtaken : /\ Greater(Available, Asked(t))
                                      /\ Greater(Asked(t), Zero)

LEMMA PromiseInit == ASSUME Init PROVE PromiseInv
<1>1. UnderWay = {} BY DEF Init, UnderWay, Has, Blank
<1> QED BY <1>1 DEF Init, PromiseInv, OverdraftIsOvertaken

\* A step that leaves the pad, the sends and the ledger alone.
LEMMA PromiseKept ==
  ASSUME PromiseInv, SendInv, UNCHANGED <<cert, unsubmitted, sentAmount, overtaken>>,
         UNCHANGED pad,
         \A t \in Taps : sends'[t] = sends[t] \/ sends'[t].phase = "over"
  PROVE  PromiseInv'
<1>1. Available' = Available BY DEF Available
<1>2. OverdraftIsOvertaken' BY DEF PromiseInv, OverdraftIsOvertaken
<1>3. ASSUME NEW t \in UnderWay' \ overtaken'
      PROVE  t \in UnderWay \ overtaken /\ Asked(t)' = Asked(t)
  <2>1. t \in Taps /\ sends'[t].phase \in {"reading", "signing"}
    BY <1>3 DEF UnderWay, Has
  <2>2. sends'[t] = sends[t] BY <2>1
  <2> QED BY <1>3, <2>1, <2>2 DEF UnderWay, Has, Asked
<1> QED BY <1>1, <1>2, <1>3 DEF PromiseInv

LEMMA PromisePressed ==
  ASSUME PromiseInv, NEW next, Pressed(next)
  PROVE  PromiseInv'
<1>1. /\ overtaken' = overtaken \cup Has({"reading"})
      /\ UNCHANGED <<cert, unsubmitted, sentAmount, sends>>
  BY DEF Pressed, ledger
<1>2. Available' = Available BY <1>1 DEF Available
<1>3. OverdraftIsOvertaken' BY <1>1 DEF PromiseInv, OverdraftIsOvertaken
<1>4. ASSUME NEW t \in UnderWay' \ overtaken'
      PROVE  t \in UnderWay \ overtaken /\ Asked(t)' = Asked(t)
  BY <1>1, <1>4 DEF UnderWay, Has, Asked
<1> QED BY <1>2, <1>3, <1>4 DEF PromiseInv

LEMMA PromiseSend ==
  ASSUME TypeInv, SendInv, PromiseInv, NEW t \in Taps, Send(t)
  PROVE  PromiseInv'
<1>1. CASE Tap(t)
  <2>1. /\ sends[t].phase = "idle" /\ sends' = [sends EXCEPT ![t] = Blank("reading")]
        /\ MayTransfer
        /\ overtaken' = IF shown = Available THEN overtaken ELSE overtaken \cup {t}
        /\ UNCHANGED <<pad, cert, unsubmitted, sentAmount>>
    BY <1>1 DEF Tap, ledger
  <2>2. \A u \in Taps : sends'[u] = IF u = t THEN Blank("reading") ELSE sends[u]
    BY <2>1, RecordedStays
  <2>3. Available' = Available BY <2>1 DEF Available
  <2>4. OverdraftIsOvertaken' BY <2>1 DEF PromiseInv, OverdraftIsOvertaken
  <2>5. ASSUME NEW u \in UnderWay' \ overtaken'
        PROVE  Greater(Available', Asked(u)') /\ Greater(Asked(u)', Zero)
    <3>1. u \in Taps BY <2>5 DEF UnderWay, Has
    <3>2. CASE u = t
      <4>1. Asked(u)' = pad.amount BY <2>1, <2>2, <3>1, <3>2 DEF Asked, Blank
      <4>2. shown = Available BY <2>1, <2>5, <3>2
      <4> QED BY <2>1, <2>3, <4>1, <4>2 DEF MayTransfer
    <3>3. CASE u # t
      <4>1. u \in UnderWay \ overtaken /\ Asked(u)' = Asked(u)
        BY <2>1, <2>2, <2>5, <3>1, <3>3 DEF UnderWay, Has, Asked
      <4> QED BY <2>3, <4>1 DEF PromiseInv
    <3> QED BY <3>2, <3>3
  <2> QED BY <2>4, <2>5 DEF PromiseInv
<1>2. CASE Build(t)
  <2> DEFINE new == [phase |-> "signing",
                     tam |-> [amount |-> pad.amount, party |-> Payee, cert |-> storedCert,
                              time |-> clock, signature |-> Unsigned]]
  <2>1. /\ sends[t].phase = "reading" /\ sends' = [sends EXCEPT ![t] = new]
        /\ UNCHANGED <<pad, cert, unsubmitted, sentAmount, overtaken>>
    BY <1>2 DEF Build, ledger
  <2>2. new.phase = "signing" /\ new.tam.amount = pad.amount OBVIOUS
  <2> HIDE DEF new
  <2>3. \A u \in Taps : sends'[u] = IF u = t THEN new ELSE sends[u]
    BY <2>1, RecordedStays
  <2>4. Available' = Available BY <2>1 DEF Available
  <2>5. OverdraftIsOvertaken' BY <2>1 DEF PromiseInv, OverdraftIsOvertaken
  <2>6. ASSUME NEW u \in UnderWay' \ overtaken'
        PROVE  u \in UnderWay \ overtaken /\ Asked(u)' = Asked(u)
    <3>1. u \in Taps /\ u \notin overtaken BY <2>1, <2>6 DEF UnderWay, Has
    <3>2. CASE u = t BY <2>1, <2>2, <2>3, <3>1, <3>2 DEF UnderWay, Has, Asked
    <3>3. CASE u # t BY <2>1, <2>3, <2>6, <3>1, <3>3 DEF UnderWay, Has, Asked
    <3> QED BY <3>2, <3>3
  <2> QED BY <2>4, <2>5, <2>6 DEF PromiseInv
<1>3. CASE HandOver(t)
  <2> DEFINE new == [phase |-> "recorded", tam |-> SignedBy(t)]
  <2>1. /\ sends[t].phase = "signing" /\ sends' = [sends EXCEPT ![t] = new]
        /\ unsubmitted' = unsubmitted \cup {t}
        /\ sentAmount' = Plus(sentAmount, sends[t].tam.amount)
        /\ overtaken' = overtaken \cup (UnderWay \ {t})
        /\ cert' = cert
    BY <1>3 DEF HandOver
  <2>2. new.phase = "recorded" OBVIOUS
  <2> HIDE DEF new
  <2>3. \A u \in Taps : sends'[u] = IF u = t THEN new ELSE sends[u]
    BY <2>1, RecordedStays
  <2>4. UnderWay' \ overtaken' = {} BY <2>1, <2>2, <2>3 DEF UnderWay, Has
  <2>5. CASE t \in overtaken BY <2>1, <2>4, <2>5 DEF PromiseInv, OverdraftIsOvertaken
  <2>6. CASE t \notin overtaken
    <3>1. t \in UnderWay \ overtaken /\ Asked(t) = sends[t].tam.amount
      BY <2>1, <2>6 DEF UnderWay, Has, Asked
    <3>2. /\ Greater(Minus(cert.balance, sentAmount), sends[t].tam.amount)
          /\ Greater(sends[t].tam.amount, Zero)
      BY <3>1 DEF PromiseInv, Available
    <3>3. cert.balance \in Amount /\ cert.balance.finite /\ sentAmount \in Amount
      BY CertFacts DEF TypeInv
    <3>4. sends[t].tam.amount \in Amount BY <2>1 DEF SendInv, IsTam
    <3>5. Greater(cert'.balance, sentAmount') BY <2>1, <3>2, <3>3, <3>4, PromiseFits
    <3> QED BY <2>4, <3>5 DEF PromiseInv, OverdraftIsOvertaken
  <2> QED BY <2>5, <2>6
<1>4. CASE TapRefused(t) \/ NotPrimary(t) \/ DropUnverified(t)
  <2>1. /\ sends' = [sends EXCEPT ![t] = Blank("over")] /\ sends[t].phase # "recorded"
        /\ UNCHANGED <<pad, cert, unsubmitted, sentAmount, overtaken>>
    BY <1>4 DEF TapRefused, NotPrimary, DropUnverified, ledger
  <2>2. \A u \in Taps : sends'[u] = IF u = t THEN Blank("over") ELSE sends[u]
    BY <2>1, RecordedStays
  <2>3. \A u \in Taps : sends'[u] = sends[u] \/ sends'[u].phase = "over"
    BY <2>2 DEF Blank
  <2> QED BY <2>1, <2>3, PromiseKept
<1> QED BY <1>1, <1>2, <1>3, <1>4 DEF Send

LEMMA PromiseSubmit ==
  ASSUME TypeInv, SendInv, PromiseInv, NEW tvc \in late, SubmitTVC(tvc)
  PROVE  PromiseInv'
<1>1. /\ cert' = tvc.cert
      /\ overtaken' = IF Greater(cert.balance, cert'.balance)
                      THEN overtaken \cup UnderWay \cup unsubmitted ELSE overtaken
      /\ UNCHANGED <<pad, sends, unsubmitted, sentAmount>>
  BY DEF SubmitTVC, sender
<1>2. UnderWay' = UnderWay BY <1>1 DEF UnderWay, Has
<1>3. CASE Greater(cert.balance, cert'.balance)
  <2>1. overtaken' = overtaken \cup UnderWay \cup unsubmitted BY <1>1, <1>3
  <2> QED BY <1>1, <1>2, <2>1 DEF PromiseInv, OverdraftIsOvertaken
<1>4. CASE ~Greater(cert.balance, cert'.balance)
  <2>1. overtaken' = overtaken BY <1>1, <1>4
  <2>2. /\ cert.balance \in Amount /\ cert.balance.finite
        /\ cert'.balance \in Amount /\ cert'.balance.finite /\ sentAmount \in Amount
    BY <1>1, CertFacts DEF TypeInv
  <2>3. OverdraftIsOvertaken'
    BY <1>1, <1>4, <2>1, <2>2, LargerFits DEF PromiseInv, OverdraftIsOvertaken
  <2>4. ASSUME NEW t \in UnderWay' \ overtaken'
        PROVE  Greater(Available', Asked(t)') /\ Greater(Asked(t)', Zero)
    <3>1. t \in UnderWay \ overtaken /\ Asked(t)' = Asked(t)
      BY <1>1, <1>2, <2>1, <2>4 DEF Asked
    <3>2. Greater(Available, Asked(t)) /\ Greater(Asked(t), Zero) BY <3>1 DEF PromiseInv
    <3>3. Asked(t) \in Amount
      BY <3>1 DEF Asked, UnderWay, Has, TypeInv, Pads, SendInv, IsTam
    <3>4. Available' = Minus(cert'.balance, sentAmount) BY <1>1 DEF Available
    <3> QED BY <1>4, <2>2, <3>1, <3>2, <3>3, <3>4, LargerFits DEF Available
  <2> QED BY <2>3, <2>4 DEF PromiseInv
<1> QED BY <1>3, <1>4

LEMMA PromiseStep ==
  ASSUME TypeInv, SendInv, PromiseInv, [Next]_vars
  PROVE  PromiseInv'
<1>1. CASE Key
  BY <1>1, PromisePressed DEF Key, PressDigit, PressOperator, PressEquals, PressClear, PressErase
<1>2. ASSUME NEW t \in Taps, Send(t) PROVE PromiseInv' BY <1>2, PromiseSend
<1>3. ASSUME NEW c \in Scans, Read(c) PROVE PromiseInv'
  BY <1>3, ReadFacts, PromiseKept DEF sender, ledger
<1>4. CASE Refresh \/ RefreshBetween
  <2>1. /\ unsubmitted' = {} /\ overtaken' = overtaken \cup UnderWay /\ sends' = sends
    BY <1>4 DEF Refresh, RefreshBetween, Answered, sender
  <2>2. UnderWay' \ overtaken' = {} BY <2>1 DEF UnderWay, Has
  <2> QED BY <2>1, <2>2 DEF PromiseInv, OverdraftIsOvertaken
<1>5. CASE Frame \/ Flush \/ Reopen \/ PayeeRefresh \/ Adopt \/ UNCHANGED vars
  <2>1. UNCHANGED <<pad, sends, cert, unsubmitted, sentAmount, overtaken>>
    BY <1>5 DEF Frame, Flush, Reopen, PayeeRefresh, Adopt, AdoptTVC, IgnoreTVC, Handle, vars,
                sender, ledger
  <2> QED BY <2>1, PromiseKept
<1>6. ASSUME NEW tvc \in late, SubmitTVC(tvc) PROVE PromiseInv' BY <1>6, PromiseSubmit
<1> QED BY <1>1, <1>2, <1>3, <1>4, <1>5, <1>6 DEF Next

\* Promises beyond the certified balance need a send that something else came
\* between, or a scanned TVC whose certificate has a smaller balance, whatever
\* the balance, the keys and the number of sends.
THEOREM OverdraftOvertaken == Spec => []OverdraftIsOvertaken
<1>1. Init => PromiseInv BY PromiseInit
<1>2. TypeInv /\ SendInv /\ PromiseInv /\ [Next]_vars => PromiseInv' BY PromiseStep
<1>3. PromiseInv => OverdraftIsOvertaken BY DEF PromiseInv
<1> QED BY <1>1, <1>2, <1>3, TypesAlways, PTL DEF Spec

-----------------------------------------------------------------------------
(* What is recorded on both phones *)

\* A code of a TVC.
TvcCode(code) == code.signature.of.type = "TVC" /\ VerifyTVC(Decode(code))

\* What the payee has recorded are TAMs of the payer, byte for byte, what it
\* has handed on are TVCs, and what is being verified is one of the two.
ReceivedInv ==
    /\ \A m \in received : \E t \in Recorded : Encode("TAM", m) = Encode("TAM", sends[t].tam)
    /\ \A v \in tvcs : VerifyTVC(v)
    /\ \A c \in Verifying : \/ \E t \in Recorded : scans[c].code = Encode("TAM", sends[t].tam)
                            \/ TvcCode(scans[c].code)

\* A recorded TAM stays as it is.
LEMMA RecordedStaysAlways ==
  ASSUME SendInv, [Next]_vars
  PROVE  \A u \in Recorded : u \in Recorded' /\ sends'[u] = sends[u]
<1>1. CASE UNCHANGED sends BY <1>1 DEF Recorded, Has
<1>2. ASSUME NEW t \in Taps, Send(t)
      PROVE  sends[t].phase # "recorded" /\ \E new : sends' = [sends EXCEPT ![t] = new]
  BY <1>2 DEF Send, Tap, TapRefused, Build, NotPrimary, HandOver, DropUnverified
<1>3. ASSUME NEW t \in Taps, Send(t)
      PROVE  \A u \in Recorded : u \in Recorded' /\ sends'[u] = sends[u]
  <2>1. PICK new : sends' = [sends EXCEPT ![t] = new] BY <1>2, <1>3
  <2> QED BY <1>2, <1>3, <2>1, RecordedStays
<1>4. ASSUME NEW c \in Scans, Read(c) PROVE UNCHANGED sends
  BY <1>4 DEF Read, Scan, ScanTAM, ScanTVC, ScanJson, ScanForeign, sender
<1>5. \/ Key \/ Frame \/ Refresh \/ RefreshBetween \/ Flush \/ Reopen \/ PayeeRefresh
      \/ Adopt \/ UNCHANGED vars
      \/ \E tvc \in late : SubmitTVC(tvc)
      => UNCHANGED sends
  BY DEF Key, PressDigit, PressOperator, PressEquals, PressClear, PressErase, Pressed,
         Frame, Refresh, RefreshBetween, Answered, Flush, Reopen, PayeeRefresh, Adopt,
         AdoptTVC, IgnoreTVC, Handle, SubmitTVC, vars, sender
<1> QED BY <1>1, <1>3, <1>4, <1>5 DEF Next

\* A step that starts no scan and receives nothing.
LEMMA ReceivedKept ==
  ASSUME SendInv, ReceivedInv, [Next]_vars, received' \subseteq received,
         \A v \in tvcs' : VerifyTVC(v),
         \A c \in Scans : scans'[c] = scans[c] \/ scans'[c].phase # "verifying"
  PROVE  ReceivedInv'
<1>1. \A u \in Recorded : u \in Recorded' /\ sends'[u] = sends[u] BY RecordedStaysAlways
<1>2. ASSUME NEW m \in received'
      PROVE  \E t \in Recorded' : Encode("TAM", m) = Encode("TAM", sends'[t].tam)
  <2>1. PICK t \in Recorded : Encode("TAM", m) = Encode("TAM", sends[t].tam)
    BY <1>2 DEF ReceivedInv
  <2> QED BY <1>1, <2>1
<1>3. ASSUME NEW c \in Verifying'
      PROVE  \/ \E t \in Recorded' : scans'[c].code = Encode("TAM", sends'[t].tam)
             \/ TvcCode(scans'[c].code)
  <2>1. c \in Verifying /\ scans'[c] = scans[c] BY <1>3 DEF Verifying
  <2>2. CASE TvcCode(scans[c].code) BY <2>1, <2>2
  <2>3. CASE \E t \in Recorded : scans[c].code = Encode("TAM", sends[t].tam)
    <3>1. PICK t \in Recorded : scans[c].code = Encode("TAM", sends[t].tam) BY <2>3
    <3> QED BY <1>1, <2>1, <3>1
  <2> QED BY <2>1, <2>2, <2>3 DEF ReceivedInv
<1> QED BY <1>2, <1>3 DEF ReceivedInv

LEMMA ScansAfter ==
  ASSUME TypeInv, NEW c \in Scans, NEW new, scans' = [scans EXCEPT ![c] = new]
  PROVE  \A d \in Scans : scans'[d] = IF d = c THEN new ELSE scans[d]
  BY DEF TypeInv

LEMMA ReceivedStep ==
  ASSUME TypeInv, SendInv, ReceivedInv, [Next]_vars
  PROVE  ReceivedInv'
<1>1. CASE UNCHANGED <<scans, received, tvcs>> BY <1>1, ReceivedKept DEF ReceivedInv
<1>2. ASSUME NEW c \in Scans, Scan(c) PROVE ReceivedInv'
  <2>1. PICK code \in Codes : scans' = [scans EXCEPT ![c] = [phase |-> "verifying", code |-> code]]
    BY <1>2 DEF Scan
  <2> DEFINE new == [phase |-> "verifying", code |-> code]
  <2>2. UNCHANGED <<sends, received, tvcs>> BY <1>2 DEF Scan, sender, payee
  <2>3. new.code = code OBVIOUS
  <2>4. \A d \in Scans : scans'[d] = IF d = c THEN new ELSE scans[d]
    BY <2>1, ScansAfter
  <2> HIDE DEF new
  <2>5. Recorded' = Recorded BY <2>2 DEF Recorded, Has
  <2>6. \/ \E t \in Recorded : code = Encode("TAM", sends[t].tam)
        \/ TvcCode(code)
    BY TvcFacts DEF Codes, TvcCode, TypeInv, Recorded, Has, SendInv
  <2>7. ASSUME NEW d \in Verifying'
        PROVE  \/ \E t \in Recorded : scans'[d].code = Encode("TAM", sends[t].tam)
               \/ TvcCode(scans'[d].code)
    <3>1. d \in Scans /\ scans'[d].phase = "verifying" BY <2>7 DEF Verifying
    <3>2. CASE d = c BY <2>3, <2>4, <2>6, <3>1, <3>2
    <3>3. CASE d # c BY <2>4, <3>1, <3>3 DEF Verifying, ReceivedInv
    <3> QED BY <3>2, <3>3
  <2> QED BY <2>2, <2>5, <2>7 DEF ReceivedInv
<1>3. ASSUME NEW c \in Scans, ScanTAM(c) PROVE ReceivedInv'
  <2> DEFINE tam == Decode(scans[c].code)
  <2>1. /\ scans[c].phase = "verifying" /\ VerifyTAM(tam)
        /\ received' \subseteq received \cup {tam}
        /\ scans' = [scans EXCEPT ![c] = Unread("over")]
        /\ UNCHANGED <<sends, tvcs>>
    BY <1>3 DEF ScanTAM, Receive, ScanEnds, sender
  <2>2. c \in Verifying BY <2>1 DEF Verifying
  <2>3. PICK t \in Recorded : scans[c].code = Encode("TAM", sends[t].tam)
    BY <2>1, <2>2, TvcIsNoTam DEF ReceivedInv, TvcCode
  <2>4. t \in Taps /\ IsTam(sends[t].tam) BY DEF Recorded, Has, SendInv
  <2>5. Encode("TAM", tam) = Encode("TAM", sends[t].tam) BY <2>3, <2>4, RoundTrip
  <2> HIDE DEF tam
  <2>6. Recorded' = Recorded BY <2>1 DEF Recorded, Has
  <2>7. \A m \in received' : \E u \in Recorded : Encode("TAM", m) = Encode("TAM", sends[u].tam)
    BY <2>1, <2>5 DEF ReceivedInv
  <2>8. \A d \in Verifying' : d \in Verifying /\ scans'[d] = scans[d]
    BY <2>1, ScansAfter DEF Verifying, Unread
  <2> QED BY <2>1, <2>6, <2>7, <2>8 DEF ReceivedInv
<1>4. ASSUME NEW c \in Scans, ScanTVC(c) \/ ScanJson(c) \/ ScanForeign(c) PROVE ReceivedInv'
  <2>1. UNCHANGED received /\ scans' = [scans EXCEPT ![c] = Unread("over")]
    BY <1>4 DEF ScanTVC, ScanJson, ScanForeign, ScanEnds, payee
  <2>2. \A d \in Scans : scans'[d] = scans[d] \/ scans'[d].phase # "verifying"
    BY <2>1, ScansAfter DEF Unread
  <2>3. CASE UNCHANGED tvcs BY <2>1, <2>2, <2>3, ReceivedKept DEF ReceivedInv
  <2>4. CASE ScanTVC(c)
    <3> DEFINE tvc == Decode(scans[c].code)
    <3>1. c \in Verifying /\ ~VerifyTAM(tvc) /\ tvcs' = tvcs \cup {tvc}
      BY <2>4 DEF ScanTVC, Verifying
    <3>2. ASSUME NEW t \in Recorded PROVE scans[c].code # Encode("TAM", sends[t].tam)
      <4>1. /\ IsTam(sends[t].tam)
            /\ sends[t].tam.signature = [by |-> sends[t].tam.cert.key, of |-> Body("TAM", sends[t].tam)]
        BY <3>2 DEF Recorded, Has, SendInv
      <4>2. VerifyTAM(Decode(Encode("TAM", sends[t].tam))) BY <4>1, SignedIsAccepted
      <4> QED BY <3>1, <4>2
    <3>3. TvcCode(scans[c].code) BY <3>1, <3>2 DEF ReceivedInv
    <3>4. \A v \in tvcs' : VerifyTVC(v) BY <3>1, <3>3 DEF ReceivedInv, TvcCode
    <3> QED BY <2>1, <2>2, <3>4, ReceivedKept
  <2> QED BY <1>4, <2>3, <2>4 DEF ScanJson, ScanForeign
<1>5. ASSUME NEW t \in Taps, Send(t) PROVE UNCHANGED <<scans, received, tvcs>>
  BY <1>5 DEF Send, Tap, TapRefused, Build, NotPrimary, HandOver, DropUnverified, scanner, payee
<1>6. \/ Key \/ Frame \/ Refresh \/ RefreshBetween \/ Flush \/ Reopen \/ UNCHANGED vars
      \/ \E tvc \in late : SubmitTVC(tvc)
      => UNCHANGED <<scans, received, tvcs>>
  BY DEF Key, PressDigit, PressOperator, PressEquals, PressClear, PressErase, Pressed,
         Frame, Refresh, RefreshBetween, Answered, Flush, Reopen, SubmitTVC, vars, scanner, payee
<1>7. CASE PayeeRefresh \/ Adopt
  <2>1. received' \subseteq received /\ tvcs' \subseteq tvcs /\ UNCHANGED scans
    BY <1>7 DEF PayeeRefresh, Adopt, AdoptTVC, IgnoreTVC, Handle
  <2> QED BY <2>1, ReceivedKept DEF ReceivedInv
<1> QED BY <1>1, <1>2, <1>3, <1>4, <1>5, <1>6, <1>7 DEF Next, Read

\* What the payer records is signed with the phone's key, and the server accepts
\* it unless the certificate in it has no signature; what the payee records has
\* the payer's bytes, and what is handed on as a TVC is one.
THEOREM RecordedSigned == Spec => []RecordedIsSigned
<1>1. Init => ReceivedInv
  BY DEF Init, ReceivedInv, Verifying, Unread
<1>2. TypeInv /\ SendInv /\ ReceivedInv /\ [Next]_vars => ReceivedInv' BY ReceivedStep
<1>3. SendInv /\ ReceivedInv => RecordedIsSigned
  <2> SUFFICES ASSUME SendInv, ReceivedInv PROVE RecordedIsSigned OBVIOUS
  <2>1. ASSUME NEW t \in Recorded
        PROVE  /\ sends[t].tam.signature.by = PhoneKey
               /\ \/ ServerAccepts(Encode("TAM", sends[t].tam))
                  \/ sends[t].tam.cert.signature = Unsigned
    <3>1. /\ IsTam(sends[t].tam) /\ sends[t].tam.cert.key = PhoneKey
          /\ sends[t].tam.signature = [by |-> PhoneKey, of |-> Body("TAM", sends[t].tam)]
      BY <2>1 DEF Recorded, Has, SendInv
    <3> QED BY <3>1, SignedIsAccepted
  <2> QED BY <2>1 DEF ReceivedInv, RecordedIsSigned
<1> QED BY <1>1, <1>2, <1>3, TypesAlways, PTL DEF Spec

-----------------------------------------------------------------------------
(* The scanner *)

\* A scan marks the scanner before it awaits, so one at a time awaits.
ScanInv ==
    /\ ~scannedOnce => Verifying = {}
    /\ \A c, d \in Verifying : c = d
    /\ scannedOnce => Verifying # {} \/ foreign

LEMMA ScanStep ==
  ASSUME TypeInv, ScanInv, [Next]_vars
  PROVE  ScanInv'
<1>1. CASE UNCHANGED <<scannedOnce, scans, foreign>>
  <2>1. Verifying' = Verifying BY <1>1 DEF Verifying
  <2> QED BY <1>1, <2>1 DEF ScanInv
<1>2. ASSUME NEW c \in Scans, Scan(c) PROVE ScanInv'
  <2>1. PICK code : scans' = [scans EXCEPT ![c] = [phase |-> "verifying", code |-> code]]
    BY <1>2 DEF Scan
  <2>2. ~scannedOnce /\ scannedOnce' BY <1>2 DEF Scan
  <2>3. Verifying = {} BY <2>2 DEF ScanInv
  <2> DEFINE new == [phase |-> "verifying", code |-> code]
  <2>4. new.phase = "verifying" OBVIOUS
  <2>5. \A d \in Scans : scans'[d] = IF d = c THEN new ELSE scans[d] BY <2>1, ScansAfter
  <2> HIDE DEF new
  <2>6. Verifying' = {c} BY <2>3, <2>4, <2>5 DEF Verifying
  <2> QED BY <2>2, <2>6 DEF ScanInv
<1>3. ASSUME NEW c \in Scans, ScanTAM(c) \/ ScanTVC(c) \/ ScanJson(c) PROVE ScanInv'
  <2>1. /\ scans' = [scans EXCEPT ![c] = Unread("over")] /\ ~scannedOnce'
        /\ c \in Verifying \/ ~scannedOnce
    BY <1>3 DEF ScanTAM, ScanTVC, ScanJson, ScanEnds, Verifying
  <2>2. Verifying \subseteq {c} BY <2>1 DEF ScanInv
  <2>3. \A d \in Scans : scans'[d] = IF d = c THEN Unread("over") ELSE scans[d]
    BY <2>1, ScansAfter
  <2>4. Unread("over").phase = "over" BY DEF Unread
  <2>5. Verifying' \subseteq Verifying \ {c} BY <2>3, <2>4 DEF Verifying
  <2> QED BY <2>1, <2>2, <2>5 DEF ScanInv
<1>4. ASSUME NEW c \in Scans, ScanForeign(c) PROVE ScanInv'
  <2>1. /\ scans' = [scans EXCEPT ![c] = Unread("over")] /\ scannedOnce' /\ foreign'
        /\ ~scannedOnce
    BY <1>4 DEF ScanForeign, ScanEnds
  <2>2. Verifying = {} BY <2>1 DEF ScanInv
  <2>3. Verifying' = {} BY <2>1, <2>2, ScansAfter DEF Verifying, Unread
  <2> QED BY <2>1, <2>3 DEF ScanInv
<1>5. CASE Reopen
  <2>1. Verifying = {} /\ ~scannedOnce' /\ UNCHANGED scans BY <1>5 DEF Reopen
  <2>2. Verifying' = {} BY <2>1 DEF Verifying
  <2> QED BY <2>1, <2>2 DEF ScanInv
<1>6. ASSUME NEW t \in Taps, Send(t) PROVE UNCHANGED <<scannedOnce, scans, foreign>>
  BY <1>6 DEF Send, Tap, TapRefused, Build, NotPrimary, HandOver, DropUnverified, scanner
<1>7. \/ Key \/ Frame \/ Refresh \/ RefreshBetween \/ Flush \/ PayeeRefresh \/ Adopt
      \/ UNCHANGED vars
      \/ \E tvc \in late : SubmitTVC(tvc)
      => UNCHANGED <<scannedOnce, scans, foreign>>
  BY DEF Key, PressDigit, PressOperator, PressEquals, PressClear, PressErase, Pressed,
         Frame, Refresh, RefreshBetween, Answered, Flush, PayeeRefresh, Adopt, AdoptTVC,
         IgnoreTVC, Handle, SubmitTVC, vars, scanner
<1> QED BY <1>1, <1>2, <1>3, <1>4, <1>5, <1>6, <1>7 DEF Next, Read

\* One code is read at a time, and the scanner is blocked only while it reads
\* or after a code of another application.
THEOREM ScannerReleased == Spec => []ScannerIsReleased
<1>1. Init => ScanInv BY DEF Init, ScanInv, Verifying, Unread
<1>2. TypeInv /\ ScanInv /\ [Next]_vars => ScanInv' BY ScanStep
<1>3. ScanInv => ScannerIsReleased
  <2> SUFFICES ASSUME ScanInv PROVE ScannerIsReleased OBVIOUS
  <2>1. CASE Verifying = {} BY <2>1, FS_EmptySet DEF ScanInv, ScannerIsReleased
  <2>2. CASE Verifying # {}
    <3>1. PICK c : c \in Verifying BY <2>2
    <3>2. Verifying = {c} BY <3>1 DEF ScanInv
    <3>3. Cardinality(Verifying) = 1 BY <3>2, FS_Singleton
    <3> QED BY <3>3, <2>2 DEF ScannerIsReleased
  <2> QED BY <2>1, <2>2
<1> QED BY <1>1, <1>2, <1>3, TypesAlways, PTL DEF Spec
=============================================================================
