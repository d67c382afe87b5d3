------------------------------- MODULE Keypad -------------------------------
(***************************************************************************)
(* The keypad of the Send screen: SendMoneyBloc's handlers of the digits,  *)
(* the four operators, "=", AC and erase, each as a function from the pad  *)
(* to the pad.                                                             *)
(*                                                                         *)
(* The display is a string that no computation reads back, but two of the  *)
(* handlers look at it: a digit replaces "0.0" and erase drops a character *)
(* while a "+", "-" or "*" is left.  It is kept as the number and operator *)
(* it shows, the number typed behind them and how many characters follow   *)
(* the last of those three signs.  It is followed for as long as it reads  *)
(* as what it stands for; once it is edited into something else, what it   *)
(* reads is not kept until a key writes it anew.                           *)
(***************************************************************************)
EXTENDS Amounts, FiniteSets

Operators == {"+", "-", "*", "/"}
NoOperator == ""
NoSign == -1

Texts == [blank : BOOLEAN, left : Amount, op : Operators \cup {NoOperator},
          right : Amount, behind : Int, dotted : BOOLEAN, edited : BOOLEAN]
Pads == [amount : Amount, text : Texts, pressed : BOOLEAN,
         operand : Amount, operator : Operators \cup {NoOperator}]

\* Characters of a whole number, and of one with two places or an infinity.
Length(k) == 1 + Cardinality({e \in 1..8 : 10 ^ e <= k})
WholeWidth(a) == Length(Magnitude(a.n) \div Unit)
FixedWidth(a) == IF a.finite THEN WholeWidth(a) + 3 ELSE 8

\* "0.0"
BlankText == [blank |-> TRUE, left |-> Zero, op |-> NoOperator, right |-> Zero,
              behind |-> NoSign, dotted |-> FALSE, edited |-> FALSE]
\* The result of "=".
ResultText(a) == [BlankText EXCEPT !.blank = FALSE, !.left = TwoPlaces(a),
                                   !.behind = IF a.n < 0 THEN FixedWidth(a) ELSE NoSign]
\* An operand and the operator after it.
OperatorText(a, op) ==
    [BlankText EXCEPT !.blank = FALSE, !.left = Truncated(a), !.op = op,
                      !.behind = IF op # "/" THEN 0
                                 ELSE IF Truncated(a).n < 0 THEN WholeWidth(a) + 1
                                 ELSE NoSign]
\* The "x.0" that erase leaves of a number.
DottedText(a) ==
    [BlankText EXCEPT !.blank = a = Zero, !.left = a, !.dotted = a # Zero,
                      !.behind = IF a.n < 0 THEN WholeWidth(a) + 2 ELSE NoSign]
\* A digit at the end; behind "x.0" it reads as a second decimal.
TypedText(text, digit) ==
    LET typed == [text EXCEPT !.blank = FALSE, !.dotted = FALSE,
                              !.edited = @ \/ text.dotted,
                              !.behind = IF @ = NoSign THEN NoSign ELSE @ + 1]
    IN  IF text.op = NoOperator
        THEN [typed EXCEPT !.left = Shifted(@, digit)]
        ELSE [typed EXCEPT !.right = Shifted(@, digit)]
\* Without its last character, which may be the last "+", "-" or "*"; the
\* sign of a negative operand is then still there.
ErasedText(text) ==
    IF text.behind > 0
    THEN [text EXCEPT !.behind = @ - 1, !.edited = TRUE]
    ELSE [text EXCEPT !.op = NoOperator, !.edited = TRUE,
                      !.behind = IF text.op \in {"+", "-", "*"} /\ text.left.n < 0
                                 THEN WholeWidth(text.left) ELSE NoSign]

Pad0 == [amount |-> Zero, text |-> BlankText, pressed |-> FALSE,
         operand |-> Zero, operator |-> NoOperator]

-----------------------------------------------------------------------------
(* The handlers *)

\* Mutant of Digit: after "=" the display starts afresh but the amount does not.
DigitKeepsResult(pad, digit) ==
    LET fresh == IF pad.pressed
                 THEN [pad EXCEPT !.text = BlankText, !.pressed = FALSE]
                 ELSE pad
    IN  [fresh EXCEPT !.amount = Shifted(@, digit),
                      !.text = TypedText(@, digit), !.pressed = FALSE]

\* After "=" a digit starts a new number; on "0.0" it replaces the display.
Digit(pad, digit) ==
    LET fresh == IF pad.pressed
                 THEN [pad EXCEPT !.amount = Zero, !.text = BlankText, !.pressed = FALSE]
                 ELSE pad
    IN  [fresh EXCEPT !.amount = Shifted(@, digit),
                      !.text = TypedText(@, digit), !.pressed = FALSE]

\* Calculator.calculate
Calculate(current, operand, operator) ==
    CASE operator = "+" -> Plus(operand, current)
      [] operator = "-" -> Minus(operand, current)
      [] operator = "*" -> IF current = Zero THEN operand ELSE Times(operand, current)
      [] operator = "/" -> Over(operand, current)
      [] OTHER -> current

Equals(pad) ==
    LET result == Calculate(pad.amount, pad.operand, pad.operator)
    IN  [amount |-> result, text |-> ResultText(result), pressed |-> TRUE,
         operand |-> Zero, operator |-> NoOperator]

\* An operator first completes the one before it.  The operand is truncated
\* for the display; an infinite one throws there, when it is already stored.
Operator(pad, op) ==
    LET ready == IF pad.operator # NoOperator THEN Equals(pad) ELSE pad
        stored == [ready EXCEPT !.operand = ready.amount, !.operator = op]
    IN  IF ready.amount.finite
        THEN [stored EXCEPT !.amount = Zero, !.pressed = FALSE,
                            !.text = OperatorText(ready.amount, op)]
        ELSE stored

\* AC; the operand stays.
Clear(pad) ==
    [pad EXCEPT !.amount = Zero, !.text = BlankText, !.pressed = FALSE,
                !.operator = NoOperator]

\* While the display has a "+", "-" or "*" the amount becomes the operand and
\* a character goes; otherwise the amount is divided by ten and shown as
\* "x.0", which throws for an infinite one.  A pending "/" stays unseen.
Erase(pad) ==
    IF pad.text.behind # NoSign
    THEN [pad EXCEPT !.amount = pad.operand, !.text = ErasedText(@)]
    ELSE IF ~pad.amount.finite THEN pad
    ELSE LET rest == TenthFloored(pad.amount)
         IN  [pad EXCEPT !.amount = rest, !.pressed = FALSE,
                 !.text = [DottedText(rest) EXCEPT !.edited = pad.operator # NoOperator]]

-----------------------------------------------------------------------------

\* A number without digits beyond a place is shown as it is, and any other
\* within an error.
ShownTo(place, error, shown, meant) ==
    IF meant.finite /\ meant.n % place # 0
    THEN shown.finite /\ Magnitude(shown.n - meant.n) <= error
    ELSE shown = meant

\* How the display may be read: as the number typed; as the result, to half a
\* hundredth; or as the operand, less than one short, the operator and the
\* number typed after it, which alone is the amount.
ReadsAs(text, pad) ==
    /\ text.op = pad.operator
    /\ IF text.op # NoOperator
       THEN ShownTo(Unit, Unit - 1, text.left, pad.operand) /\ text.right = pad.amount
       ELSE IF pad.pressed THEN ShownTo(10, 5, text.left, pad.amount)
       ELSE text.left = pad.amount
=============================================================================
