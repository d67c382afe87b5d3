------------------------------ MODULE Amounts ------------------------------
(***************************************************************************)
(* Amounts of money as the phone computes with them: Dart doubles, kept    *)
(* here as whole multiples of 1/Unit (results are cut down to one), with   *)
(* the infinities and NaN, which a division by zero on the keypad makes.   *)
(***************************************************************************)
EXTENDS Integers

Unit == 1000

\* Infinity, -Infinity and NaN are the infinite amounts of n = 1, -1 and 0.
Amount == [n : Int, finite : BOOLEAN]
Of(units) == [n |-> units, finite |-> TRUE]
Infinite(sign) == [n |-> sign, finite |-> FALSE]
Whole(k) == Of(k * Unit)
Zero == Of(0)

Sign(k) == IF k > 0 THEN 1 ELSE IF k < 0 THEN -1 ELSE 0
Magnitude(k) == IF k < 0 THEN -k ELSE k
NaN(a) == ~a.finite /\ a.n = 0
Rank(a) == IF a.finite THEN 0 ELSE Sign(a.n)

Greater(a, b) ==
    /\ ~NaN(a) /\ ~NaN(b)
    /\ \/ Rank(a) > Rank(b)
       \/ a.finite /\ b.finite /\ a.n > b.n

Negated(a) == [a EXCEPT !.n = 0 - @]
Plus(a, b) ==
    IF a.finite /\ b.finite THEN Of(a.n + b.n)
    ELSE IF NaN(a) \/ NaN(b) THEN Infinite(0)
    ELSE Infinite(Sign(Rank(a) + Rank(b)))
Minus(a, b) == Plus(a, Negated(b))
Times(a, b) ==
    IF a.finite /\ b.finite THEN Of((a.n \div Unit) * b.n + ((a.n % Unit) * b.n) \div Unit)
    ELSE Infinite(Sign(a.n) * Sign(b.n))
Over(a, b) ==
    IF a.finite /\ b.finite /\ b.n # 0
    THEN Of((a.n * Unit * Sign(b.n)) \div Magnitude(b.n))
    ELSE IF a.finite /\ ~b.finite /\ ~NaN(b) THEN Zero
    ELSE IF ~a.finite /\ ~b.finite THEN Infinite(0)
    ELSE Infinite(Sign(a.n) * (IF b.finite /\ b.n = 0 THEN 1 ELSE Sign(b.n)))

\* toInt, which throws unless the amount is finite.
Truncated(a) == Of(Sign(a.n) * (Magnitude(a.n) \div Unit) * Unit)
\* toStringAsFixed(2)
TwoPlaces(a) ==
    IF a.finite THEN Of(Sign(a.n) * ((Magnitude(a.n) + 5) \div 10) * 10) ELSE a
\* (a / 10).floor()
TenthFloored(a) == Of((a.n \div (10 * Unit)) * Unit)
\* a * 10 + digit
Shifted(a, digit) == IF a.finite THEN Of(a.n * 10 + digit * Unit) ELSE a

\* A float32 holds fewer digits than a double.
Float32(a) == IF a.finite THEN Of((a.n \div 8) * 8) ELSE a
=============================================================================
