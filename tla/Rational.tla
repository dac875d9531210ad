------------------------------ MODULE Rational ------------------------------
(***************************************************************************)
(* Exact fractions for the floating point numbers of a time series: a rate  *)
(* averaged over a period is a volume divided by a number of days.  A       *)
(* number is a pair <<numerator, denominator>> in lowest terms with a       *)
(* positive denominator.  The two results numpy gives a division by zero    *)
(* are kept apart: NaN for 0/0, Inf for x/0.                                *)
(***************************************************************************)
EXTENDS Integers

NaN  == <<0, 0>>
Inf  == <<1, 0>>
Zero == <<0, 1>>
One  == <<1, 1>>

IsFinite(x) == x[2] > 0

Magnitude(n) == IF n < 0 THEN -n ELSE n

CommonDivisor(n, d) ==
  CHOOSE g \in 1..d : /\ Magnitude(n) % g = 0 /\ d % g = 0
                      /\ \A h \in (g + 1)..d : Magnitude(n) % h # 0 \/ d % h # 0

\* The fraction n / d, d > 0, in lowest terms.
Fraction(n, d) ==
  LET DividedBy(g) == <<n \div g, d \div g>>
  IN  IF n = 0 THEN Zero ELSE DividedBy(CommonDivisor(n, d))

Whole(n) == <<n, 1>>

\* NaN is absorbing, as for floats; no sum of the model meets an infinity.
Plus(x, y) ==
  IF ~IsFinite(x) \/ ~IsFinite(y) THEN NaN
  ELSE Fraction(x[1] * y[2] + y[1] * x[2], x[2] * y[2])

Minus(x, y) == Plus(x, <<-y[1], y[2]>>)

Times(x, y) ==
  IF ~IsFinite(x) \/ ~IsFinite(y) THEN NaN
  ELSE Fraction(x[1] * y[1], x[2] * y[2])

\* numpy's quotient of two non-negative numbers.
Over(x, y) ==
  IF ~IsFinite(x) \/ ~IsFinite(y) THEN NaN
  ELSE IF y[1] = 0 THEN IF x[1] = 0 THEN NaN ELSE Inf
  ELSE Fraction(x[1] * y[2], x[2] * y[1])

\* np.nan_to_num on the values of the model.
NaNToZero(x) == IF IsFinite(x) THEN x ELSE Zero

AtMost(x, y) == x[1] * y[2] <= y[1] * x[2]

=============================================================================
