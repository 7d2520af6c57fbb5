------------------------------ MODULE Decimals ------------------------------
(***************************************************************************)
(* The decimal numbers of github.com/shopspring/decimal as the SDK uses    *)
(* them: addition, multiplication and shifts are exact, a quotient is      *)
(* rounded, half away from zero, to a fixed number of places, and a        *)
(* division by zero panics.                                                *)
(***************************************************************************)
EXTENDS Integers

CONSTANTS
  Base,      \* base of the numbers (10)
  Precision  \* places a quotient keeps (decimal.DivisionPrecision, 16)

ASSUME BaseAssumption == Base \in Nat /\ Base > 1
ASSUME PrecisionAssumption == Precision \in Nat
----------------------------------------------------------------------------
\* Base to the k-th.
Power[k \in Nat] == IF k = 0 THEN 1 ELSE Base * Power[k - 1]

\* The value n * Base^-e.
Dec(n, e) == [n |-> n, e |-> e]
Zero == Dec(0, 0)
One == Dec(1, 0)

\* What a division by zero gives: the goroutine panics, and no operation that
\* takes the quotient further is reached.
Panic == [n |-> 0, e |-> 0, panic |-> TRUE]
Larger(i, j) == IF i > j THEN i ELSE j
Abs(i) == Larger(i, -i)

\* The coefficient of a at the finer scale e.
At(a, e) == IF a.e = e THEN a.n ELSE a.n * Power[e - a.e]

IsZero(a) == a # Panic /\ a.n = 0
Less(a, b) == LET e == Larger(a.e, b.e) IN At(a, e) < At(b, e)
Plus(a, b) == LET e == Larger(a.e, b.e) IN Dec(At(a, e) + At(b, e), e)
Minus(a, b) == Plus(a, Dec(-b.n, b.e))
Times(a, b) == Dec(a.n * b.n, a.e + b.e)
Shift(a, places) == IF a = Panic THEN Panic ELSE Dec(a.n, a.e - places)

\* num / den rounded to an integer, half away from zero.
Round(num, den) ==
  LET half == (2 * Abs(num) + Abs(den)) \div (2 * Abs(den))
  IN IF (num < 0) = (den < 0) THEN half ELSE -half

Over(a, b) ==
  LET places == Precision + b.e - a.e
  IN IF IsZero(b) \/ Panic \in {a, b} THEN Panic
     ELSE Dec(IF places >= 0 THEN Round(a.n * Power[places], b.n)
                             ELSE Round(a.n, b.n * Power[-places]), Precision)

\* A value of v units of a token with the given number of decimals.
FromU64(v, decimals) == Dec(v, decimals)
=============================================================================
