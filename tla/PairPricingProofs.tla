-------------------------- MODULE PairPricingProofs -------------------------
(***************************************************************************)
(* Theorems about PairPricing for every word size, base, precision, amount *)
(* and clock, and for mints of any decimals.                               *)
(*                                                                         *)
(* The first half: a stage after ReadReserves has the reserves of the      *)
(* pool's two sides, whatever the bridge does in between.  What a reserve  *)
(* may be is then a matter of the integer arithmetic of ReserveMath: no    *)
(* guarded difference wraps, and a share of a vault, rounded down, leaves  *)
(* enough for the shares of everyone else.                                 *)
(*                                                                         *)
(* The second half compares decimals, by what they are worth at a scale    *)
(* that all of them reach: there sums are sums, products are products, and *)
(* a quotient is off by at most half its divisor.  ValuesInv says how each *)
(* value of an answer was made from those before it.                       *)
(***************************************************************************)
EXTENDS PairPricing, WellFoundedInduction, TLAPS

----------------------------------------------------------------------------
(* Products and quotients.                                                 *)

\* A larger factor makes a larger product.
LEMMA Product ==
  ASSUME NEW a \in Nat, NEW b \in Nat, NEW c \in Nat, a <= b
  PROVE  a * c <= b * c /\ c * a <= c * b /\ a * c \in Nat /\ c * a \in Nat
OBVIOUS

\* What the quotient rounded down is.
LEMMA Quotient ==
  ASSUME NEW a \in Nat, NEW p \in Nat \ {0}
  PROVE  a \div p \in Nat /\ p * (a \div p) <= a /\ a < p * (a \div p) + p
OBVIOUS

\* A quotient is the largest number whose product fits.
LEMMA QuotientIsLargest ==
  ASSUME NEW a \in Nat, NEW p \in Nat \ {0}, NEW q \in Nat, p * q <= a
  PROVE  q <= a \div p
<1> DEFINE r == a \div p
<1>1. r \in Nat /\ a < p * r + p
  BY Quotient
<1> HIDE DEF r
<1>2. CASE q > r
  <2>1. p * (r + 1) <= p * q
    BY <1>1, <1>2, Product
  <2>2. p * (r + 1) = p * r + p /\ p * r \in Nat /\ p * q \in Nat
    BY <1>1
  <2>3. QED
    BY <1>1, <2>1, <2>2
<1>3. QED
  BY <1>1, <1>2 DEF r

\* Dividing keeps the order.
LEMMA QuotientGrows ==
  ASSUME NEW a \in Nat, NEW b \in Nat, NEW p \in Nat \ {0}, a <= b
  PROVE  a \div p <= b \div p
<1>1. a \div p \in Nat /\ p * (a \div p) <= a /\ p * (a \div p) \in Nat
  BY Quotient
<1>2. p * (a \div p) <= b
  BY <1>1
<1>3. QED
  BY <1>1, <1>2, QuotientIsLargest

----------------------------------------------------------------------------
(* Powers of the base.                                                     *)

\* A relation by which smaller numbers come first has no endless descent.
LEMMA Ordered ==
  \E R : IsWellFoundedOn(R, Nat) /\ \A x, y \in Nat : x < y => <<x, y>> \in R
<1>1. \A x, y \in Nat : x < y => <<x, y>> \in OpToRel(<, Nat)
  BY DEF OpToRel
<1>2. QED
  BY <1>1, NatLessThanWellFounded, Zenon

\* A set that has 0, and with every number the next, has all numbers.
LEMMA Everywhere ==
  ASSUME NEW S, 0 \in S, \A n \in Nat : n \in S => n + 1 \in S
  PROVE  \A n \in Nat : n \in S
<1> DEFINE T == Nat \ S
<1>1. SUFFICES ASSUME T # {} PROVE FALSE
  OBVIOUS
<1>2. PICK R : IsWellFoundedOn(R, Nat) /\ \A x, y \in Nat : x < y => <<x, y>> \in R
  BY Ordered
<1>3. T \subseteq Nat
  OBVIOUS
<1> HIDE DEF T
<1>4. \E i \in T : \A j \in T : ~ (<<j, i>> \in R)
  <2>1. T # {} /\ IsWellFoundedOn(R, Nat)
    BY <1>1, <1>2
  <2>2. QED
    BY <1>3, <2>1, WFMin, Zenon
<1>5. PICK i \in T : \A j \in T : ~ (<<j, i>> \in R)
  BY <1>4
<1>6. i \in Nat /\ i # 0
  BY <1>3 DEF T
<1>7. i - 1 \in Nat /\ i - 1 < i /\ (i - 1) + 1 = i
  BY <1>6
<1>8. i - 1 \notin T
  BY <1>2, <1>3, <1>5, <1>6, <1>7
<1>9. i - 1 \in S
  BY <1>7, <1>8 DEF T
<1>10. i \in S
  BY <1>7, <1>9
<1>11. QED
  BY <1>10 DEF T

\* The powers up to the n-th, as a function.
IsTable(g, n) ==
  /\ g \in [0 .. n -> Nat] /\ g[0] = 1
  /\ \A i \in 1 .. n : g[i] = Base * g[i - 1]

LEMMA Tables == \A n \in Nat : \E g : IsTable(g, n)
<1> DEFINE S == {n \in Nat : \E g : IsTable(g, n)}
<1>1. 0 \in S
  <2>1. IsTable([i \in 0 .. 0 |-> 1], 0)
    BY DEF IsTable
  <2>2. QED
    BY <2>1
<1>2. ASSUME NEW n \in Nat, n \in S PROVE n + 1 \in S
  <2>1. PICK g : IsTable(g, n)
    BY <1>2
  <2> DEFINE h == [i \in 0 .. n + 1 |-> IF i <= n THEN g[i] ELSE Base * g[n]]
  <2>2. g[n] \in Nat /\ \A i \in 0 .. n : g[i] \in Nat
    BY <2>1 DEF IsTable
  <2>3. Base * g[n] \in Nat
    BY <2>2, BaseAssumption
  <2>4. h \in [0 .. n + 1 -> Nat] /\ h[0] = 1
    BY <2>1, <2>2, <2>3 DEF IsTable
  <2>5. ASSUME NEW i \in 1 .. n + 1 PROVE h[i] = Base * h[i - 1]
    <3>1. i - 1 \in 0 .. n /\ h[i - 1] = g[i - 1]
      OBVIOUS
    <3>2. CASE i <= n
      BY <2>1, <3>1, <3>2 DEF IsTable
    <3>3. CASE i > n
      <4>1. i = n + 1
        BY <3>3
      <4>2. QED
        BY <3>1, <4>1
    <3>4. QED
      BY <3>2, <3>3
  <2>6. IsTable(h, n + 1)
    BY <2>4, <2>5 DEF IsTable
  <2>7. QED
    BY <2>6
<1> HIDE DEF S
<1>3. \A n \in Nat : n \in S
  BY <1>1, <1>2, Everywhere
<1>4. QED
  BY <1>3 DEF S

\* Two tables agree where both have an entry.
LEMMA TablesAgree ==
  ASSUME NEW m \in Nat, NEW n \in Nat, NEW g, NEW h, IsTable(g, m), IsTable(h, n)
  PROVE  \A i \in Nat : i <= m /\ i <= n => g[i] = h[i]
<1> DEFINE S == {i \in Nat : i <= m /\ i <= n => g[i] = h[i]}
<1>1. 0 \in S
  BY DEF IsTable
<1>2. ASSUME NEW i \in Nat, i \in S PROVE i + 1 \in S
  <2> SUFFICES ASSUME i + 1 <= m, i + 1 <= n PROVE g[i + 1] = h[i + 1]
    OBVIOUS
  <2>1. g[i] = h[i]
    BY <1>2
  <2>2. i + 1 \in 1 .. m /\ i + 1 \in 1 .. n /\ (i + 1) - 1 = i
    OBVIOUS
  <2>3. QED
    BY <2>1, <2>2 DEF IsTable
<1> HIDE DEF S
<1>3. \A i \in Nat : i \in S
  BY <1>1, <1>2, Everywhere
<1>4. QED
  BY <1>3 DEF S

\* The recursion of Power has a solution.
LEMMA PowerIsFunction ==
  Power = [k \in Nat |-> IF k = 0 THEN 1 ELSE Base * Power[k - 1]]
<1> DEFINE table == [n \in Nat |-> CHOOSE g : IsTable(g, n)]
           f == [n \in Nat |-> table[n][n]]
<1>1. \A n \in Nat : IsTable(table[n], n)
  BY Tables
<1> HIDE DEF table
<1>2. ASSUME NEW n \in Nat
      PROVE  f[n] = IF n = 0 THEN 1 ELSE Base * f[n - 1]
  <2>1. CASE n = 0
    BY <1>1, <2>1 DEF IsTable
  <2>2. CASE n # 0
    <3>1. n - 1 \in Nat /\ n - 1 <= n /\ n \in 1 .. n
      BY <2>2
    <3>2. table[n][n] = Base * table[n][n - 1]
      BY <1>1, <3>1 DEF IsTable
    <3>3. table[n][n - 1] = table[n - 1][n - 1]
      BY <1>1, <3>1, TablesAgree
    <3>4. QED
      BY <2>2, <3>1, <3>2, <3>3
  <2>3. QED
    BY <2>1, <2>2
<1>3. f = [k \in Nat |-> IF k = 0 THEN 1 ELSE Base * f[k - 1]]
  BY <1>2
<1> HIDE DEF f
<1>4. \E g : g = [k \in Nat |-> IF k = 0 THEN 1 ELSE Base * g[k - 1]]
  BY <1>3
<1>5. QED
  BY <1>4 DEF Power

LEMMA PowerStep ==
  /\ Power[0] = 1
  /\ \A k \in Nat : Power[k + 1] = Base * Power[k]
<1> DEFINE rhs == [k \in Nat |-> IF k = 0 THEN 1 ELSE Base * Power[k - 1]]
<1>1. Power = rhs
  BY PowerIsFunction
<1>2. rhs[0] = 1 /\ \A k \in Nat : rhs[k + 1] = Base * Power[k]
  <2>1. \A k \in Nat : rhs[k] = IF k = 0 THEN 1 ELSE Base * Power[k - 1]
    OBVIOUS
  <2>2. \A k \in Nat : k + 1 \in Nat /\ k + 1 # 0 /\ (k + 1) - 1 = k
    OBVIOUS
  <2> HIDE DEF rhs
  <2>3. QED
    BY <2>1, <2>2
<1> HIDE DEF rhs
<1>3. QED
  BY <1>1, <1>2

\* Powers are positive, and a sum of exponents makes a product.
LEMMA PowerType == \A k \in Nat : Power[k] \in Nat \ {0}
<1> DEFINE S == {k \in Nat : Power[k] \in Nat \ {0}}
<1>1. 0 \in S
  BY PowerStep
<1>2. ASSUME NEW k \in Nat, k \in S PROVE k + 1 \in S
  <2>1. Base * Power[k] \in Nat \ {0}
    BY <1>2, BaseAssumption
  <2>2. QED
    BY <2>1, PowerStep
<1> HIDE DEF S
<1>3. \A k \in Nat : k \in S
  BY <1>1, <1>2, Everywhere
<1>4. QED
  BY <1>3 DEF S

LEMMA PowerSum ==
  ASSUME NEW i \in Nat, NEW j \in Nat
  PROVE  Power[i + j] = Power[i] * Power[j]
<1> DEFINE S == {k \in Nat : Power[i + k] = Power[i] * Power[k]}
<1>1. 0 \in S
  BY PowerStep, PowerType
<1>2. ASSUME NEW k \in Nat, k \in S PROVE k + 1 \in S
  <2>1. Power[i + (k + 1)] = Base * Power[i + k]
    BY PowerStep
  <2>2. Power[k + 1] = Base * Power[k]
    BY PowerStep
  <2>3. Power[i] \in Nat /\ Power[k] \in Nat /\ Base \in Nat
    BY PowerType, BaseAssumption
  <2>4. Base * (Power[i] * Power[k]) = Power[i] * (Base * Power[k])
    BY ONLY <2>3
  <2>5. QED
    BY <1>2, <2>1, <2>2, <2>4
<1> HIDE DEF S
<1>3. \A k \in Nat : k \in S
  BY <1>1, <1>2, Everywhere
<1>4. QED
  BY <1>3 DEF S

\* The power of a number that may be negative, then one, and of its opposite.
Raised(k) == Power[Larger(k, 0)]

LEMMA RaisedType == \A k \in Int : Raised(k) \in Nat \ {0}
<1>1. \A k \in Int : Larger(k, 0) \in Nat
  BY DEF Larger
<1>2. QED
  BY <1>1, PowerType DEF Raised

LEMMA Balanced ==
  ASSUME NEW i \in Nat, NEW j \in Nat
  PROVE  Raised(i - j) * Power[j] = Raised(j - i) * Power[i]
<1>1. ASSUME NEW x \in Nat, NEW y \in Nat, x <= y
      PROVE  Raised(y - x) * Power[x] = Raised(x - y) * Power[y]
  <2>1. y - x \in Nat /\ (y - x) + x = y /\ Larger(y - x, 0) = y - x
        /\ Larger(x - y, 0) = 0
    BY <1>1 DEF Larger
  <2>2. Power[(y - x) + x] = Power[y - x] * Power[x]
    BY ONLY <2>1, x \in Nat, PowerSum
  <2>3. Power[y] \in Nat
    BY PowerType
  <2>4. QED
    BY <2>1, <2>2, <2>3, PowerStep DEF Raised
<1>2. CASE i <= j
  BY <1>1, <1>2
<1>3. CASE j <= i
  BY <1>1, <1>3
<1>4. QED
  BY <1>2, <1>3

----------------------------------------------------------------------------
(* What decimals are worth.                                                *)

\* The value of d in units of Base^-k.
Value(d, k) == d.n * Power[k - d.e]

\* Multiplying with a positive number keeps an order.
LEMMA Scaling ==
  ASSUME NEW x \in Int, NEW y \in Int, NEW c \in Nat \ {0}
  PROVE  x < y <=> x * c < y * c
<1>1. ASSUME NEW u \in Int, NEW v \in Int, u < v PROVE u * c < v * c
  <2>1. v - u \in Nat /\ v - u >= 1
    BY <1>1
  <2>2. (v - u) * c >= c
    BY ONLY <2>1, c \in Nat
  <2>3. (v - u) * c = v * c - u * c /\ u * c \in Int /\ v * c \in Int
    OBVIOUS
  <2>4. QED
    BY <2>2, <2>3
<1>2. CASE x < y
  BY <1>1, <1>2
<1>3. CASE x = y
  BY <1>3
<1>4. CASE y < x
  <2>1. y * c < x * c
    BY <1>1, <1>4
  <2>2. y * c \in Int /\ x * c \in Int
    OBVIOUS
  <2>3. QED
    BY <1>4, <2>1, <2>2
<1>5. QED
  BY <1>2, <1>3, <1>4

LEMMA DecType ==
  /\ \A n, e \in Int : IsDec(Dec(n, e)) /\ Dec(n, e).n = n /\ Dec(n, e).e = e
  /\ IsDec(Zero) /\ Zero.n = 0 /\ Zero.e = 0
  /\ IsDec(One) /\ One.n = 1 /\ One.e = 0
  /\ \A d : IsDec(d) => d # Panic
BY DEF IsDec, Dec, Zero, One, Panic

LEMMA ValueType ==
  ASSUME NEW d, IsDec(d), NEW k \in Int, d.e <= k
  PROVE  Value(d, k) \in Int /\ At(d, k) = Value(d, k)
<1>1. k - d.e \in Nat /\ d.n \in Int
  BY DEF IsDec
<1>2. Power[k - d.e] \in Nat
  BY <1>1, PowerType
<1>3. k = d.e => k - d.e = 0
  BY DEF IsDec
<1>4. QED
  BY <1>1, <1>2, <1>3, PowerStep DEF Value, At

\* A value at a finer scale.
LEMMA ValueScale ==
  ASSUME NEW d, IsDec(d), NEW k \in Int, NEW j \in Int, d.e <= k, k <= j
  PROVE  Value(d, j) = Value(d, k) * Power[j - k]
<1>1. k - d.e \in Nat /\ j - k \in Nat /\ j - d.e = (k - d.e) + (j - k) /\ d.n \in Int
  BY DEF IsDec
<1>2. Power[j - d.e] = Power[k - d.e] * Power[j - k]
  BY <1>1, PowerSum
<1>3. Power[k - d.e] \in Nat /\ Power[j - k] \in Nat
  BY <1>1, PowerType
<1>4. \A x \in Int, p, q \in Nat : x * (p * q) = (x * p) * q
  OBVIOUS
<1>5. QED
  BY <1>1, <1>2, <1>3, <1>4 DEF Value

\* Decimals are ordered as their values at any scale fine enough for both.
LEMMA LessValue ==
  ASSUME NEW a, NEW b, IsDec(a), IsDec(b), NEW k \in Int, a.e <= k, b.e <= k
  PROVE  Less(a, b) <=> Value(a, k) < Value(b, k)
<1> DEFINE e == Larger(a.e, b.e)
<1>1. e \in Int /\ a.e <= e /\ b.e <= e /\ e <= k
  BY DEF Larger, IsDec
<1>2. Less(a, b) <=> At(a, e) < At(b, e)
  BY DEF Less
<1> HIDE DEF e
<1>3. /\ At(a, e) = Value(a, e) /\ Value(a, e) \in Int
      /\ At(b, e) = Value(b, e) /\ Value(b, e) \in Int
  BY <1>1, ValueType
<1>4. k - e \in Nat
  BY <1>1
<1>5. Power[k - e] \in Nat \ {0}
  BY <1>4, PowerType
<1>6. Value(a, k) = Value(a, e) * Power[k - e] /\ Value(b, k) = Value(b, e) * Power[k - e]
  BY <1>1, ValueScale
<1>7. QED
  BY <1>2, <1>3, <1>5, <1>6, Scaling

\* The value of a sum, a difference and a product.
LEMMA PlusValue ==
  ASSUME NEW a, NEW b, IsDec(a), IsDec(b)
  PROVE  /\ IsDec(Plus(a, b)) /\ Plus(a, b).e = Larger(a.e, b.e)
         /\ \A k \in Int : a.e <= k /\ b.e <= k =>
              Value(Plus(a, b), k) = Value(a, k) + Value(b, k)
<1> DEFINE e == Larger(a.e, b.e)
<1>1. e \in Int /\ a.e <= e /\ b.e <= e
  BY DEF Larger, IsDec
<1>2. Plus(a, b) = Dec(At(a, e) + At(b, e), e)
  BY DEF Plus
<1>3. /\ At(a, e) = Value(a, e) /\ Value(a, e) \in Int
      /\ At(b, e) = Value(b, e) /\ Value(b, e) \in Int
  BY <1>1, ValueType
<1> DEFINE s == Plus(a, b)
<1>4. IsDec(s) /\ s.e = e /\ s.n = Value(a, e) + Value(b, e)
  BY <1>1, <1>2, <1>3, DecType
<1> SUFFICES ASSUME NEW k \in Int, a.e <= k, b.e <= k
             PROVE  Value(s, k) = Value(a, k) + Value(b, k)
  BY <1>4
<1>5. e <= k
  BY DEF Larger, IsDec
<1> HIDE DEF e, s
<1>6. k - e \in Nat
  BY <1>1, <1>5
<1>7. Power[k - e] \in Nat
  BY <1>6, PowerType
<1>8. Value(a, k) = Value(a, e) * Power[k - e] /\ Value(b, k) = Value(b, e) * Power[k - e]
  BY <1>1, <1>5, ValueScale
<1>9. Value(s, k) = (Value(a, e) + Value(b, e)) * Power[k - e]
  BY <1>4 DEF Value
<1>10. \A x, y \in Int, p \in Nat : (x + y) * p = x * p + y * p
  OBVIOUS
<1>11. QED
  BY <1>3, <1>7, <1>8, <1>9, <1>10

LEMMA MinusValue ==
  ASSUME NEW a, NEW b, IsDec(a), IsDec(b)
  PROVE  /\ IsDec(Minus(a, b)) /\ Minus(a, b).e = Larger(a.e, b.e)
         /\ \A k \in Int : a.e <= k /\ b.e <= k =>
              Value(Minus(a, b), k) = Value(a, k) - Value(b, k)
<1> DEFINE c == Dec(-b.n, b.e)
<1>1. IsDec(c) /\ c.n = -b.n /\ c.e = b.e /\ Minus(a, b) = Plus(a, c)
  BY DecType DEF IsDec, Minus
<1> HIDE DEF c
<1>2. ASSUME NEW k \in Int, b.e <= k PROVE Value(c, k) = -Value(b, k) /\ Value(b, k) \in Int
  <2>1. k - b.e \in Nat /\ b.n \in Int
    BY <1>2 DEF IsDec
  <2>2. Power[k - b.e] \in Nat
    BY <2>1, PowerType
  <2>3. \A x \in Int, p \in Nat : (-x) * p = -(x * p)
    OBVIOUS
  <2>4. QED
    BY <1>1, <1>2, <2>1, <2>2, <2>3, ValueType DEF Value
<1>3. ASSUME NEW k \in Int, a.e <= k, b.e <= k
      PROVE  Value(Minus(a, b), k) = Value(a, k) - Value(b, k)
  <2>1. Value(Minus(a, b), k) = Value(a, k) + Value(c, k)
    BY <1>1, <1>3, PlusValue
  <2>2. Value(a, k) \in Int
    BY <1>3, ValueType
  <2>3. QED
    BY <1>2, <1>3, <2>1, <2>2
<1>4. QED
  BY <1>1, <1>3, PlusValue

LEMMA TimesValue ==
  ASSUME NEW a, NEW b, IsDec(a), IsDec(b)
  PROVE  /\ IsDec(Times(a, b)) /\ Times(a, b).e = a.e + b.e
         /\ Times(a, b).n = a.n * b.n
         /\ \A i, j \in Int : a.e <= i /\ b.e <= j =>
              Value(Times(a, b), i + j) = Value(a, i) * Value(b, j)
<1>1. a.n \in Int /\ b.n \in Int /\ a.e \in Int /\ b.e \in Int
  BY DEF IsDec
<1>2. a.n * b.n \in Int /\ a.e + b.e \in Int
  BY <1>1
<1> DEFINE t == Times(a, b)
<1>3. IsDec(t) /\ t.n = a.n * b.n /\ t.e = a.e + b.e
  BY <1>2, DecType DEF Times
<1> HIDE DEF t
<1>4. ASSUME NEW i \in Int, NEW j \in Int, a.e <= i, b.e <= j
      PROVE  Value(t, i + j) = Value(a, i) * Value(b, j)
  <2>1. /\ i - a.e \in Nat /\ j - b.e \in Nat
        /\ (i + j) - (a.e + b.e) = (i - a.e) + (j - b.e)
    BY <1>1, <1>4
  <2> DEFINE p == Power[i - a.e]
             q == Power[j - b.e]
  <2>2. p \in Nat /\ q \in Nat /\ Power[(i + j) - (a.e + b.e)] = p * q
    BY <2>1, PowerType, PowerSum
  <2>3. Value(t, i + j) = (a.n * b.n) * (p * q)
    BY <1>3, <2>2 DEF Value
  <2>4. Value(a, i) = a.n * p /\ Value(b, j) = b.n * q
    BY DEF Value
  <2> HIDE DEF p, q
  <2>5. \A x, y \in Int, u, v \in Nat : (x * y) * (u * v) = (x * u) * (y * v)
    OBVIOUS
  <2>6. QED
    BY <1>1, <2>2, <2>3, <2>4, <2>5
<1>5. QED
  BY <1>3, <1>4 DEF t

\* A rounded quotient is off by half of the divisor.
LEMMA Rounded ==
  ASSUME NEW num \in Int, NEW den \in Int, den # 0
  PROVE  /\ Round(num, den) \in Int
         /\ 2 * Abs(Round(num, den) * den - num) <= Abs(den)
         /\ num >= 0 /\ den > 0 => Round(num, den) >= 0
<1> DEFINE N == Abs(num)
           D == Abs(den)
           half == (2 * N + D) \div (2 * D)
           r == Round(num, den)
<1>1. N \in Nat /\ D \in Nat \ {0} /\ (num = N \/ num = -N) /\ (den = D \/ den = -D)
      /\ (num < 0 => num = -N) /\ (num >= 0 => num = N)
      /\ (den < 0 => den = -D) /\ (den >= 0 => den = D)
  BY DEF Abs, Larger
<1>2. r = IF (num < 0) = (den < 0) THEN half ELSE -half
  BY DEF Round
<1> HIDE DEF N, D, r
<1>3. 2 * N + D \in Nat /\ 2 * D \in Nat \ {0}
  BY <1>1
<1>4. /\ half \in Nat /\ (2 * D) * half <= 2 * N + D
      /\ 2 * N + D < (2 * D) * half + 2 * D
  BY <1>3, Quotient
<1> HIDE DEF half
<1> DEFINE m == half * D
<1>5. m \in Nat /\ (2 * D) * half = 2 * m
  BY <1>1, <1>4
<1>6. half * (-D) = -m /\ (-half) * D = -m /\ (-half) * (-D) = m
  BY <1>1, <1>4
<1> HIDE DEF m
<1>7. 2 * (m - N) <= D /\ 2 * (N - m) <= D
  BY <1>1, <1>4, <1>5
<1>8. r * den - num \in {m - N, N - m}
  <2>1. CASE num < 0 /\ den < 0
    BY <1>1, <1>2, <1>5, <1>6, <2>1
  <2>2. CASE num < 0 /\ den >= 0
    BY <1>1, <1>2, <1>5, <1>6, <2>2
  <2>3. CASE num >= 0 /\ den < 0
    BY <1>1, <1>2, <1>5, <1>6, <2>3
  <2>4. CASE num >= 0 /\ den >= 0
    <3>1. r = half /\ den = D /\ num = N
      BY <1>1, <1>2, <2>4
    <3>2. r * den = m
      BY <3>1 DEF m
    <3>3. QED
      BY <3>1, <3>2
  <2>5. QED
    BY <2>1, <2>2, <2>3, <2>4
<1>9. 2 * Abs(r * den - num) <= D
  BY <1>1, <1>5, <1>7, <1>8 DEF Abs, Larger
<1>10. r \in Int /\ (num >= 0 /\ den > 0 => r >= 0)
  BY <1>1, <1>2, <1>4
<1>11. QED
  BY <1>9, <1>10 DEF D, r

----------------------------------------------------------------------------
(* The operators of ReserveMath.                                           *)

\* A guarded difference of words does not wrap.
LEMMA NoWrap ==
  ASSUME NEW a \in U64, NEW b \in U64, b <= a
  PROVE  Sub64(a, b) = a - b /\ Sub64(a, b) \in U64
BY WordAssumption DEF Sub64, U64

\* Two fees leave what the vault holds beyond them, or nothing.
LEMMA FeesLeave ==
  ASSUME NEW vault \in U64, NEW fee \in U64, NEW fund \in U64
  PROVE  /\ SubtractFees(vault, fee, fund) \in Nat
         /\ SubtractFees(vault, fee, fund) > 0 =>
              SubtractFees(vault, fee, fund) + (fee + fund) <= vault
<1>1. CASE fee > vault
  BY <1>1 DEF SubtractFees, U64
<1>2. CASE fee <= vault
  <2> DEFINE left == Sub64(vault, fee)
  <2>1. left = vault - fee /\ left \in U64
    BY <1>2, NoWrap
  <2>2. fund <= left => Sub64(left, fund) = left - fund
    BY <2>1, NoWrap
  <2> HIDE DEF left
  <2>3. SubtractFees(vault, fee, fund) = IF fund > left THEN 0 ELSE Sub64(left, fund)
    BY <1>2 DEF SubtractFees, left, U64
  <2>4. QED
    BY <1>2, <2>1, <2>2, <2>3 DEF U64
<1>3. QED
  BY <1>1, <1>2 DEF U64

LEMMA FeeLeaves ==
  ASSUME NEW vault \in U64, NEW fee \in U64
  PROVE  /\ SubtractProtocolFee(vault, fee) \in Nat
         /\ SubtractProtocolFee(vault, fee) > 0 =>
              SubtractProtocolFee(vault, fee) + fee <= vault
BY NoWrap DEF SubtractProtocolFee, U64

LEMMA SaleLeaves ==
  ASSUME NEW total \in U64, NEW real \in U64
  PROVE  /\ RemainingBase(total, real) \in Nat
         /\ RemainingBase(total, real) > 0 => RemainingBase(total, real) + real <= total
BY NoWrap DEF RemainingBase, U64

\* Profit that is locked never grows with the clock.
LEMMA LockedShrinks ==
  ASSUME NEW now \in Int, NEW later \in Int, now <= later, later < Word,
         NEW profit \in U64, NEW report \in U64, NEW degrade \in U64
  PROVE  /\ LockedProfit(now, profit, report, degrade) \in Nat
         /\ LockedProfit(later, profit, report, degrade) \in Nat
         /\ LockedProfit(later, profit, report, degrade)
              <= LockedProfit(now, profit, report, degrade)
<1> DEFINE Duration(t) == IF t > 0 /\ t % Word > report
                          THEN Sub64(t % Word, report) ELSE 0
           Ratio0(t) == Duration(t) * degrade
           Locked(t) == (profit * (Denominator - Ratio0(t))) \div Denominator
<1>1. \A t \in Int : t > 0 /\ t < Word => t % Word = t /\ t \in U64
  BY WordAssumption DEF U64
<1>2. ASSUME NEW t \in Int, t < Word
      PROVE  Duration(t) = IF t > report THEN t - report ELSE 0
  <2>1. CASE t > report
    <3>1. t % Word = t /\ t \in U64 /\ t > 0
      BY <1>1, <1>2, <2>1 DEF U64
    <3>2. Sub64(t, report) = t - report
      BY <2>1, <3>1, NoWrap
    <3>3. QED
      BY <2>1, <3>1, <3>2
  <2>2. CASE ~(t > report)
    BY <1>1, <1>2, <2>2
  <2>3. QED
    BY <2>1, <2>2
<1>3. Duration(now) \in Nat /\ Duration(later) \in Nat
      /\ Duration(now) <= Duration(later)
  <2>1. Duration(now) = IF now > report THEN now - report ELSE 0
    BY <1>2, WordAssumption
  <2>2. Duration(later) = IF later > report THEN later - report ELSE 0
    BY <1>2
  <2> HIDE DEF Duration
  <2>3. QED
    BY <2>1, <2>2 DEF U64
<1> HIDE DEF Duration
<1>4. degrade \in Nat /\ profit \in Nat /\ Denominator \in Nat \ {0}
  BY DenominatorAssumption DEF U64
<1>5. Ratio0(now) \in Nat /\ Ratio0(later) \in Nat /\ Ratio0(now) <= Ratio0(later)
  BY <1>3, <1>4, Product
<1> HIDE DEF Ratio0
<1>6. ASSUME NEW t \in {now, later}, Ratio0(t) <= Denominator
      PROVE  profit * (Denominator - Ratio0(t)) \in Nat /\ Locked(t) \in Nat
  BY <1>4, <1>5, <1>6, Quotient
<1>7. Ratio0(later) <= Denominator => Locked(later) <= Locked(now)
  <2> SUFFICES ASSUME Ratio0(later) <= Denominator
               PROVE  Locked(later) <= Locked(now)
    OBVIOUS
  <2>1. /\ Denominator - Ratio0(later) \in Nat /\ Denominator - Ratio0(now) \in Nat
        /\ Denominator - Ratio0(later) <= Denominator - Ratio0(now)
    BY <1>4, <1>5
  <2>2. /\ profit * (Denominator - Ratio0(later)) \in Nat
        /\ profit * (Denominator - Ratio0(now)) \in Nat
        /\ profit * (Denominator - Ratio0(later)) <= profit * (Denominator - Ratio0(now))
    BY <1>4, <2>1, Product
  <2>3. QED
    BY <1>4, <2>2, QuotientGrows
<1> HIDE DEF Locked
<1>8. \A t \in {now, later} :
        LockedProfit(t, profit, report, degrade)
          = IF profit = 0 \/ degrade = 0 \/ Ratio0(t) > Denominator THEN 0 ELSE Locked(t)
  BY DEF LockedProfit, Duration, Ratio0, Locked
<1>9. QED
  BY <1>4, <1>5, <1>6, <1>7, <1>8

\* What a vault gives is a part of what it holds, and never shrinks with time.
LEMMA GivesGrow ==
  ASSUME NEW now \in Int, NEW later \in Int, now <= later, later < Word,
         NEW vault, vault.total \in U64, vault.profit \in U64,
         vault.report \in U64, vault.degrade \in U64
  PROVE  /\ VaultWithdrawable(now, vault) \in 0 .. vault.total
         /\ VaultWithdrawable(later, vault) \in 0 .. vault.total
         /\ VaultWithdrawable(now, vault) <= VaultWithdrawable(later, vault)
<1> DEFINE L(t) == LockedProfit(t, vault.profit, vault.report, vault.degrade)
<1>1. L(now) \in Nat /\ L(later) \in Nat /\ L(later) <= L(now)
  BY LockedShrinks
<1> HIDE DEF L
<1>2. ASSUME NEW t \in {now, later}
      PROVE  VaultWithdrawable(t, vault)
               = IF L(t) > vault.total THEN 0 ELSE vault.total - L(t)
  <2>1. VaultWithdrawable(t, vault)
          = IF L(t) > vault.total THEN 0 ELSE Sub64(vault.total, L(t))
    BY DEF VaultWithdrawable, L
  <2>2. L(t) \in Nat
    BY <1>1
  <2>3. L(t) <= vault.total => L(t) \in U64
    BY <2>2, WordAssumption DEF U64
  <2>4. QED
    BY <2>1, <2>2, <2>3, NoWrap DEF U64
<1>3. QED
  BY <1>1, <1>2 DEF U64

\* A share rounded down: times the supply it is at most the share of the total.
LEMMA ShareRounded ==
  ASSUME NEW share \in U64, NEW total \in U64, NEW supply \in U64
  PROVE  /\ AmountByShare(share, total, supply) \in Nat
         /\ supply * AmountByShare(share, total, supply) <= share * total
         /\ supply = 0 => AmountByShare(share, total, supply) = 0
<1>1. share \in Nat /\ total \in Nat /\ supply \in Nat /\ share * total \in Nat
  BY DEF U64
<1>2. CASE AmountByShare(share, total, supply) = 0
  BY <1>1, <1>2
<1>3. CASE AmountByShare(share, total, supply) # 0
  <2>1. supply # 0 /\ AmountByShare(share, total, supply) = (share * total) \div supply
    BY <1>3 DEF AmountByShare
  <2>2. (share * total) \div supply \in Nat
        /\ supply * ((share * total) \div supply) <= share * total
    BY <1>1, <2>1, Quotient
  <2>3. QED
    BY <2>1, <2>2
<1>4. QED
  BY <1>2, <1>3

\* Two shares of what is one after the other given are given together.
LEMMA SharesFit ==
  ASSUME NEW share \in U64, NEW others \in U64, NEW supply \in U64,
         others + share <= supply,
         NEW now \in U64, NEW later \in U64, now <= later
  PROVE  AmountByShare(share, now, supply) + AmountByShare(others, later, supply)
           <= later
<1> DEFINE x == AmountByShare(share, now, supply)
           y == AmountByShare(others, later, supply)
<1>1. /\ x \in Nat /\ supply * x <= share * now /\ (supply = 0 => x = 0)
      /\ y \in Nat /\ supply * y <= others * later /\ (supply = 0 => y = 0)
  BY ShareRounded
<1>2. /\ share \in Nat /\ others \in Nat /\ supply \in Nat
      /\ now \in Nat /\ later \in Nat
  BY DEF U64
<1> HIDE DEF x, y
<1>3. share * now <= share * later /\ share * now \in Nat /\ share * later \in Nat
  BY <1>2, Product
<1>4. (others + share) * later <= supply * later
  BY <1>2, Product
<1>5. (others + share) * later = others * later + share * later
  BY <1>2
<1>6. supply * (x + y) = supply * x + supply * y
  BY <1>1, <1>2
<1>7. supply * (x + y) <= supply * later
  <2>1. /\ supply * x \in Nat /\ supply * y \in Nat /\ others * later \in Nat
        /\ supply * later \in Nat
    BY <1>1, <1>2
  <2>2. QED
    BY <1>1, <1>3, <1>4, <1>5, <1>6, <2>1
<1>8. supply = 0 => x + y <= later
  BY <1>1, <1>2
<1>9. ASSUME supply # 0, x + y > later PROVE FALSE
  <2>1. supply * (later + 1) <= supply * (x + y)
    BY <1>1, <1>2, <1>9, Product
  <2>2. supply * (later + 1) = supply * later + supply
    BY <1>2
  <2>3. supply * (x + y) \in Nat /\ supply * later \in Nat
    BY <1>1, <1>2
  <2>4. QED
    BY <1>2, <1>7, <1>9, <2>1, <2>2, <2>3
<1>10. QED
  BY <1>1, <1>2, <1>8, <1>9 DEF x, y

----------------------------------------------------------------------------
(* Decimals.                                                               *)

IsNumber(d) == DOMAIN d = {"n", "e"}

\* A decimal is not what a division by zero gives.
LEMMA Numbers ==
  /\ \A n, e : IsNumber(Dec(n, e)) /\ Dec(n, e).n = n
  /\ IsNumber(Zero) /\ IsNumber(One) /\ One.n = 1
  /\ \A d : IsNumber(d) => d # Panic
BY DEF IsNumber, Dec, Panic, Zero, One

\* Shifting a decimal moves its scale, and sums at one scale keep it.
LEMMA Shifted ==
  ASSUME NEW n, NEW e, NEW places, NEW f, f = e - places
  PROVE  Shift(Dec(n, e), places) = Dec(n, f)
<1>1. Dec(n, e) # Panic /\ Dec(n, e).n = n /\ Dec(n, e).e = e
  BY Numbers DEF Dec
<1>2. QED
  BY <1>1 DEF Shift

LEMMA OneScale ==
  ASSUME NEW e \in Int, NEW m \in Int, NEW n \in Int,
         NEW sum, sum = m + n, NEW rest, rest = m - n
  PROVE  /\ Plus(Dec(m, e), Dec(n, e)) = Dec(sum, e)
         /\ Minus(Dec(m, e), Dec(n, e)) = Dec(rest, e)
<1>1. \A k \in Int : Plus(Dec(m, e), Dec(k, e)) = Dec(m + k, e)
  BY DEF Plus, At, Larger, Dec
<1>2. Minus(Dec(m, e), Dec(n, e)) = Plus(Dec(m, e), Dec(-n, e))
  BY DEF Minus, Dec
<1>3. -n \in Int /\ m + (-n) = m - n
  OBVIOUS
<1>4. Plus(Dec(m, e), Dec(-n, e)) = Dec(m + (-n), e)
  BY <1>1, <1>3
<1>5. QED
  BY <1>1, <1>2, <1>3, <1>4

LEMMA Sums ==
  \A e, m, n \in Int : /\ Plus(Dec(m, e), Dec(n, e)) = Dec(m + n, e)
                       /\ Minus(Dec(m, e), Dec(n, e)) = Dec(m - n, e)
BY OneScale

----------------------------------------------------------------------------
(* Reserves of one side of a pool.                                         *)

\* A reserve of a side: never negative, a part of what is held that is not owed
\* to others, in the decimals of the side's mint.
Covered(side, dec) ==
  LET reserve == ReserveOf(side, dec)
  IN /\ reserve.n >= 0
     /\ reserve.n > 0 => /\ reserve.n + Owed(side) <= Held(side)
                         /\ reserve.e = dec

\* A side of which nothing is owed: its balance is its reserve.
LEMMA PlainSide ==
  ASSUME NEW side \in [held : U64], NEW dec \in Nat,
         proto \in {"pumpswap", "cpmm", "clmm", "liquidity_v4", "damm_v2",
                    "whirlpool", "dbc", "dlmm", "damm_v1"},
         proto = "pumpswap" => side.held < Word \div 2
  PROVE  Covered(side, dec)
<1>1. /\ side.held \in U64 /\ DOMAIN side = {"held"}
      /\ Deduction(side, "fee") = 0 /\ Deduction(side, "fund") = 0
      /\ Deduction(side, "orders") = 0 /\ Deduction(side, "pnl") = 0
  BY DEF Deduction
<1>2. side.held \in Int /\ side.held >= 0 /\ 0 \in U64 /\ dec \in Int
  BY <1>1, WordAssumption DEF U64
<1>3. Owed(side) = 0 /\ Held(side) = side.held
  BY <1>1, <1>2 DEF Owed, Held
<1>4. ReserveOf(side, dec) = Dec(side.held, dec)
  <2>1. CASE proto = "pumpswap"
    <3>1. Int64(side.held) = side.held
      BY <2>1 DEF Int64
    <3>2. dec = 0 - (-dec)
      OBVIOUS
    <3>3. Shift(Dec(side.held, 0), -dec) = Dec(side.held, dec)
      BY <3>2, Shifted
    <3>4. QED
      BY <2>1, <3>1, <3>3 DEF ReserveOf
  <2>2. CASE proto \in {"cpmm", "clmm"}
    <3>1. SubtractFees(side.held, 0, 0) = side.held
      <4>1. Sub64(side.held, 0) = side.held
        BY <1>1, <1>2, NoWrap
      <4>2. QED
        BY <1>2, <4>1 DEF SubtractFees
    <3>2. QED
      BY <1>1, <2>2, <3>1 DEF ReserveOf, FromU64
  <2>3. CASE proto \in {"damm_v2", "whirlpool"}
    <3>1. SubtractProtocolFee(side.held, 0) = side.held
      BY <1>1, <1>2, NoWrap DEF SubtractProtocolFee
    <3>2. QED
      BY <1>1, <2>3, <3>1 DEF ReserveOf, FromU64
  <2>4. CASE proto = "liquidity_v4"
    <3>1. OpenOrdersReserve(side, dec) = Dec(side.held, dec)
      <4>1. side.held = side.held + 0 /\ side.held = side.held - 0
        BY <1>2
      <4>2. Plus(Dec(side.held, dec), Dec(0, dec)) = Dec(side.held, dec)
        BY <1>2, <4>1, OneScale
      <4>3. Minus(Dec(side.held, dec), Dec(0, dec)) = Dec(side.held, dec)
        BY <1>2, <4>1, OneScale
      <4>4. Minus(Plus(Dec(side.held, dec), Dec(0, dec)), Dec(0, dec))
              = Dec(side.held, dec)
        BY <4>2, <4>3
      <4>5. Dec(side.held, dec).n = side.held
        BY Numbers
      <4>6. QED
        BY <1>1, <1>2, <4>4, <4>5 DEF OpenOrdersReserve, FromU64
    <3>2. QED
      BY <2>4, <3>1 DEF ReserveOf
  <2>5. CASE proto = "damm_v1"
    BY <1>1, <2>5 DEF ReserveOf, ShareReserve, FromU64
  <2>6. CASE proto \in {"dbc", "dlmm"}
    BY <2>6 DEF ReserveOf, FromU64
  <2>7. QED
    BY <2>1, <2>2, <2>3, <2>4, <2>5, <2>6
<1>5. QED
  BY <1>2, <1>3, <1>4 DEF Covered, Dec

\* A side with a protocol fee: Meteora DAMM v2 and Orca Whirlpool.
LEMMA FeeSide ==
  ASSUME NEW side \in [held : U64, fee : U64], NEW dec \in Nat,
         proto \in {"damm_v2", "whirlpool"}
  PROVE  Covered(side, dec)
<1>1. side.held \in U64 /\ side.fee \in U64 /\ Deduction(side, "fee") = side.fee
  BY DEF Deduction
<1>2. Owed(side) = side.fee /\ Held(side) = side.held
  BY <1>1 DEF Owed, Held
<1>3. ReserveOf(side, dec) = Dec(SubtractProtocolFee(side.held, side.fee), dec)
  BY <1>1 DEF ReserveOf, FromU64
<1>4. QED
  BY <1>1, <1>2, <1>3, FeeLeaves DEF Covered, Dec

\* A side with a protocol fee and a fund fee: Raydium CPMM and CLMM.
LEMMA FeesSide ==
  ASSUME NEW side \in [held : U64, fee : U64, fund : U64], NEW dec \in Nat,
         proto \in {"cpmm", "clmm"}
  PROVE  Covered(side, dec)
<1>1. /\ side.held \in U64 /\ side.fee \in U64 /\ side.fund \in U64
      /\ Deduction(side, "fee") = side.fee /\ Deduction(side, "fund") = side.fund
  BY DEF Deduction
<1>2. Owed(side) = side.fee + side.fund /\ Held(side) = side.held
  BY <1>1 DEF Owed, Held
<1>3. ReserveOf(side, dec) = Dec(SubtractFees(side.held, side.fee, side.fund), dec)
  BY <1>1 DEF ReserveOf, FromU64
<1>4. QED
  BY <1>1, <1>2, <1>3, FeesLeave DEF Covered, Dec

\* A side with an order book: Raydium AMM v4 subtracts decimals, not words.
LEMMA OrdersSide ==
  ASSUME NEW side \in [held : U64, orders : U64, pnl : U64], NEW dec \in Nat,
         proto = "liquidity_v4"
  PROVE  Covered(side, dec)
<1>1. /\ side.held \in Nat /\ side.orders \in Nat /\ side.pnl \in Nat
      /\ Deduction(side, "orders") = side.orders /\ Deduction(side, "pnl") = side.pnl
  BY DEF Deduction, U64
<1>2. Owed(side) = side.pnl /\ Held(side) = side.held + side.orders
  BY <1>1 DEF Owed, Held
<1> DEFINE both == side.held + side.orders
           left == both - side.pnl
<1>3. Plus(Dec(side.held, dec), Dec(side.orders, dec)) = Dec(both, dec)
  BY <1>1, OneScale
<1>4. Minus(Dec(both, dec), Dec(side.pnl, dec)) = Dec(left, dec)
  <2>1. both \in Int /\ left \in Int /\ left = both - side.pnl
    BY <1>1
  <2> HIDE DEF both, left
  <2>2. QED
    BY <1>1, <2>1, OneScale
<1>5. ReserveOf(side, dec) = IF left < 0 THEN Zero ELSE Dec(left, dec)
  BY <1>1, <1>3, <1>4 DEF ReserveOf, OpenOrdersReserve, FromU64, Dec
<1>6. QED
  BY <1>1, <1>2, <1>5 DEF Covered, Dec, Zero

\* A vault and a pool's share of it, with words and a clock.
VaultSides ==
  [share : U64, supply : U64, total : U64, profit : U64, report : U64, degrade : U64]

\* A side that is a share of a vault: Meteora DAMM v1.
LEMMA VaultSide ==
  ASSUME NEW side \in VaultSides, NEW dec \in Nat, proto = "damm_v1",
         pool.clock \in Int, pool.clock < Word, side.share <= side.supply
  PROVE  Covered(side, dec)
<1>1. /\ side.share \in U64 /\ side.supply \in U64 /\ side.total \in U64
      /\ side.profit \in U64 /\ side.report \in U64 /\ side.degrade \in U64
      /\ "share" \in DOMAIN side
  BY DEF VaultSides
<1>2. Owed(side) = 0 /\ Held(side) = side.total
  BY <1>1 DEF Owed, Held
<1> DEFINE gives == VaultWithdrawable(pool.clock, side)
           mine == AmountByShare(side.share, gives, side.supply)
<1>3. gives \in 0 .. side.total /\ gives \in U64
  BY <1>1, GivesGrow, WordAssumption DEF U64
<1> HIDE DEF gives
<1>4. mine \in Nat /\ mine <= gives
  <2>1. 0 \in U64 /\ side.share + 0 <= side.supply /\ 0 + side.share <= side.supply
    BY <1>1, WordAssumption DEF U64
  <2>2. mine + AmountByShare(0, gives, side.supply) <= gives
    BY <1>1, <1>3, <2>1, SharesFit DEF U64
  <2>3. mine \in Nat /\ AmountByShare(0, gives, side.supply) \in Nat
    BY <1>1, <1>3, <2>1, ShareRounded
  <2>4. QED
    BY <1>3, <2>2, <2>3 DEF U64
<1>5. ReserveOf(side, dec) = Dec(mine, dec)
  BY <1>1 DEF ReserveOf, ShareReserve, FromU64, gives
<1> HIDE DEF mine
<1>6. QED
  BY <1>1, <1>2, <1>3, <1>4, <1>5 DEF Covered, Dec, U64

\* The two sides of a launchpad curve: what is left for sale, and the quote paid.
LEMMA LaunchpadSide ==
  ASSUME proto = "launchpad", NEW dec \in Nat,
         NEW side \in [total : U64, virtual : U64, real : U64]
                        \cup [virtual : U64, real : U64]
  PROVE  Covered(side, dec)
<1>1. CASE side \in [total : U64, virtual : U64, real : U64]
  <2>1. side.total \in U64 /\ side.real \in U64 /\ "total" \in DOMAIN side
    BY <1>1
  <2>2. Owed(side) = side.real /\ Held(side) = side.total
    BY <2>1 DEF Owed, Held
  <2>3. ReserveOf(side, dec) = Dec(RemainingBase(side.total, side.real), dec)
    BY <2>1 DEF ReserveOf, FromU64
  <2>4. QED
    BY <2>1, <2>2, <2>3, SaleLeaves DEF Covered, Dec
<1>2. CASE side \in [virtual : U64, real : U64]
  <2>1. side.real \in Nat /\ "total" \notin DOMAIN side
    BY <1>2 DEF U64
  <2>2. Owed(side) = 0 /\ Held(side) = side.real
    BY <2>1 DEF Owed, Held
  <2>3. ReserveOf(side, dec) = Dec(side.real, dec)
    BY <2>1 DEF ReserveOf, FromU64
  <2>4. QED
    BY <2>1, <2>2, <2>3 DEF Covered, Dec
<1>3. QED
  BY <1>1, <1>2

----------------------------------------------------------------------------
(* The accounts of each protocol.                                          *)

\* The parts of what a pool may hold.
LEMMA PartsOf ==
  ASSUME NEW A, NEW B, NEW P, NEW x \in Pools(A, B, P)
  PROVE  /\ x.a \in A /\ x.b \in B /\ x.price \in P
         /\ x.decA \in Places /\ x.decB \in Places
BY DEF Pools

\* The amounts are words, the decimals of mints and the clock are in range.
LEMMA AccountsOf ==
  ASSUME proto \in Protocol, pool \in PoolStates[proto]
  PROVE  /\ proto \in {"pumpswap", "dbc", "dlmm"} =>
              pool.a \in [held : U64] /\ pool.b \in [held : U64]
         /\ proto \in {"cpmm", "clmm"} =>
              pool.a \in [held : U64, fee : U64, fund : U64] /\ pool.b \in [held : U64]
         /\ proto = "liquidity_v4" =>
              pool.a \in [held : U64, orders : U64, pnl : U64] /\ pool.b \in [held : U64]
         /\ proto \in {"damm_v2", "whirlpool"} =>
              pool.a \in [held : U64, fee : U64] /\ pool.b \in [held : U64]
         /\ proto = "damm_v1" => /\ pool.a \in VaultSides /\ pool.b \in [held : U64]
                                 /\ pool.clock \in Time
                                 /\ pool.decA \in FewA /\ pool.decB \in FewB
         /\ proto = "launchpad" =>
              /\ pool.a \in [total : U64, virtual : U64, real : U64]
              /\ pool.b \in [virtual : U64, real : U64]
              /\ pool.price \in {"constant", "fixed", "linear", "other"}
         /\ proto = "bonding_curve" =>
              /\ pool.a \in [virtual : U64, real : U64, total : U64]
              /\ pool.b \in [virtual : U64, real : U64]
              /\ pool.decA \in FewA /\ pool.decB \in FewB
         /\ proto \in {"damm_v2", "whirlpool", "dbc", "clmm"} => pool.price \in SqrtPrice
         /\ proto = "dlmm" => pool.price \in BinPrice
         /\ proto \notin {"damm_v1", "bonding_curve"} =>
              pool.decA \in Places /\ pool.decB \in Places
<1>1. /\ Balance(Amount) \subseteq [held : U64]
      /\ Balance(QuoteAmount) \subseteq [held : U64]
      /\ WithFee(Amount) \subseteq [held : U64, fee : U64]
      /\ WithFees(Amount) \subseteq [held : U64, fee : U64, fund : U64]
      /\ WithOrders(Amount) \subseteq [held : U64, orders : U64, pnl : U64]
      /\ VirtualPools \subseteq [virtual : U64, real : U64]
  BY AmountAssumption
     DEF Balance, WithFee, WithFees, WithOrders, VirtualPools
<1>2. CASE proto \in {"pumpswap", "dbc", "dlmm"}
  <2>1. PICK P : pool \in Pools(Balance(Amount), Balance(QuoteAmount), P)
                 /\ (proto = "dbc" => P = SqrtPrice)
                 /\ (proto = "dlmm" => P = BinPrice)
    BY <1>2 DEF PoolStates
  <2>2. QED
    BY ONLY <1>1, <1>2, <2>1, PartsOf
<1>3. CASE proto \in {"cpmm", "clmm"}
  <2>1. PICK P : pool \in Pools(WithFees(Amount), Balance(QuoteAmount), P)
                 /\ (proto = "clmm" => P = SqrtPrice)
    BY <1>3 DEF PoolStates
  <2>2. QED
    BY ONLY <1>1, <1>3, <2>1, PartsOf
<1>4. CASE proto = "liquidity_v4"
  <2>1. pool \in Pools(WithOrders(Amount), Balance(QuoteAmount), {0})
    BY <1>4 DEF PoolStates
  <2>2. QED
    BY ONLY <1>1, <1>4, <2>1, PartsOf
<1>5. CASE proto \in {"damm_v2", "whirlpool"}
  <2>1. pool \in Pools(WithFee(Amount), Balance(QuoteAmount), SqrtPrice)
    BY <1>5 DEF PoolStates
  <2>2. QED
    BY ONLY <1>1, <1>5, <2>1, PartsOf
<1>6. CASE proto = "damm_v1"
  <2>1. pool \in [a : VaultShare(Amount, Amount), b : Balance(QuoteAmount),
                  decA : FewA, decB : FewB, price : {0}, clock : Time]
    BY <1>6 DEF PoolStates
  <2>2. VaultShare(Amount, Amount) \subseteq VaultSides
    BY AmountAssumption, TimeAssumption DEF VaultShare, VaultSides
  <2>3. QED
    BY ONLY <1>1, <1>6, <2>1, <2>2
<1>7. CASE proto = "launchpad"
  <2>1. pool \in Pools([total : Amount, virtual : Amount, real : Amount],
                       VirtualPools, {"constant", "fixed", "linear", "other"})
    BY <1>7 DEF PoolStates
  <2>2. [total : Amount, virtual : Amount, real : Amount]
          \subseteq [total : U64, virtual : U64, real : U64]
    BY AmountAssumption
  <2>3. QED
    BY ONLY <1>1, <1>7, <2>1, <2>2, PartsOf
<1>8. CASE proto = "bonding_curve"
  <2>1. pool \in [a : [virtual : Amount, real : Amount, total : Amount],
                  b : VirtualPools, decA : FewA, decB : FewB, price : {0}, clock : {0}]
    BY <1>8 DEF PoolStates
  <2>2. [virtual : Amount, real : Amount, total : Amount]
          \subseteq [virtual : U64, real : U64, total : U64]
    BY AmountAssumption
  <2>3. QED
    BY ONLY <1>1, <1>8, <2>1, <2>2
<1>9. QED
  BY <1>2, <1>3, <1>4, <1>5, <1>6, <1>7, <1>8, ProtocolAssumption

\* The decimals of a mint are a number.
LEMMA DecimalsOf ==
  ASSUME proto \in Protocol, pool \in PoolStates[proto]
  PROVE  pool.decA \in Nat /\ pool.decB \in Nat
<1>1. pool.decA \in Places \cup FewA \cup FewB /\ pool.decB \in Places \cup FewA \cup FewB
  BY AccountsOf
<1>2. QED
  BY <1>1, PlacesAssumption, Zenon

\* A reserve never wraps or holds what is not its own, on either side.
LEMMA SidesCovered ==
  ASSUME proto \in Protocol, pool \in PoolStates[proto],
         proto # "bonding_curve", Representable, SupplyCoversShare
  PROVE  Covered(pool.a, pool.decA) /\ Covered(pool.b, pool.decB)
<1>1. pool.decA \in Nat /\ pool.decB \in Nat
  BY DecimalsOf
<1>2. CASE proto \in {"pumpswap", "dbc", "dlmm"}
  BY <1>1, <1>2, AccountsOf, PlainSide DEF Representable
<1>3. CASE proto \in {"cpmm", "clmm"}
  BY <1>1, <1>3, AccountsOf, PlainSide, FeesSide
<1>4. CASE proto = "liquidity_v4"
  BY <1>1, <1>4, AccountsOf, PlainSide, OrdersSide
<1>5. CASE proto \in {"damm_v2", "whirlpool"}
  BY <1>1, <1>5, AccountsOf, PlainSide, FeeSide
<1>6. CASE proto = "damm_v1"
  <2>1. /\ pool.a \in VaultSides /\ pool.b \in [held : U64]
        /\ pool.a.share <= pool.a.supply
    BY <1>6, AccountsOf DEF SupplyCoversShare
  <2>2. pool.clock \in Int /\ pool.clock < Word
    <3>1. \A t \in -Word .. Word - 1 : t \in Int /\ t < Word
      BY WordAssumption
    <3>2. pool.clock \in Time
      BY <1>6, AccountsOf
    <3>3. pool.clock \in -Word .. Word - 1
      BY <3>2, TimeAssumption, Zenon
    <3>4. QED
      BY <3>1, <3>3
  <2>3. Covered(pool.a, pool.decA)
    BY <1>1, <1>6, <2>1, <2>2, VaultSide
  <2>4. Covered(pool.b, pool.decB)
    BY <1>1, <1>6, <2>1, PlainSide
  <2>5. QED
    BY <2>3, <2>4
<1>7. CASE proto = "launchpad"
  BY <1>1, <1>7, AccountsOf, LaunchpadSide
<1>8. QED
  BY <1>2, <1>3, <1>4, <1>5, <1>6, <1>7, ProtocolAssumption

----------------------------------------------------------------------------
(* Divisions.                                                              *)

\* A quotient of decimals is one unless the divisor is zero.
LEMMA QuotientIsNumber ==
  ASSUME NEW a, NEW b, IsNumber(a), IsNumber(b), b.n # 0
  PROVE  IsNumber(Over(a, b))
<1>1. a # Panic /\ b # Panic /\ ~IsZero(b)
  BY Numbers DEF IsZero
<1>2. \E n : Over(a, b) = Dec(n, Precision)
  BY <1>1 DEF Over
<1>3. QED
  BY <1>2, Numbers

\* Shifting a decimal gives a decimal.
LEMMA ShiftIsNumber ==
  ASSUME NEW a, IsNumber(a), NEW places
  PROVE  IsNumber(Shift(a, places))
BY Numbers DEF Shift

\* Every reserve is a decimal: no reserve is found by dividing.
LEMMA ReserveIsNumber ==
  ASSUME proto \in Protocol, proto # "bonding_curve", NEW side, NEW dec
  PROVE  IsNumber(ReserveOf(side, dec))
<1>1. CASE proto = "pumpswap"
  BY <1>1, Numbers, ShiftIsNumber DEF ReserveOf
<1>2. CASE proto = "liquidity_v4"
  BY <1>2, Numbers DEF ReserveOf, OpenOrdersReserve, Minus, Plus
<1>3. CASE proto \in {"cpmm", "clmm"}
  BY <1>3, Numbers DEF ReserveOf, FromU64
<1>4. CASE proto \in {"damm_v2", "whirlpool"}
  BY <1>4, Numbers DEF ReserveOf, FromU64
<1>5. CASE proto \in {"damm_v1", "launchpad"}
  BY <1>5, Numbers DEF ReserveOf, FromU64
<1>6. CASE proto \in {"dbc", "dlmm"}
  BY <1>6, Numbers DEF ReserveOf, FromU64
<1>7. QED
  BY <1>1, <1>2, <1>3, <1>4, <1>5, <1>6, ProtocolAssumption

\* The square root price of 1 is not zero, and nor is its square.
LEMMA SquareOfOne == TwoPow128.n # 0 /\ IsNumber(TwoPow128)
<1>1. SqrtOne * SqrtOne # 0
  BY SqrtAssumption
<1>2. QED
  BY <1>1, Numbers DEF TwoPow128

\* A quotient of reserves is only formed when neither is zero.
LEMMA RatioIsNumber ==
  ASSUME IsNumber(reserves.a), IsNumber(reserves.b)
  PROVE  IsNumber(Ratio)
BY Numbers, QuotientIsNumber DEF Ratio, IsZero

\* The square of a price is divided by a constant that is not zero.
LEMMA FromSqrtIsNumber == IsNumber(FromSqrt)
<1>1. IsNumber(Squared)
  BY Numbers DEF Squared
<1>2. IsNumber(Over(Squared, TwoPow128))
  BY <1>1, SquareOfOne, QuotientIsNumber
<1>3. QED
  BY <1>2, Numbers, ShiftIsNumber DEF FromSqrt

\* Raydium CLMM divides by the square of the price, tested before, and by the
\* rounded quotient, tested after.
LEMMA FromInverseSqrtIsNumber ==
  ASSUME pool.price \in Nat
  PROVE  IsNumber(FromInverseSqrt)
<1>1. CASE pool.price <= 0
  BY <1>1, Numbers DEF FromInverseSqrt
<1>2. CASE pool.price > 0
  <2> DEFINE first == Shift(Over(TwoPow128, Squared), pool.decB - pool.decA)
  <2>1. pool.price * pool.price # 0
    BY <1>2
  <2>2. IsNumber(Squared) /\ Squared.n # 0
    BY <2>1, Numbers DEF Squared
  <2>3. IsNumber(first)
    BY <2>2, SquareOfOne, QuotientIsNumber, ShiftIsNumber
  <2> HIDE DEF first
  <2>4. FromInverseSqrt = IF IsZero(first) THEN Zero ELSE Over(One, first)
    BY <1>2 DEF FromInverseSqrt, first
  <2>5. IsZero(first) \/ first.n # 0
    BY <2>3, Numbers DEF IsZero
  <2>6. QED
    BY <2>3, <2>4, <2>5, Numbers, QuotientIsNumber DEF IsZero
<1>3. QED
  BY <1>1, <1>2

\* The curves of Raydium Launchpad divide by a base reserve that is tested.
LEMMA FromCurveIsNumber ==
  ASSUME pool.a.virtual \in U64, pool.a.real \in U64,
         pool.price \in {"constant", "fixed", "linear"}
  PROVE  IsNumber(FromCurve)
<1>1. CASE pool.price = "constant"
  <2> DEFINE num == Dec(pool.b.virtual + pool.b.real, pool.decB)
             den == FromU64(Sub64(pool.a.virtual, pool.a.real), pool.decA)
  <2>1. FromCurve = IF pool.a.virtual <= pool.a.real THEN Zero ELSE Over(num, den)
    BY <1>1 DEF FromCurve
  <2>2. pool.a.virtual > pool.a.real
          => Sub64(pool.a.virtual, pool.a.real) = pool.a.virtual - pool.a.real
    BY NoWrap DEF U64
  <2>3. pool.a.virtual > pool.a.real => den.n # 0
    BY <2>2, Numbers DEF U64, FromU64
  <2>4. IsNumber(num) /\ IsNumber(den)
    BY Numbers DEF FromU64
  <2> HIDE DEF num, den
  <2>5. pool.a.virtual \in Int /\ pool.a.real \in Int
    BY DEF U64
  <2>6. QED
    BY <2>1, <2>3, <2>4, <2>5, Numbers, QuotientIsNumber
<1>2. CASE pool.price = "fixed"
  <2> DEFINE num == Dec(pool.b.virtual, pool.decB)
             den == FromU64(pool.a.virtual, pool.decA)
  <2>1. FromCurve = IF pool.a.virtual = 0 THEN Zero ELSE Over(num, den)
    BY <1>2 DEF FromCurve
  <2>2. IsNumber(num) /\ IsNumber(den) /\ den.n = pool.a.virtual
    BY Numbers DEF FromU64
  <2> HIDE DEF num, den
  <2>3. QED
    BY <2>1, <2>2, Numbers, QuotientIsNumber
<1>3. CASE pool.price = "linear"
  <2> DEFINE num == Dec(pool.a.virtual * pool.a.real, 0)
             den == Dec(SqrtOne, 0)
  <2>1. FromCurve = IF pool.a.virtual = 0 \/ pool.a.real = 0 THEN Zero
                    ELSE Shift(Over(num, den), pool.decA - pool.decB)
    BY <1>3 DEF FromCurve
  <2>2. IsNumber(num) /\ IsNumber(den) /\ den.n # 0
    BY Numbers, SqrtAssumption
  <2> HIDE DEF num, den
  <2>3. IsNumber(Over(num, den))
    BY <2>2, QuotientIsNumber
  <2>4. QED
    BY <2>1, <2>3, Numbers, ShiftIsNumber
<1>4. QED
  BY <1>1, <1>2, <1>3

\* No price of a pool divides by zero, whatever its accounts hold: not after the
\* guards of its calculator, and not after the rounding of a first quotient.
LEMMA PricesAreNumbers ==
  ASSUME proto \in Protocol, pool \in PoolStates[proto], proto # "bonding_curve",
         proto = "launchpad" => pool.price # "other",
         IsNumber(reserves.a), IsNumber(reserves.b)
  PROVE  IsNumber(PriceOfMintAInMintB)
<1>1. CASE proto \in ByRatio
  BY <1>1, RatioIsNumber DEF PriceOfMintAInMintB, ByRatio, BySqrt
<1>2. CASE proto \in BySqrt
  BY <1>2, FromSqrtIsNumber DEF PriceOfMintAInMintB, ByRatio, BySqrt
<1>3. CASE proto = "clmm"
  <2>1. pool.price \in Nat
    BY <1>3, AccountsOf, SqrtAssumption
  <2>2. QED
    BY <1>3, <2>1, FromInverseSqrtIsNumber DEF PriceOfMintAInMintB, ByRatio, BySqrt
<1>4. CASE proto = "dlmm"
  <2>1. IsNumber(FromBin)
    BY Numbers, ShiftIsNumber DEF FromBin
  <2>2. QED
    BY <1>4, <2>1 DEF PriceOfMintAInMintB, ByRatio, BySqrt
<1>5. CASE proto = "launchpad"
  <2>1. /\ pool.a.virtual \in U64 /\ pool.a.real \in U64
        /\ pool.price \in {"constant", "fixed", "linear"}
    BY <1>5, AccountsOf
  <2>2. QED
    BY <1>5, <2>1, FromCurveIsNumber DEF PriceOfMintAInMintB, ByRatio, BySqrt
<1>6. QED
  BY <1>1, <1>2, <1>3, <1>4, <1>5, ProtocolAssumption DEF ByRatio, BySqrt

\* Nor do the two quotients of a bonding curve.
LEMMA CurveIsNumber ==
  ASSUME NEW l
  PROVE  CurvePrice # Panic /\ PairMetrics(CurvePrice, l).inB # Panic
<1>1. IsNumber(CurvePrice)
  BY Numbers, QuotientIsNumber DEF CurvePrice, FromU64
<1>2. CurvePrice.n > 0 => IsNumber(Over(One, CurvePrice))
  BY <1>1, Numbers, QuotientIsNumber
<1>3. IsNumber(PairMetrics(CurvePrice, l).inB)
  BY <1>1, <1>2, Numbers DEF PairMetrics
<1>4. QED
  BY <1>1, <1>3, Numbers

----------------------------------------------------------------------------
(* How accurate quotients are.                                             *)

\* A quotient keeps Precision places, is off by half of its divisor at most, and
\* is not negative if its operands are not.
LEMMA OverValue ==
  ASSUME NEW a, NEW b, IsDec(a), IsDec(b), b.n # 0,
         NEW places, places = Precision + b.e - a.e
  PROVE  /\ IsDec(Over(a, b)) /\ Over(a, b).e = Precision
         /\ a.n >= 0 /\ b.n > 0 => Over(a, b).n >= 0
         /\ 2 * Abs(Over(a, b).n * (b.n * Raised(-places)) - a.n * Raised(places))
              <= Abs(b.n * Raised(-places))
<1>1. /\ places \in Int /\ a.n \in Int /\ b.n \in Int /\ Precision \in Int
      /\ ~IsZero(b) /\ a # Panic /\ b # Panic
  BY PrecisionAssumption, DecType DEF IsDec, IsZero
<1> DEFINE num == a.n * Raised(places)
           den == b.n * Raised(-places)
<1>2. Over(a, b) = Dec(Round(num, den), Precision)
  <2>1. Over(a, b) = Dec(IF places >= 0 THEN Round(a.n * Power[places], b.n)
                                        ELSE Round(a.n, b.n * Power[-places]), Precision)
    BY <1>1 DEF Over
  <2>2. CASE places >= 0
    <3>1. Raised(places) = Power[places] /\ Raised(-places) = 1
      BY <1>1, <2>2, PowerStep DEF Raised, Larger
    <3>2. den = b.n
      BY <1>1, <3>1
    <3>3. QED
      BY <2>1, <2>2, <3>1, <3>2
  <2>3. CASE ~(places >= 0)
    <3>1. Raised(places) = 1 /\ Raised(-places) = Power[-places]
      BY <1>1, <2>3, PowerStep DEF Raised, Larger
    <3>2. num = a.n
      BY <1>1, <3>1
    <3>3. QED
      BY <2>1, <2>3, <3>1, <3>2
  <2>4. QED
    BY <2>2, <2>3
<1>3. Raised(places) \in Nat \ {0} /\ Raised(-places) \in Nat \ {0}
  BY <1>1, RaisedType
<1>4. /\ num \in Int /\ den \in Int /\ den # 0
      /\ (a.n >= 0 => num >= 0) /\ (b.n > 0 => den > 0)
  BY <1>1, <1>3
<1> HIDE DEF num, den
<1> DEFINE q == Over(a, b)
<1> HIDE DEF q
<1>5. /\ Round(num, den) \in Int
      /\ 2 * Abs(Round(num, den) * den - num) <= Abs(den)
      /\ num >= 0 /\ den > 0 => Round(num, den) >= 0
  BY <1>4, Rounded
<1>6. IsDec(q) /\ q.e = Precision /\ q.n = Round(num, den)
  BY <1>1, <1>2, <1>5, DecType DEF q
<1>7. QED
  BY <1>4, <1>5, <1>6 DEF num, den, q

\* A shift keeps the coefficient.
LEMMA ShiftValue ==
  ASSUME NEW d, IsDec(d), NEW places \in Int
  PROVE  /\ IsDec(Shift(d, places))
         /\ Shift(d, places).n = d.n /\ Shift(d, places).e = d.e - places
<1>1. Shift(d, places) = Dec(d.n, d.e - places)
  BY DecType DEF Shift
<1>2. d.n \in Int /\ d.e - places \in Int
  BY DEF IsDec
<1>3. QED
  BY <1>1, <1>2, DecType

\* The factor of an absolute value.
LEMMA AbsScale ==
  ASSUME NEW x \in Int, NEW c \in Nat
  PROVE  Abs(x * c) = Abs(x) * c /\ Abs(x) \in Nat
<1>1. CASE x >= 0
  <2>1. x * c \in Nat
    BY <1>1
  <2>2. Abs(x * c) = x * c /\ Abs(x) = x
    BY <1>1, <2>1 DEF Abs, Larger
  <2>3. QED
    BY <1>1, <2>2
<1>2. CASE x < 0
  <2>1. (-x) * c \in Nat /\ x * c = -((-x) * c)
    BY <1>2
  <2>2. Abs(x * c) = (-x) * c /\ Abs(x) = -x
    BY <1>2, <2>1 DEF Abs, Larger
  <2>3. QED
    BY <1>2, <2>2
<1>3. QED
  BY <1>1, <1>2

\* A quotient that is off by half of its divisor is so in other units of the same
\* proportion, too.
LEMMA InUnits ==
  ASSUME NEW q \in Int, NEW num \in Int, NEW den \in Int,
         NEW u \in Nat \ {0}, NEW v \in Nat, NEW b \in Nat, NEW a \in Nat, b * v = u * a,
         2 * Abs(q * (den * u) - num * v) <= Abs(den * u)
  PROVE  2 * Abs(q * (den * b) - num * a) <= Abs(den * b)
<1> DEFINE x == q * (den * u) - num * v
           y == q * (den * b) - num * a
           d == den * u
           f == den * b
<1>1. x \in Int /\ y \in Int /\ d \in Int /\ f \in Int
  OBVIOUS
<1>2. x * b = y * u /\ d * b = f * u
  <2>1. /\ x * b = (q * (den * u)) * b - (num * v) * b
        /\ y * u = (q * (den * b)) * u - (num * a) * u
    OBVIOUS
  <2>2. (q * (den * u)) * b = (q * (den * b)) * u /\ (den * u) * b = (den * b) * u
    OBVIOUS
  <2>3. (num * v) * b = num * (b * v) /\ (num * a) * u = num * (u * a)
    OBVIOUS
  <2>4. QED
    BY <2>1, <2>2, <2>3
<1> HIDE DEF x, y, d, f
<1>3. /\ Abs(x * b) = Abs(x) * b /\ Abs(x) \in Nat
      /\ Abs(y * u) = Abs(y) * u /\ Abs(y) \in Nat
      /\ Abs(d * b) = Abs(d) * b /\ Abs(d) \in Nat
      /\ Abs(f * u) = Abs(f) * u /\ Abs(f) \in Nat
  BY <1>1, AbsScale
<1>4. 2 * Abs(x) <= Abs(d)
  BY DEF x, d
<1>5. (2 * Abs(x)) * b <= Abs(d) * b
  BY <1>3, <1>4, Product
<1>6. (2 * Abs(y)) * u <= Abs(f) * u
  <2>1. (2 * Abs(x)) * b = 2 * (Abs(x) * b) /\ (2 * Abs(y)) * u = 2 * (Abs(y) * u)
    BY <1>3
  <2>2. QED
    BY <1>2, <1>3, <1>5, <2>1
<1>7. ~(Abs(f) < 2 * Abs(y))
  <2>1. 2 * Abs(y) \in Int /\ Abs(f) \in Int
    BY <1>3
  <2>2. Abs(f) < 2 * Abs(y) => Abs(f) * u < (2 * Abs(y)) * u
    BY <2>1, Scaling
  <2>3. Abs(f) * u \in Int /\ (2 * Abs(y)) * u \in Int
    BY <2>1
  <2>4. QED
    BY <1>6, <2>2, <2>3
<1>8. QED
  BY <1>3, <1>7 DEF y, f

\* A price p is num / den in whole tokens, to half a unit of its last place.
Accurate(p, num, den) ==
  2 * Abs(p.n * (den * Raised(-p.e)) - num * Raised(p.e)) <= Abs(den * Raised(-p.e))

\* The two ways a price is found from whole numbers: the quotient of decimals, and
\* the quotient of integers shifted by the decimals.
LEMMA QuotientOfDecimals ==
  ASSUME NEW x, NEW y, IsDec(x), IsDec(y), y.n # 0, x.e \in Nat, y.e \in Nat,
         NEW q, q = Over(x, y)
  PROVE  /\ IsDec(q) /\ q.e = Precision
         /\ x.n >= 0 /\ y.n > 0 => q.n >= 0
         /\ \A i, j \in Nat : i - j = Precision + y.e - x.e =>
              2 * Abs(q.n * (y.n * Power[j]) - x.n * Power[i]) <= Abs(y.n * Power[j])
         /\ Accurate(q, x.n * Power[y.e], y.n * Power[x.e])
<1> DEFINE places == Precision + y.e - x.e
<1>1. /\ x.e \in Nat /\ y.e \in Nat /\ Precision \in Nat /\ places \in Int
      /\ -places \in Int /\ y.e + Precision \in Nat
  BY PrecisionAssumption
<1>2. /\ IsDec(q) /\ q.e = Precision
      /\ x.n >= 0 /\ y.n > 0 => q.n >= 0
      /\ 2 * Abs(q.n * (y.n * Raised(-places)) - x.n * Raised(places))
           <= Abs(y.n * Raised(-places))
  BY OverValue
<1>3. q.n \in Int /\ x.n \in Int /\ y.n \in Int
  BY <1>2 DEF IsDec
<1>4. ASSUME NEW i \in Nat, NEW j \in Nat, i - j = places
      PROVE  2 * Abs(q.n * (y.n * Power[j]) - x.n * Power[i]) <= Abs(y.n * Power[j])
  <2> DEFINE u == Raised(-places)
             v == Raised(places)
             b == Power[j]
             a == Power[i]
             r == q.n
             num == x.n
             den == y.n
  <2>1. /\ u \in Nat \ {0} /\ v \in Nat /\ b \in Nat /\ a \in Nat
        /\ r \in Int /\ num \in Int /\ den \in Int
        /\ 2 * Abs(r * (den * u) - num * v) <= Abs(den * u)
    BY <1>1, <1>2, <1>3, RaisedType, PowerType
  <2>2. v * b = u * a
    <3>1. Raised(i - j) * Power[j] = Raised(j - i) * Power[i]
      BY Balanced
    <3>2. j - i = -places
      BY <1>4
    <3>3. QED
      BY <1>4, <3>1, <3>2
  <2> HIDE DEF u, v, b, a, r, num, den
  <2>3. b * v = u * a
    BY ONLY <2>1, <2>2
  <2>4. 2 * Abs(r * (den * b) - num * a) <= Abs(den * b)
    BY ONLY <2>1, <2>3, InUnits
  <2>5. QED
    BY <2>4 DEF b, a, r, num, den
<1>5. Accurate(q, x.n * Power[y.e], y.n * Power[x.e])
  <2>1. (y.e + Precision) - x.e = places
    BY <1>1
  <2>2. 2 * Abs(q.n * (y.n * Power[x.e]) - x.n * Power[y.e + Precision])
          <= Abs(y.n * Power[x.e])
    BY <1>1, <1>4, <2>1
  <2>3. Raised(-q.e) = 1 /\ Raised(q.e) = Power[Precision]
    <3>1. Larger(-q.e, 0) = 0 /\ Larger(q.e, 0) = Precision
      BY <1>1, <1>2 DEF Larger
    <3>2. QED
      BY <3>1, PowerStep DEF Raised
  <2>4. /\ Power[y.e] \in Nat /\ Power[Precision] \in Nat /\ Power[x.e] \in Nat
        /\ Power[y.e + Precision] = Power[y.e] * Power[Precision]
    BY <1>1, PowerType, PowerSum
  <2>5. /\ x.n * Power[y.e + Precision] = (x.n * Power[y.e]) * Power[Precision]
        /\ (y.n * Power[x.e]) * 1 = y.n * Power[x.e]
    BY <1>3, <2>4
  <2>6. QED
    BY <2>2, <2>3, <2>5 DEF Accurate
<1>6. QED
  BY <1>2, <1>4, <1>5

LEMMA ShiftedQuotient ==
  ASSUME NEW num \in Int, NEW den \in Int, den # 0, NEW a \in Nat, NEW b \in Nat,
         NEW q, q = Shift(Over(Dec(num, 0), Dec(den, 0)), a - b)
  PROVE  /\ IsDec(q)
         /\ num >= 0 /\ den > 0 => q.n >= 0
         /\ Accurate(q, num * Power[a], den * Power[b])
<1> DEFINE o == Over(Dec(num, 0), Dec(den, 0))
           e == Precision - (a - b)
<1>1. /\ Precision \in Nat /\ Precision \in Int /\ a - b \in Int /\ e \in Int /\ -e \in Int
      /\ Precision + b \in Nat /\ (Precision + b) - a = e /\ a - (Precision + b) = -e
  BY PrecisionAssumption
<1>2. /\ IsDec(Dec(num, 0)) /\ Dec(num, 0).n = num /\ Dec(num, 0).e = 0
      /\ IsDec(Dec(den, 0)) /\ Dec(den, 0).n = den /\ Dec(den, 0).e = 0
  BY DecType
<1>3. /\ IsDec(o) /\ o.e = Precision
      /\ num >= 0 /\ den > 0 => o.n >= 0
      /\ 2 * Abs(o.n * (den * Power[0]) - num * Power[Precision]) <= Abs(den * Power[0])
  <2>1. Precision - 0 = Precision + 0 - 0 /\ 0 \in Nat
    BY <1>1
  <2>2. QED
    BY <1>1, <1>2, <2>1, QuotientOfDecimals
<1> HIDE DEF o
<1>4. IsDec(q) /\ q.n = o.n /\ q.e = e
  BY <1>1, <1>3, ShiftValue DEF o
<1> DEFINE v == Power[Precision]
           w == Power[b] * Raised(-e)
           z == Power[a] * Raised(e)
           r == o.n
<1>5. /\ Power[a] \in Nat /\ Power[b] \in Nat /\ v \in Nat
      /\ Raised(e) \in Nat /\ Raised(-e) \in Nat /\ r \in Int
  BY <1>1, <1>3, PowerType, RaisedType DEF IsDec
<1>6. w \in Nat /\ z \in Nat /\ w * v = 1 * z
  <2>1. Raised(e) * Power[a] = Raised(-e) * Power[Precision + b]
    BY <1>1, Balanced
  <2>2. Power[Precision + b] = v * Power[b]
    BY <1>1, PowerSum
  <2>3. (Power[b] * Raised(-e)) * v = Raised(-e) * (v * Power[b])
    BY <1>5
  <2>4. QED
    BY <1>5, <2>1, <2>2, <2>3
<1>7. 2 * Abs(r * (den * 1) - num * v) <= Abs(den * 1)
  BY <1>3, PowerStep
<1>8. /\ (den * Power[b]) * Raised(-e) = den * w
      /\ (num * Power[a]) * Raised(e) = num * z
  BY <1>5
<1> HIDE DEF e, v, w, z, r
<1>9. 1 \in Nat \ {0}
  OBVIOUS
<1>10. 2 * Abs(r * (den * w) - num * z) <= Abs(den * w)
  BY ONLY num \in Int, den \in Int, <1>5, <1>6, <1>7, <1>9, InUnits
<1>11. Accurate(q, num * Power[a], den * Power[b])
  BY <1>4, <1>8, <1>10 DEF Accurate, r
<1>12. QED
  BY <1>3, <1>4, <1>11

----------------------------------------------------------------------------
(* Reserves as decimals.                                                   *)

\* A reserve is a number in the decimals of its mint, not negative unless
\* pumpswap_amm's conversion through int64 made it so.
NumberedReserve(side, dec) ==
  LET reserve == ReserveOf(side, dec)
  IN /\ IsDec(reserve) /\ (reserve.n = 0 \/ reserve.e = dec)
     /\ (proto = "pumpswap" => side.held < Word \div 2) => reserve.n >= 0

\* The sides that are a balance and what is deducted from it.
BalanceSides == [held : U64] \cup [held : U64, fee : U64]
                  \cup [held : U64, fee : U64, fund : U64]
                  \cup [held : U64, orders : U64, pnl : U64]

LEMMA Deductions ==
  ASSUME NEW side \in BalanceSides
  PROVE  /\ side.held \in U64
         /\ \A name \in {"fee", "fund", "orders", "pnl"} : Deduction(side, name) \in U64
<1>1. 0 \in U64
  BY WordAssumption DEF U64
<1>2. CASE side \in [held : U64]
  BY <1>1, <1>2 DEF Deduction
<1>3. CASE side \in [held : U64, fee : U64]
  BY <1>1, <1>3 DEF Deduction
<1>4. CASE side \in [held : U64, fee : U64, fund : U64]
  BY <1>1, <1>4 DEF Deduction
<1>5. CASE side \in [held : U64, orders : U64, pnl : U64]
  BY <1>1, <1>5 DEF Deduction
<1>6. QED
  BY <1>2, <1>3, <1>4, <1>5 DEF BalanceSides

\* An amount in the decimals of its mint.
LEMMA AmountNumbered ==
  ASSUME NEW side, NEW dec \in Int, NEW n \in Nat, ReserveOf(side, dec) = Dec(n, dec)
  PROVE  NumberedReserve(side, dec)
BY DecType DEF NumberedReserve

LEMMA BalanceNumbered ==
  ASSUME NEW side \in BalanceSides, NEW dec \in Int,
         proto \in {"pumpswap", "cpmm", "clmm", "liquidity_v4", "damm_v2",
                    "whirlpool", "dbc", "dlmm"}
  PROVE  NumberedReserve(side, dec)
<1>1. /\ side.held \in U64 /\ Deduction(side, "fee") \in U64
      /\ Deduction(side, "fund") \in U64
      /\ Deduction(side, "orders") \in Int /\ Deduction(side, "pnl") \in Int
      /\ side.held \in Nat
  BY Deductions DEF U64
<1>2. CASE proto = "pumpswap"
  <2> DEFINE n == Int64(side.held)
  <2>1. n \in Int /\ (side.held < Word \div 2 => n >= 0)
    BY <1>1, WordAssumption DEF Int64
  <2>2. ReserveOf(side, dec) = Shift(Dec(n, 0), -dec)
    BY <1>2 DEF ReserveOf
  <2> HIDE DEF n
  <2>3. dec = 0 - (-dec)
    OBVIOUS
  <2>4. ReserveOf(side, dec) = Dec(n, dec)
    BY <2>2, <2>3, Shifted
  <2>5. QED
    BY <1>2, <2>1, <2>4, DecType DEF NumberedReserve
<1>3. CASE proto \in {"cpmm", "clmm"}
  <2> DEFINE n == SubtractFees(side.held, Deduction(side, "fee"), Deduction(side, "fund"))
  <2>1. n \in Nat
    BY <1>1, FeesLeave
  <2>2. ReserveOf(side, dec) = Dec(n, dec)
    BY <1>3 DEF ReserveOf, FromU64
  <2> HIDE DEF n
  <2>3. QED
    BY <2>1, <2>2, AmountNumbered
<1>4. CASE proto \in {"damm_v2", "whirlpool"}
  <2> DEFINE n == SubtractProtocolFee(side.held, Deduction(side, "fee"))
  <2>1. n \in Nat
    BY <1>1, FeeLeaves
  <2>2. ReserveOf(side, dec) = Dec(n, dec)
    BY <1>4 DEF ReserveOf, FromU64
  <2> HIDE DEF n
  <2>3. QED
    BY <2>1, <2>2, AmountNumbered
<1>5. CASE proto = "liquidity_v4"
  <2> DEFINE orders == Deduction(side, "orders")
             pnl == Deduction(side, "pnl")
             both == side.held + orders
             left == both - pnl
  <2>1. /\ side.held \in Int /\ orders \in Int /\ pnl \in Int
        /\ both \in Int /\ left \in Int /\ both = side.held + orders /\ left = both - pnl
    BY <1>1
  <2> HIDE DEF both, left, orders, pnl
  <2>2. \A m, n \in Int : /\ Plus(Dec(m, dec), Dec(n, dec)) = Dec(m + n, dec)
                          /\ Minus(Dec(m, dec), Dec(n, dec)) = Dec(m - n, dec)
    BY Sums
  <2>3. /\ Plus(Dec(side.held, dec), Dec(orders, dec)) = Dec(both, dec)
        /\ Minus(Dec(both, dec), Dec(pnl, dec)) = Dec(left, dec)
    BY <2>1, <2>2
  <2>4. ReserveOf(side, dec) = IF left < 0 THEN Zero ELSE Dec(left, dec)
    <3>1. Dec(left, dec).n = left
      BY Numbers
    <3>2. ReserveOf(side, dec) = OpenOrdersReserve(side, dec)
      BY <1>5 DEF ReserveOf
    <3>3. QED
      BY <2>3, <3>1, <3>2 DEF OpenOrdersReserve, FromU64, orders, pnl
  <2>5. QED
    BY <1>5, <2>1, <2>4, DecType DEF NumberedReserve
<1>6. CASE proto \in {"dbc", "dlmm"}
  <2>1. ReserveOf(side, dec) = Dec(side.held, dec)
    BY <1>6 DEF ReserveOf, FromU64
  <2>2. QED
    BY <1>1, <2>1, AmountNumbered
<1>7. QED
  BY <1>2, <1>3, <1>4, <1>5, <1>6

\* Both sides of a DAMM v1 pool, also when its shares are more than the supply.
LEMMA VaultNumbered ==
  ASSUME NEW side \in VaultSides \cup [held : U64], NEW dec \in Int, proto = "damm_v1",
         pool.clock \in Time
  PROVE  NumberedReserve(side, dec)
<1> DEFINE n == ShareReserve(side, pool.clock)
<1>1. n \in Nat
  <2>1. CASE side \in [held : U64]
    BY <2>1 DEF ShareReserve, U64
  <2>2. CASE side \in VaultSides
    <3>1. /\ side.share \in U64 /\ side.supply \in U64 /\ side.total \in U64
          /\ side.profit \in U64 /\ side.report \in U64 /\ side.degrade \in U64
          /\ "share" \in DOMAIN side
      BY <2>2 DEF VaultSides
    <3> DEFINE gives == VaultWithdrawable(pool.clock, side)
    <3>2. pool.clock \in Int /\ pool.clock < Word
      <4>1. pool.clock \in -Word .. Word - 1
        BY TimeAssumption, Zenon
      <4>2. QED
        BY <4>1, WordAssumption
    <3>3. gives \in U64
      <4>1. gives \in 0 .. side.total
        BY <3>1, <3>2, GivesGrow
      <4> HIDE DEF gives
      <4>2. \A t \in U64 : 0 .. t \subseteq U64
        BY WordAssumption DEF U64
      <4>3. QED
        BY <3>1, <4>1, <4>2
    <3>4. n = AmountByShare(side.share, gives, side.supply)
      BY <3>1 DEF ShareReserve
    <3> HIDE DEF gives, n
    <3>5. QED
      BY <3>1, <3>3, <3>4, ShareRounded
  <2>3. QED
    BY <2>1, <2>2
<1>2. ReserveOf(side, dec) = Dec(n, dec)
  BY DEF ReserveOf, FromU64
<1> HIDE DEF n
<1>3. QED
  BY <1>1, <1>2, AmountNumbered

LEMMA LaunchpadNumbered ==
  ASSUME NEW side \in [total : U64, virtual : U64, real : U64]
                        \cup [virtual : U64, real : U64],
         NEW dec \in Int, proto = "launchpad"
  PROVE  NumberedReserve(side, dec)
<1> DEFINE n == IF "total" \in DOMAIN side THEN RemainingBase(side.total, side.real)
                ELSE side.real
<1>1. n \in Nat
  <2>1. CASE side \in [virtual : U64, real : U64]
    <3>1. "total" \notin DOMAIN side /\ side.real \in Nat
      BY <2>1 DEF U64
    <3>2. QED
      BY <3>1
  <2>2. CASE side \in [total : U64, virtual : U64, real : U64]
    BY <2>2, SaleLeaves
  <2>3. QED
    BY <2>1, <2>2
<1>2. ReserveOf(side, dec) = Dec(n, dec)
  BY DEF ReserveOf, FromU64
<1> HIDE DEF n
<1>3. QED
  BY <1>1, <1>2, AmountNumbered

\* Whatever the accounts of a pool hold, its reserves are numbers in the decimals
\* of their mints.
LEMMA ReservesNumbered ==
  ASSUME proto \in Protocol, pool \in PoolStates[proto], proto # "bonding_curve"
  PROVE  NumberedReserve(pool.a, pool.decA) /\ NumberedReserve(pool.b, pool.decB)
<1>1. pool.decA \in Int /\ pool.decB \in Int
  BY DecimalsOf
<1>2. CASE proto \in {"pumpswap", "cpmm", "clmm", "liquidity_v4", "damm_v2",
                      "whirlpool", "dbc", "dlmm"}
  <2>1. pool.a \in BalanceSides /\ pool.b \in BalanceSides
    BY <1>2, AccountsOf DEF BalanceSides
  <2>2. QED
    BY <1>1, <1>2, <2>1, BalanceNumbered
<1>3. CASE proto = "damm_v1"
  BY <1>1, <1>3, AccountsOf, VaultNumbered
<1>4. CASE proto = "launchpad"
  BY <1>1, <1>4, AccountsOf, LaunchpadNumbered
<1>5. QED
  BY <1>2, <1>3, <1>4, ProtocolAssumption

----------------------------------------------------------------------------
(* Prices of pools as decimals.                                            *)

\* What the reserves of a pool are, once they are read.
SoundReserves ==
  /\ IsDec(reserves.a) /\ IsDec(reserves.b)
  /\ reserves.a.n = 0 \/ reserves.a.e = pool.decA
  /\ reserves.b.n = 0 \/ reserves.b.e = pool.decB
  /\ Representable => reserves.a.n >= 0 /\ reserves.b.n >= 0

DecimalsAreNat == pool.decA \in Nat /\ pool.decB \in Nat

\* What a price is: a number, not negative, and the pool's price to half a unit
\* of the last place the quotient kept.
SoundPrice(p) ==
  /\ IsDec(p)
  /\ Representable => p.n >= 0
  /\ proto \in ByRatio \cup BySqrt \cup {"launchpad"} /\ ~IsZero(p) =>
       Accurate(p, ExactPrice.num, ExactPrice.den)

LEMMA ZeroIsSound == SoundPrice(Zero)
<1>1. IsZero(Zero) /\ IsDec(Zero) /\ Zero.n >= 0
  BY DecType DEF IsZero
<1>2. QED
  BY <1>1 DEF SoundPrice

\* A decimal that is not zero has a coefficient that is not.
LEMMA NotZero ==
  ASSUME NEW d, IsDec(d)
  PROVE  IsZero(d) <=> d.n = 0
BY DecType DEF IsZero

\* The quotient of two reserves that are not zero.
LEMMA RatioQuotient ==
  ASSUME SoundReserves, DecimalsAreNat, reserves.a.n # 0, reserves.b.n # 0
  PROVE  /\ IsDec(Ratio) /\ Ratio.e = Precision
         /\ reserves.b.n >= 0 /\ reserves.a.n > 0 => Ratio.n >= 0
         /\ \A i, j \in Nat : i - j = Precision + pool.decA - pool.decB =>
              2 * Abs(Ratio.n * (reserves.a.n * Power[j]) - reserves.b.n * Power[i])
                <= Abs(reserves.a.n * Power[j])
         /\ Accurate(Ratio, reserves.b.n * Power[pool.decA], reserves.a.n * Power[pool.decB])
<1>1. /\ IsDec(reserves.a) /\ IsDec(reserves.b)
      /\ reserves.a.e = pool.decA /\ reserves.b.e = pool.decB
      /\ pool.decA \in Nat /\ pool.decB \in Nat
  BY DEF SoundReserves, DecimalsAreNat
<1>2. Ratio = Over(reserves.b, reserves.a)
  BY <1>1, NotZero DEF Ratio
<1>3. QED
  BY <1>1, <1>2, QuotientOfDecimals

LEMMA RatioSound ==
  ASSUME SoundReserves, DecimalsAreNat, proto \in ByRatio
  PROVE  SoundPrice(Ratio)
<1>1. IsDec(reserves.a) /\ IsDec(reserves.b)
  BY DEF SoundReserves
<1>2. CASE reserves.a.n = 0 \/ reserves.b.n = 0
  <2>1. Ratio = Zero
    BY <1>1, <1>2, NotZero DEF Ratio
  <2>2. QED
    BY <2>1, ZeroIsSound
<1>3. CASE reserves.a.n # 0 /\ reserves.b.n # 0
  <2>1. /\ ExactPrice.num = reserves.b.n * Power[pool.decA]
        /\ ExactPrice.den = reserves.a.n * Power[pool.decB]
    BY DEF ExactPrice, ByRatio, BySqrt
  <2>2. Representable => reserves.b.n >= 0 /\ reserves.a.n > 0
    BY <1>1, <1>3 DEF SoundReserves, IsDec
  <2>3. QED
    BY <1>3, <2>1, <2>2, RatioQuotient DEF SoundPrice, ByRatio
<1>4. QED
  BY <1>2, <1>3

\* The square of a price, in whole units of the square of 1.
LEMMA Squares ==
  ASSUME NEW p \in Nat
  PROVE  /\ p * p \in Nat /\ p * p \in Int
         /\ SqrtOne * SqrtOne \in Nat /\ SqrtOne * SqrtOne \in Int
         /\ SqrtOne * SqrtOne # 0 /\ SqrtOne * SqrtOne > 0
BY SqrtAssumption

LEMMA FromSqrtSound ==
  ASSUME DecimalsAreNat, proto \in BySqrt, pool.price \in Nat
  PROVE  SoundPrice(FromSqrt)
<1>1. CASE pool.price <= 0
  BY <1>1, ZeroIsSound DEF FromSqrt
<1>2. CASE pool.price > 0
  <2> DEFINE num == pool.price * pool.price
             den == SqrtOne * SqrtOne
  <2>1. num \in Int /\ num >= 0 /\ den \in Int /\ den # 0 /\ den > 0
    BY Squares
  <2>2. ExactPrice.num = num * Power[pool.decA] /\ ExactPrice.den = den * Power[pool.decB]
    BY DEF ExactPrice, ByRatio, BySqrt
  <2>3. FromSqrt = Shift(Over(Dec(num, 0), Dec(den, 0)), pool.decA - pool.decB)
    BY <1>2 DEF FromSqrt, Squared, TwoPow128
  <2> HIDE DEF num, den
  <2>4. /\ IsDec(FromSqrt) /\ FromSqrt.n >= 0
        /\ Accurate(FromSqrt, num * Power[pool.decA], den * Power[pool.decB])
    <3> DEFINE a == pool.decA
               b == pool.decB
               q == FromSqrt
    <3>1. a \in Nat /\ b \in Nat /\ q = Shift(Over(Dec(num, 0), Dec(den, 0)), a - b)
      BY <2>3 DEF DecimalsAreNat
    <3> HIDE DEF a, b, q
    <3>2. IsDec(q) /\ q.n >= 0 /\ Accurate(q, num * Power[a], den * Power[b])
      BY ONLY <2>1, <3>1, ShiftedQuotient
    <3>3. QED
      BY <3>2 DEF a, b, q
  <2>5. QED
    BY <2>2, <2>4 DEF SoundPrice
<1>3. QED
  BY <1>1, <1>2

\* The price of a launchpad curve, for each of its three types.
LEMMA FromCurveSound ==
  ASSUME DecimalsAreNat, proto = "launchpad",
         pool.a \in [total : U64, virtual : U64, real : U64],
         pool.b \in [virtual : U64, real : U64],
         pool.price \in {"constant", "fixed", "linear"}
  PROVE  SoundPrice(FromCurve)
<1>1. /\ pool.a.virtual \in U64 /\ pool.a.real \in U64
      /\ pool.a.virtual \in Nat /\ pool.a.real \in Nat
      /\ pool.b.virtual \in Nat /\ pool.b.real \in Nat
      /\ pool.decA \in Nat /\ pool.decB \in Nat
  BY DEF U64, DecimalsAreNat
<1>2. ASSUME NEW num \in Nat, NEW den \in Nat \ {0},
             FromCurve = Over(Dec(num, pool.decB), Dec(den, pool.decA)),
             ExactPrice.num = num * Power[pool.decA],
             ExactPrice.den = den * Power[pool.decB]
      PROVE  SoundPrice(FromCurve)
  <2> DEFINE x == Dec(num, pool.decB)
             y == Dec(den, pool.decA)
  <2>1. /\ IsDec(x) /\ x.n = num /\ x.e = pool.decB
        /\ IsDec(y) /\ y.n = den /\ y.e = pool.decA
    BY <1>1, DecType
  <2>2. FromCurve = Over(x, y)
    BY <1>2
  <2> HIDE DEF x, y
  <2>3. x.e \in Nat /\ y.e \in Nat /\ y.n # 0 /\ y.n > 0 /\ x.n >= 0
    BY <1>1, <2>1
  <2>4. /\ IsDec(FromCurve) /\ FromCurve.n >= 0
        /\ Accurate(FromCurve, num * Power[pool.decA], den * Power[pool.decB])
    BY <2>1, <2>2, <2>3, QuotientOfDecimals
  <2>5. QED
    BY <1>1, <1>2, <2>4 DEF SoundPrice
<1>3. CASE pool.price = "constant"
  <2>1. CASE pool.a.virtual <= pool.a.real
    BY <1>3, <2>1, ZeroIsSound DEF FromCurve
  <2>2. CASE pool.a.virtual > pool.a.real
    <3> DEFINE num == pool.b.virtual + pool.b.real
               den == pool.a.virtual - pool.a.real
    <3>1. /\ num \in Nat /\ den \in Nat \ {0}
          /\ Sub64(pool.a.virtual, pool.a.real) = den
          /\ ~(pool.a.virtual <= pool.a.real)
      BY <1>1, <2>2, NoWrap
    <3>2. ExactPrice.num = num * Power[pool.decA] /\ ExactPrice.den = den * Power[pool.decB]
      BY <1>3 DEF ExactPrice, ByRatio, BySqrt
    <3>3. FromCurve = Over(Dec(num, pool.decB), Dec(den, pool.decA))
      BY <1>3, <3>1 DEF FromCurve, FromU64
    <3> HIDE DEF num, den
    <3>4. QED
      BY <1>2, <3>1, <3>2, <3>3
  <2>3. QED
    BY <1>1, <2>1, <2>2
<1>4. CASE pool.price = "fixed"
  <2>1. CASE pool.a.virtual = 0
    BY <1>4, <2>1, ZeroIsSound DEF FromCurve
  <2>2. CASE pool.a.virtual # 0
    <3>1. /\ ExactPrice.num = pool.b.virtual * Power[pool.decA]
          /\ ExactPrice.den = pool.a.virtual * Power[pool.decB]
      BY <1>4 DEF ExactPrice, ByRatio, BySqrt
    <3>2. FromCurve = Over(Dec(pool.b.virtual, pool.decB), Dec(pool.a.virtual, pool.decA))
      BY <1>4, <2>2 DEF FromCurve, FromU64
    <3>3. QED
      BY <1>1, <1>2, <2>2, <3>1, <3>2
  <2>3. QED
    BY <2>1, <2>2
<1>5. CASE pool.price = "linear"
  <2>1. CASE pool.a.virtual = 0 \/ pool.a.real = 0
    BY <1>5, <2>1, ZeroIsSound DEF FromCurve
  <2>2. CASE pool.a.virtual # 0 /\ pool.a.real # 0
    <3> DEFINE num == pool.a.virtual * pool.a.real
    <3>1. num \in Int /\ num >= 0 /\ SqrtOne \in Int /\ SqrtOne # 0 /\ SqrtOne > 0
      BY <1>1, SqrtAssumption
    <3>2. /\ ExactPrice.num = num * Power[pool.decA]
          /\ ExactPrice.den = SqrtOne * Power[pool.decB]
      BY <1>5 DEF ExactPrice, ByRatio, BySqrt
    <3>3. FromCurve = Shift(Over(Dec(num, 0), Dec(SqrtOne, 0)), pool.decA - pool.decB)
      BY <1>5, <2>2 DEF FromCurve
    <3> HIDE DEF num
    <3>4. /\ IsDec(FromCurve) /\ FromCurve.n >= 0
          /\ Accurate(FromCurve, num * Power[pool.decA], SqrtOne * Power[pool.decB])
      <4> DEFINE a == pool.decA
                 b == pool.decB
                 q == FromCurve
      <4>1. a \in Nat /\ b \in Nat /\ q = Shift(Over(Dec(num, 0), Dec(SqrtOne, 0)), a - b)
        BY <3>3 DEF DecimalsAreNat
      <4> HIDE DEF a, b, q
      <4>2. IsDec(q) /\ q.n >= 0 /\ Accurate(q, num * Power[a], SqrtOne * Power[b])
        BY ONLY <3>1, <4>1, ShiftedQuotient
      <4>3. QED
        BY <4>2 DEF a, b, q
    <3>5. QED
      BY <3>2, <3>4 DEF SoundPrice
  <2>3. QED
    BY <2>1, <2>2
<1>6. QED
  BY <1>3, <1>4, <1>5

\* Raydium CLMM's price, rounded twice, and DLMM's, not rounded, are numbers.
LEMMA OtherPricesSound ==
  ASSUME DecimalsAreNat, pool.price \in Nat
  PROVE  /\ proto = "clmm" => SoundPrice(FromInverseSqrt)
         /\ proto = "dlmm" => SoundPrice(FromBin)
<1>1. /\ pool.decA \in Int /\ pool.decB \in Int /\ Precision \in Nat
      /\ pool.decB - pool.decA \in Int /\ pool.decA - pool.decB \in Int
  BY PrecisionAssumption DEF DecimalsAreNat
<1>2. ASSUME proto = "clmm" PROVE SoundPrice(FromInverseSqrt)
  <2> DEFINE first == Shift(Over(TwoPow128, Squared), pool.decB - pool.decA)
  <2>1. FromInverseSqrt = IF pool.price <= 0 \/ IsZero(first) THEN Zero ELSE Over(One, first)
    BY DEF FromInverseSqrt
  <2>2. CASE pool.price <= 0 \/ IsZero(first)
    BY <2>1, <2>2, ZeroIsSound
  <2>3. CASE ~(pool.price <= 0 \/ IsZero(first))
    <3>1. pool.price * pool.price \in Int /\ pool.price * pool.price > 0
      BY <2>3
    <3>2. /\ IsDec(Squared) /\ Squared.n > 0 /\ Squared.n # 0
          /\ IsDec(TwoPow128) /\ TwoPow128.n >= 0
      BY <3>1, Squares, DecType DEF Squared, TwoPow128
    <3> DEFINE o == Over(TwoPow128, Squared)
    <3>3. IsDec(o) /\ o.n >= 0
      BY <3>2, OverValue
    <3> HIDE DEF o
    <3>4. IsDec(first) /\ first.n >= 0
      BY <1>1, <3>3, ShiftValue DEF o
    <3> HIDE DEF first
    <3>5. first.n # 0 /\ first.n > 0
      BY <2>3, <3>4, NotZero DEF IsDec
    <3>6. /\ IsDec(Over(One, first)) /\ Over(One, first).e = Precision
          /\ Over(One, first).n >= 0
      BY <3>4, <3>5, DecType, OverValue
    <3>7. FromInverseSqrt = Over(One, first)
      BY <2>1, <2>3
    <3>8. QED
      BY <1>1, <1>2, <3>6, <3>7 DEF SoundPrice, ByRatio, BySqrt
  <2>4. QED
    BY <2>2, <2>3
<1>3. ASSUME proto = "dlmm" PROVE SoundPrice(FromBin)
  <2> DEFINE d == Dec(pool.price, Precision)
  <2>1. IsDec(d) /\ d.n = pool.price /\ d.e = Precision
    BY <1>1, DecType
  <2> HIDE DEF d
  <2>2. /\ IsDec(FromBin) /\ FromBin.n = pool.price
        /\ FromBin.e = Precision - (pool.decA - pool.decB)
    BY <1>1, <2>1, ShiftValue DEF FromBin, d
  <2>3. QED
    BY <1>1, <1>3, <2>2 DEF SoundPrice, ByRatio, BySqrt
<1>4. QED
  BY <1>2, <1>3

\* The price of every pool.
LEMMA PricesSound ==
  ASSUME proto \in Protocol, pool \in PoolStates[proto], proto # "bonding_curve",
         proto = "launchpad" => pool.price # "other", SoundReserves
  PROVE  SoundPrice(PriceOfMintAInMintB)
<1>1. DecimalsAreNat
  BY DecimalsOf DEF DecimalsAreNat
<1>2. proto \in {"damm_v2", "whirlpool", "dbc", "clmm", "dlmm"} => pool.price \in Nat
  <2>1. proto \in {"damm_v2", "whirlpool", "dbc", "clmm"} => pool.price \in SqrtPrice
    BY AccountsOf
  <2>2. proto = "dlmm" => pool.price \in BinPrice
    BY AccountsOf
  <2>3. QED
    BY <2>1, <2>2, SqrtAssumption, WorthAssumption
<1>3. CASE proto \in ByRatio
  <2>1. PriceOfMintAInMintB = Ratio
    BY <1>3 DEF PriceOfMintAInMintB, ByRatio, BySqrt
  <2>2. QED
    BY <1>1, <1>3, <2>1, RatioSound
<1>4. CASE proto \in BySqrt
  <2>1. PriceOfMintAInMintB = FromSqrt
    BY <1>4 DEF PriceOfMintAInMintB, ByRatio, BySqrt
  <2>2. pool.price \in Nat
    BY <1>2, <1>4 DEF BySqrt
  <2>3. QED
    BY <1>1, <1>4, <2>1, <2>2, FromSqrtSound
<1>5. CASE proto = "clmm"
  BY <1>1, <1>2, <1>5, OtherPricesSound DEF PriceOfMintAInMintB, ByRatio, BySqrt
<1>6. CASE proto = "dlmm"
  BY <1>1, <1>2, <1>6, OtherPricesSound DEF PriceOfMintAInMintB, ByRatio, BySqrt
<1>7. CASE proto = "launchpad"
  <2>1. /\ pool.a \in [total : U64, virtual : U64, real : U64]
        /\ pool.b \in [virtual : U64, real : U64]
        /\ pool.price \in {"constant", "fixed", "linear"}
    BY <1>7, AccountsOf
  <2>2. PriceOfMintAInMintB = FromCurve
    BY <1>7 DEF PriceOfMintAInMintB, ByRatio, BySqrt
  <2>3. QED
    BY <1>1, <1>7, <2>1, <2>2, FromCurveSound
<1>8. QED
  BY <1>3, <1>4, <1>5, <1>6, <1>7, ProtocolAssumption DEF ByRatio, BySqrt

\* The price of a bonding curve is a number, too, and its inverse.
LEMMA CurveSound ==
  ASSUME proto \in Protocol, pool \in PoolStates[proto], proto = "bonding_curve"
  PROVE  /\ IsDec(CurvePrice) /\ CurvePrice.n >= 0
         /\ \A l : /\ IsDec(PairMetrics(CurvePrice, l).inB)
                   /\ IsDec(PairMetrics(CurvePrice, l).inSOL)
                   /\ PairMetrics(CurvePrice, l).inB.n >= 0
                   /\ PairMetrics(CurvePrice, l).inSOL.n >= 0
                   /\ PairMetrics(CurvePrice, l).liquidity = l
                   /\ ~IsSOL(mints.a) => PairMetrics(CurvePrice, l).inB
                                           = PairMetrics(CurvePrice, l).inSOL
<1>1. /\ pool.a.virtual \in Nat /\ pool.b.virtual \in Nat
      /\ pool.decA \in Int /\ pool.decB \in Int
  <2>1. pool.a.virtual \in U64 /\ pool.b.virtual \in U64
    BY AccountsOf
  <2>2. QED
    BY <2>1, DecimalsOf DEF U64
<1> DEFINE x == FromU64(pool.b.virtual, pool.decB)
           y == FromU64(pool.a.virtual, pool.decA)
<1>2. IsDec(x) /\ x.n = pool.b.virtual /\ IsDec(y) /\ y.n = pool.a.virtual
  BY <1>1, DecType DEF FromU64
<1>3. CurvePrice = IF pool.a.virtual = 0 THEN Zero ELSE Over(x, y)
  BY DEF CurvePrice
<1> HIDE DEF x, y
<1>4. IsDec(CurvePrice) /\ CurvePrice.n >= 0
  BY <1>1, <1>2, <1>3, DecType, OverValue
<1>5. CurvePrice.n > 0 =>
        /\ IsDec(Over(One, CurvePrice)) /\ Over(One, CurvePrice).n >= 0
  BY <1>4, DecType, OverValue
<1>6. QED
  BY <1>4, <1>5, DecType DEF PairMetrics

----------------------------------------------------------------------------
(* Values compared.                                                        *)

\* Two decimals of one scale are ordered as their coefficients.
LEMMA LessAtOneScale ==
  ASSUME NEW x, NEW y, IsDec(x), IsDec(y), x.e = y.e
  PROVE  Less(x, y) <=> x.n < y.n
<1>1. x.e \in Int /\ x.n \in Int /\ y.n \in Int /\ x.e - x.e = 0
  BY DEF IsDec
<1>2. Value(x, x.e) = x.n /\ Value(y, x.e) = y.n
  BY <1>1, PowerStep DEF Value
<1>3. QED
  BY <1>1, <1>2, LessValue

\* Two values are within a third if they are at some scale.
LEMMA WithinValue ==
  ASSUME NEW x, NEW y, NEW d, IsDec(x), IsDec(y), IsDec(d),
         NEW k \in Int, x.e <= k, y.e <= k, d.e <= k,
         Value(x, k) - Value(y, k) <= Value(d, k),
         Value(y, k) - Value(x, k) <= Value(d, k)
  PROVE  Within(x, y, d)
<1>1. Value(x, k) \in Int /\ Value(y, k) \in Int /\ Value(d, k) \in Int
  BY ValueType
<1>2. ASSUME NEW u, NEW v, IsDec(u), IsDec(v), u.e <= k, v.e <= k,
             Value(u, k) - Value(v, k) <= Value(d, k),
             Value(u, k) \in Int, Value(v, k) \in Int
      PROVE  ~Less(d, Minus(u, v))
  <2>1. IsDec(Minus(u, v)) /\ Minus(u, v).e = Larger(u.e, v.e)
        /\ Value(Minus(u, v), k) = Value(u, k) - Value(v, k)
    BY <1>2, MinusValue
  <2>2. Minus(u, v).e <= k
    BY <1>2, <2>1 DEF Larger, IsDec
  <2>3. Less(d, Minus(u, v)) <=> Value(d, k) < Value(Minus(u, v), k)
    BY <2>1, <2>2, LessValue
  <2>4. QED
    BY <1>1, <1>2, <2>1, <2>3
<1>3. QED
  BY <1>1, <1>2 DEF Within

\* Equal coefficients at one scale are within any distance.
LEMMA WithinSame ==
  ASSUME NEW x, NEW y, NEW d, IsDec(x), IsDec(y), IsDec(d),
         x.n = y.n, x.e = y.e, d.n >= 0
  PROVE  Within(x, y, d)
<1> DEFINE k == Larger(x.e, d.e)
<1>1. k \in Int /\ x.e <= k /\ y.e <= k /\ d.e <= k /\ k - d.e \in Nat
  BY DEF Larger, IsDec
<1> HIDE DEF k
<1>2. Value(x, k) = Value(y, k) /\ Value(x, k) \in Int
  BY <1>1, ValueType DEF Value
<1>3. Value(d, k) >= 0 /\ Value(d, k) \in Int
  <2>1. Power[k - d.e] \in Nat /\ d.n \in Nat
    BY <1>1, PowerType DEF IsDec
  <2>2. QED
    BY <2>1 DEF Value
<1>4. Value(x, k) - Value(y, k) <= Value(d, k) /\ Value(y, k) - Value(x, k) <= Value(d, k)
  BY <1>2, <1>3
<1>5. QED
  BY <1>1, <1>4, WithinValue

\* Twice the reserve of B is the value of both reserves at their ratio, up to what
\* the rounding of the ratio makes of the reserve of A.
LEMMA Doubled ==
  ASSUME SoundReserves, DecimalsAreNat, reserves.a.n > 0, reserves.b.n > 0
  PROVE  Within(Times(reserves.b, Dec(2, 0)),
                Plus(reserves.b, Times(reserves.a, Ratio)),
                Times(reserves.a, Dec(1, Ratio.e)))
<1>1. /\ IsDec(reserves.a) /\ IsDec(reserves.b)
      /\ reserves.a.n \in Nat \ {0} /\ reserves.b.n \in Nat \ {0}
      /\ reserves.a.e = pool.decA /\ reserves.b.e = pool.decB
  BY DEF SoundReserves, IsDec
<1>2. /\ pool.decA \in Nat /\ pool.decB \in Nat /\ Precision \in Nat
      /\ pool.decA \in Int /\ pool.decB \in Int /\ Precision \in Int
  BY PrecisionAssumption DEF DecimalsAreNat
<1> DEFINE k == Larger(pool.decA + Precision, pool.decB)
           i == k - pool.decB
           j == k - (pool.decA + Precision)
           a == reserves.a.n
           b == reserves.b.n
           q == Ratio
<1>3. /\ k \in Int /\ pool.decA <= k /\ pool.decB <= k /\ pool.decA + Precision <= k
      /\ i \in Nat /\ j \in Nat /\ i - j = Precision + pool.decA - pool.decB
      /\ k - pool.decA = Precision + j /\ k + 0 = k
      /\ k - Precision = pool.decA + j /\ (pool.decA + j) - pool.decA = j
      /\ pool.decA + j \in Int /\ (pool.decA + j) + Precision = k
      /\ pool.decA <= pool.decA + j
  BY <1>2 DEF Larger
<1>4. /\ IsDec(q) /\ q.e = Precision
      /\ 2 * Abs(q.n * (a * Power[j]) - b * Power[i]) <= Abs(a * Power[j])
  BY <1>1, <1>3, RatioQuotient
<1> HIDE DEF q
<1>5. Power[i] \in Nat /\ Power[j] \in Nat
  BY <1>3, PowerType
<1> DEFINE u == b * Power[i]
           v == a * Power[j]
<1>6. Value(reserves.b, k) = u /\ Value(reserves.a, pool.decA + j) = v
  BY <1>1, <1>3 DEF Value
<1>7. u \in Int /\ v \in Nat
  BY <1>1, <1>5
<1> HIDE DEF k, i, j, u, v
<1> DEFINE twice == Dec(2, 0)
           unit == Dec(1, Precision)
<1>8. /\ IsDec(twice) /\ twice.e = 0 /\ Value(twice, 0) = 2
      /\ IsDec(unit) /\ unit.e = Precision /\ Value(unit, Precision) = 1
      /\ Value(q, Precision) = q.n /\ q.n \in Int
  <2>1. Precision - Precision = 0 /\ 0 - 0 = 0
    BY <1>2
  <2>2. /\ IsDec(twice) /\ twice.e = 0 /\ twice.n = 2
        /\ IsDec(unit) /\ unit.e = Precision /\ unit.n = 1
    BY <1>2, DecType
  <2>3. q.n \in Int
    BY <1>4 DEF IsDec
  <2> HIDE DEF twice, unit
  <2>4. QED
    BY <1>4, <2>1, <2>2, <2>3, PowerStep DEF Value
<1> HIDE DEF twice, unit
<1> DEFINE x == Times(reserves.b, twice)
           both == Times(reserves.a, q)
           y == Plus(reserves.b, both)
           d == Times(reserves.a, unit)
<1>9. /\ IsDec(x) /\ x.e = pool.decB /\ Value(x, k) = u * 2
  <2>1. /\ IsDec(x) /\ x.e = reserves.b.e + twice.e
        /\ Value(x, k + 0) = Value(reserves.b, k) * Value(twice, 0)
    BY <1>1, <1>3, <1>8, TimesValue
  <2>2. QED
    BY <1>1, <1>2, <1>3, <1>6, <1>8, <2>1
<1>10. IsDec(both) /\ both.e = pool.decA + Precision /\ Value(both, k) = v * q.n
  <2>1. /\ IsDec(both) /\ both.e = reserves.a.e + q.e
        /\ Value(both, (pool.decA + j) + Precision)
             = Value(reserves.a, pool.decA + j) * Value(q, Precision)
    BY <1>1, <1>2, <1>3, <1>4, TimesValue
  <2>2. QED
    BY <1>1, <1>3, <1>4, <1>6, <1>8, <2>1
<1>11. IsDec(d) /\ d.e = pool.decA + Precision /\ Value(d, k) = v
  <2>1. /\ IsDec(d) /\ d.e = reserves.a.e + unit.e
        /\ Value(d, (pool.decA + j) + Precision)
             = Value(reserves.a, pool.decA + j) * Value(unit, Precision)
    BY <1>1, <1>2, <1>3, <1>8, TimesValue
  <2>2. QED
    BY <1>1, <1>3, <1>6, <1>7, <1>8, <2>1
<1> HIDE DEF x, both, d
<1>12. IsDec(y) /\ y.e <= k /\ Value(y, k) = u + v * q.n
  <2>1. /\ IsDec(y) /\ y.e = Larger(reserves.b.e, both.e)
        /\ Value(y, k) = Value(reserves.b, k) + Value(both, k)
    BY <1>1, <1>3, <1>10, PlusValue
  <2>2. QED
    BY <1>1, <1>3, <1>6, <1>10, <2>1 DEF Larger
<1> HIDE DEF y
<1>13. Value(x, k) - Value(y, k) <= Value(d, k) /\ Value(y, k) - Value(x, k) <= Value(d, k)
  <2> DEFINE w == v * q.n
  <2>1. w \in Int /\ q.n * v = w
    BY <1>7, <1>8
  <2>2. 2 * Abs(w - u) <= Abs(v)
    BY <1>4, <2>1 DEF u, v
  <2>3. Value(x, k) = u * 2 /\ Value(y, k) = u + w /\ Value(d, k) = v
    BY <1>9, <1>11, <1>12
  <2> HIDE DEF w
  <2>4. w - u <= v /\ u - w <= v
    BY <1>7, <2>1, <2>2 DEF Abs, Larger
  <2>5. QED
    BY <1>7, <2>1, <2>3, <2>4
<1>14. x.e <= k /\ d.e <= k
  BY <1>3, <1>9, <1>11
<1>15. Within(x, y, d)
  BY <1>3, <1>9, <1>11, <1>12, <1>13, <1>14, WithinValue
<1>16. QED
  BY <1>4, <1>15 DEF x, y, d, both, twice, unit, q

\* A product with the same factor, not negative, keeps the order.
LEMMA TimesOrdered ==
  ASSUME NEW p, IsDec(p), p.n >= 0, NEW a, IsDec(a), NEW b, IsDec(b), Less(a, b)
  PROVE  ~Less(Times(p, b), Times(p, a))
<1> DEFINE k == Larger(a.e, b.e)
<1>1. k \in Int /\ a.e <= k /\ b.e <= k /\ p.e \in Int /\ p.e <= p.e /\ p.e - p.e = 0
  BY DEF Larger, IsDec
<1> HIDE DEF k
<1>2. Value(a, k) < Value(b, k) /\ Value(a, k) \in Int /\ Value(b, k) \in Int
  BY <1>1, LessValue, ValueType
<1>3. Value(p, p.e) \in Nat
  BY <1>1, PowerStep DEF Value, IsDec
<1>4. /\ IsDec(Times(p, a)) /\ Times(p, a).e = p.e + a.e
      /\ IsDec(Times(p, b)) /\ Times(p, b).e = p.e + b.e
      /\ Value(Times(p, a), p.e + k) = Value(p, p.e) * Value(a, k)
      /\ Value(Times(p, b), p.e + k) = Value(p, p.e) * Value(b, k)
  BY <1>1, TimesValue
<1>5. \A x \in Nat, y, z \in Int : y < z => ~(x * z < x * y)
  OBVIOUS
<1>6. ~(Value(p, p.e) * Value(b, k) < Value(p, p.e) * Value(a, k))
  BY <1>2, <1>3, <1>5
<1>7. /\ p.e + k \in Int /\ Times(p, a).e <= p.e + k /\ Times(p, b).e <= p.e + k
  BY <1>1, <1>4 DEF IsDec
<1>8. QED
  BY <1>4, <1>6, <1>7, LessValue

\* The supply of the fully diluted value is never below the mint's, whatever
\* decimals the bonding curve's is taken to have.
LEMMA CapsOrdered ==
  ASSUME NEW p, IsDec(p), NEW total \in Nat, NEW dec \in Int,
         NEW curve \in Nat, NEW places \in Int,
         NEW t, t = FromU64(total, dec), NEW f, f = FDVSupply(t, FromU64(curve, places))
  PROVE  /\ IsDec(t) /\ IsDec(Times(p, t)) /\ IsDec(Times(p, f)) /\ ~Less(t, t)
         /\ p.n >= 0 => ~Less(Times(p, f), Times(p, t))
<1> DEFINE c == FromU64(curve, places)
<1>1. IsDec(t) /\ IsDec(c)
  BY DecType DEF FromU64
<1>2. f = IF Less(t, c) THEN c ELSE t
  BY DEF FDVSupply
<1> HIDE DEF c
<1>3. IsDec(f) /\ (f = t \/ Less(t, f))
  BY <1>1, <1>2
<1>4. IsDec(Times(p, t)) /\ IsDec(Times(p, f))
  BY <1>1, <1>3, TimesValue
<1>5. ASSUME NEW d, IsDec(d) PROVE ~Less(d, d)
  BY <1>5, LessAtOneScale DEF IsDec
<1>6. QED
  BY <1>1, <1>3, <1>4, <1>5, TimesOrdered

----------------------------------------------------------------------------
(* The calculation.                                                        *)

\* After the reserves are read they are those of the two sides, whatever the
\* bridge answers, and the pool is still the one they were read of.
PricingInv ==
  /\ proto \in Protocol
  /\ pool \in PoolStates[proto]
  /\ pc \in {"reserves", "price", "priceSOL", "liquiditySOL", "supply", "done",
             "refused"}
  /\ proto = "bonding_curve" => pc \in {"reserves", "done"}
  /\ proto # "bonding_curve" /\ pc # "reserves" =>
       reserves = [a |-> ReserveOf(pool.a, pool.decA), b |-> ReserveOf(pool.b, pool.decB)]
  /\ pc = "price" /\ proto = "launchpad" => pool.price # "other"

\* A step keeps the reserves of a pool once they are read, and reaches no
\* division by zero.
LEMMA PricingStep ==
  ASSUME PricingInv, [Next]_vars
  PROVE  PricingInv'
<1> DEFINE read == [a |-> ReserveOf(pool.a, pool.decA),
                    b |-> ReserveOf(pool.b, pool.decB)]
<1>1. CASE ReadReserves
  <2>1. /\ UNCHANGED <<proto, pool>> /\ proto # "bonding_curve" /\ reserves' = read
        /\ pc' \in {"refused", "price"}
        /\ pc' = "price" /\ proto = "launchpad" => pool.price # "other"
    BY <1>1 DEF ReadReserves
  <2>2. read' = read
    BY <2>1 DEF ReserveOf, ShareReserve
  <2> HIDE DEF read
  <2>3. QED
    BY <2>1, <2>2 DEF PricingInv, read
<1>2. CASE PricePair
  <2>1. /\ UNCHANGED <<proto, pool, reserves>> /\ pc = "price"
        /\ proto # "bonding_curve"
    BY <1>2 DEF PricePair, PricingInv
  <2>2. reserves = read
    BY <2>1 DEF PricingInv
  <2>3. IsNumber(reserves.a) /\ IsNumber(reserves.b)
    BY <2>1, <2>2, ReserveIsNumber DEF PricingInv
  <2>4. PriceOfMintAInMintB # Panic
    BY <2>1, <2>3, PricesAreNumbers, Numbers DEF PricingInv
  <2>5. pc' = "priceSOL"
    BY <1>2, <2>4 DEF PricePair
  <2>6. read' = read
    BY <2>1 DEF ReserveOf, ShareReserve
  <2> HIDE DEF read
  <2>7. QED
    BY <2>1, <2>2, <2>5, <2>6 DEF PricingInv, read
<1>3. CASE CurveMetrics
  <2>1. UNCHANGED <<proto, pool>> /\ proto = "bonding_curve"
    BY <1>3 DEF CurveMetrics
  <2>2. pc' = "done"
    BY <1>3, CurveIsNumber DEF CurveMetrics
  <2>3. QED
    BY <2>1, <2>2 DEF PricingInv
<1>4. CASE ConvertPrice \/ ConvertLiquidity \/ BridgeFails \/ BridgeMoves \/ Supply
           \/ Returned \/ UNCHANGED vars
  <2>1. /\ UNCHANGED <<proto, pool, reserves>>
        /\ \/ /\ pc \in {"priceSOL", "liquiditySOL", "supply"}
              /\ pc' \in {"liquiditySOL", "supply", "refused", "done"}
           \/ pc' = pc
    BY <1>4 DEF ConvertPrice, ConvertLiquidity, BridgeFails, BridgeMoves, Supply,
       AsksForPrice, AsksForLiquidity, Returned, vars
  <2>2. read' = read
    BY <2>1 DEF ReserveOf, ShareReserve
  <2> HIDE DEF read
  <2>3. QED
    BY <2>1, <2>2 DEF PricingInv, read
<1>5. QED
  BY <1>1, <1>2, <1>3, <1>4 DEF Next

\* The inductive invariant of the calculation holds in every reachable state.
THEOREM PricingInvariance == Spec => []PricingInv
<1>1. Init => PricingInv
  BY DEF Init, PricingInv
<1>2. PricingInv /\ [Next]_vars => PricingInv'
  BY PricingStep
<1>3. QED
  BY <1>1, <1>2, PTL DEF Spec

\* No calculator divides by zero, whatever amounts, prices and decimals the
\* accounts hold: the guards before each Div are the ones it needs.
THEOREM NeverPanics == Spec => []NoPanic
<1>1. PricingInv => NoPanic
  BY DEF PricingInv, NoPanic
<1>2. QED
  BY <1>1, PricingInvariance, PTL

\* Reserves do not wrap, for words of any size: none is above what its accounts
\* hold less what is owed to others (subtractFees, subtractProtocolFee,
\* vaultWithdrawableAmount, amountByShare and their likes).
THEOREM ReservesAreHeld == Spec => []WithinHoldings
<1>1. PricingInv => WithinHoldings
  <2> SUFFICES ASSUME PricingInv, Priced, Representable, SupplyCoversShare,
                      proto # "bonding_curve", NEW s \in {"a", "b"}
               PROVE  /\ reserves[s].n >= 0
                      /\ reserves[s].n > 0 =>
                           /\ reserves[s].n + Owed(pool[s]) <= Held(pool[s])
                           /\ reserves[s].e = [a |-> pool.decA, b |-> pool.decB][s]
    BY DEF WithinHoldings
  <2>1. /\ reserves.a = ReserveOf(pool.a, pool.decA)
        /\ reserves.b = ReserveOf(pool.b, pool.decB)
    BY DEF PricingInv, Priced
  <2>2. Covered(pool.a, pool.decA) /\ Covered(pool.b, pool.decB)
    BY SidesCovered DEF PricingInv
  <2>3. CASE s = "a"
    BY <2>1, <2>2, <2>3 DEF Covered
  <2>4. CASE s = "b"
    BY <2>1, <2>2, <2>4 DEF Covered
  <2>5. QED
    BY <2>3, <2>4
<1>2. QED
  BY <1>1, PricingInvariance, PTL

\* A DAMM v1 pool never takes the part of a vault that the vault's other pools
\* may claim later, at whatever clock and however the shares are rounded.
THEOREM SharesAreConserved == Spec => []SharesConserved
<1>1. PricingInv => SharesConserved
  <2> SUFFICES ASSUME PricingInv, Priced, proto = "damm_v1",
                      NEW later \in Time, later >= pool.clock,
                      NEW others \in U64, others + pool.a.share <= pool.a.supply
               PROVE  reserves.a.n
                        + AmountByShare(others, VaultWithdrawable(later, pool.a),
                                        pool.a.supply)
                          <= VaultWithdrawable(later, pool.a)
    BY DEF SharesConserved
  <2>1. /\ pool.a \in VaultSides /\ pool.clock \in Time
        /\ reserves.a = ReserveOf(pool.a, pool.decA)
    BY AccountsOf DEF PricingInv, Priced
  <2>2. /\ pool.a.share \in U64 /\ pool.a.supply \in U64 /\ pool.a.total \in U64
        /\ pool.a.profit \in U64 /\ pool.a.report \in U64 /\ pool.a.degrade \in U64
        /\ "share" \in DOMAIN pool.a
    BY <2>1 DEF VaultSides
  <2>3. /\ pool.clock \in Int /\ later \in Int /\ later < Word
    <3>1. \A t \in -Word .. Word - 1 : t \in Int /\ t < Word
      BY WordAssumption
    <3>2. pool.clock \in -Word .. Word - 1 /\ later \in -Word .. Word - 1
      BY <2>1, TimeAssumption, Zenon
    <3>3. QED
      BY <3>1, <3>2
  <2> DEFINE now == VaultWithdrawable(pool.clock, pool.a)
             then == VaultWithdrawable(later, pool.a)
  <2>4. now \in 0 .. pool.a.total /\ then \in 0 .. pool.a.total /\ now <= then
    BY <2>2, <2>3, GivesGrow
  <2>5. reserves.a.n = AmountByShare(pool.a.share, now, pool.a.supply)
    BY <2>1, <2>2, Numbers DEF ReserveOf, ShareReserve, FromU64
  <2> HIDE DEF now, then
  <2>6. now \in U64 /\ then \in U64
    BY <2>2, <2>4, WordAssumption DEF U64
  <2>7. AmountByShare(pool.a.share, now, pool.a.supply)
          + AmountByShare(others, then, pool.a.supply) <= then
    BY <2>2, <2>4, <2>6, SharesFit
  <2>8. QED
    BY <2>5, <2>7 DEF then
<1>2. QED
  BY <1>1, PricingInvariance, PTL

----------------------------------------------------------------------------
(* The values of an answer.                                                *)

AllNumbers ==
  /\ IsDec(price) /\ IsDec(liquidity) /\ IsDec(priceSOL) /\ IsDec(liquiditySOL)
  /\ IsDec(caps.total) /\ IsDec(caps.circulating)
  /\ IsDec(caps.market) /\ IsDec(caps.fdv)

\* A pool that is not refused has reserves, or a launchpad curve of a known type.
Accepted ==
  pc \notin {"reserves", "refused"} =>
    /\ proto = "launchpad" => pool.price # "other"
    /\ proto \notin {"launchpad", "bonding_curve"} =>
         reserves.a.n # 0 /\ reserves.b.n # 0

\* Price and liquidity are those of the reserves.
FromReserves ==
  Priced /\ proto # "bonding_curve" =>
    price = PriceOfMintAInMintB /\ liquidity = LiquidityInMintB(price)

\* The values in SOL are those of price and liquidity; the worth the price was
\* converted with is known unless the bridge has moved.
InSOL ==
  /\ Representable => priceSOL.n >= 0
  /\ pc \in {"liquiditySOL", "supply", "done"} /\ proto # "bonding_curve" /\ ~moved =>
       priceSOL = PriceOfMintAInSOL
  /\ pc \in {"supply", "done"} /\ proto # "bonding_curve" =>
       liquiditySOL = LiquidityInSOL

CurveValues ==
  pc = "done" /\ proto = "bonding_curve" =>
    /\ liquidity = liquiditySOL /\ liquiditySOL.n >= 0
    /\ ~IsSOL(mints.a) => price = priceSOL

ValuesInv ==
  /\ PricingInv
  /\ mints \in PairsOf(proto) /\ worth \in Worth /\ moved \in BOOLEAN
  /\ AllNumbers
  /\ SoundReserves
  /\ Accepted
  /\ FromReserves
  /\ InSOL
  /\ CurveValues
  /\ CapBelowFDV

\* What is said of a pool and its reserves does not change with other variables.
LEMMA Unread ==
  ASSUME UNCHANGED <<proto, pool, reserves>>
  PROVE  /\ SoundReserves' = SoundReserves /\ Representable' = Representable
         /\ PriceOfMintAInMintB' = PriceOfMintAInMintB
         /\ price' = price => LiquidityInMintB(price)' = LiquidityInMintB(price)
<1>1. Representable' = Representable
  BY DEF Representable
<1>2. SoundReserves' = SoundReserves
  BY <1>1 DEF SoundReserves
<1>3. /\ Ratio' = Ratio /\ FromSqrt' = FromSqrt /\ FromInverseSqrt' = FromInverseSqrt
      /\ FromBin' = FromBin /\ FromCurve' = FromCurve
  BY DEF Ratio, FromSqrt, FromInverseSqrt, FromBin, FromCurve, Squared
<1>4. PriceOfMintAInMintB' = PriceOfMintAInMintB
  BY <1>3 DEF PriceOfMintAInMintB
<1>5. price' = price => LiquidityInMintB(price)' = LiquidityInMintB(price)
  BY DEF LiquidityInMintB
<1>6. QED
  BY <1>1, <1>2, <1>4, <1>5

\* The price and the liquidity of a pool, and what the bridge makes of them, are
\* numbers, and a price in SOL is not negative.
LEMMA LiquidityNumber ==
  ASSUME SoundReserves, NEW p, IsDec(p)
  PROVE  IsDec(LiquidityInMintB(p))
<1>1. IsDec(Dec(2, 0)) /\ IsDec(reserves.a) /\ IsDec(reserves.b)
  BY DecType DEF SoundReserves
<1>2. IsDec(Times(reserves.b, Dec(2, 0))) /\ IsDec(Times(reserves.a, p))
  BY <1>1, TimesValue
<1>3. IsDec(Plus(reserves.b, Times(reserves.a, p)))
  BY <1>1, <1>2, PlusValue
<1>4. QED
  BY <1>2, <1>3 DEF LiquidityInMintB

LEMMA InSOLNumber ==
  ASSUME worth \in Worth, IsDec(price), IsDec(liquidity)
  PROVE  /\ IsDec(PriceOfMintAInSOL) /\ IsDec(LiquidityInSOL)
         /\ price.n >= 0 => PriceOfMintAInSOL.n >= 0
<1>1. worth \in Nat
  BY WorthAssumption
<1>2. IsDec(Dec(worth, 0)) /\ Dec(worth, 0).n = worth /\ IsDec(One) /\ One.n = 1
      /\ IsDec(Zero) /\ Zero.n = 0
  BY <1>1, DecType
<1> DEFINE one == ToSOL(One)
<1>3. IsDec(one) /\ one.n \in Nat
  <2>1. IsDec(one) /\ one.n = One.n * Dec(worth, 0).n
    BY <1>2, TimesValue DEF ToSOL
  <2>2. 1 * worth \in Nat
    BY <1>1
  <2>3. QED
    BY <1>2, <2>1, <2>2
<1> HIDE DEF one
<1>4. IsDec(Times(price, one)) /\ Times(price, one).n = price.n * one.n
  BY <1>3, TimesValue
<1>5. price.n >= 0 => price.n * one.n >= 0
  BY <1>3 DEF IsDec
<1>6. IsDec(ToSOL(liquidity))
  BY <1>2, TimesValue DEF ToSOL
<1>7. /\ IsDec(LiquidityInSOL)
      /\ PriceOfMintAInSOL \in {One, price, Zero, Times(price, one)}
  BY <1>6 DEF LiquidityInSOL, PriceOfMintAInSOL, one
<1>8. QED
  BY <1>2, <1>4, <1>5, <1>7

\* The price of a pool, once it is known.
LEMMA PriceKnown ==
  ASSUME ValuesInv, Priced, proto # "bonding_curve"
  PROVE  SoundPrice(price)
<1>1. /\ price = PriceOfMintAInMintB /\ SoundReserves
      /\ proto \in Protocol /\ pool \in PoolStates[proto]
      /\ proto = "launchpad" => pool.price # "other"
  BY DEF ValuesInv, PricingInv, FromReserves, Accepted, Priced
<1>2. QED
  BY <1>1, PricesSound

\* Each step keeps the invariant.
LEMMA ReadKeeps ==
  ASSUME ValuesInv, ReadReserves, PricingInv'
  PROVE  ValuesInv'
<1> DEFINE a == ReserveOf(pool.a, pool.decA)
           b == ReserveOf(pool.b, pool.decB)
<1>1. /\ reserves' = [a |-> a, b |-> b] /\ pc' \in {"refused", "price"}
      /\ pc' = "price" => IF proto = "launchpad" THEN pool.price # "other"
                          ELSE ~IsZero(a) /\ ~IsZero(b)
      /\ UNCHANGED <<proto, pool, mints, worth, price, liquidity, priceSOL,
                     liquiditySOL, moved, caps>>
      /\ proto # "bonding_curve"
  BY DEF ReadReserves
<1>2. NumberedReserve(pool.a, pool.decA) /\ NumberedReserve(pool.b, pool.decB)
  BY <1>1, ReservesNumbered DEF ValuesInv, PricingInv
<1>3. /\ IsDec(a) /\ (a.n = 0 \/ a.e = pool.decA) /\ (Representable => a.n >= 0)
      /\ IsDec(b) /\ (b.n = 0 \/ b.e = pool.decB) /\ (Representable => b.n >= 0)
  BY <1>2 DEF NumberedReserve, Representable
<1> HIDE DEF a, b
<1>4. reserves'.a = a /\ reserves'.b = b
  BY <1>1
<1>5. Representable' = Representable
  BY <1>1 DEF Representable
<1>6. SoundReserves'
  BY <1>1, <1>3, <1>4, <1>5 DEF SoundReserves
<1>7. Accepted'
  BY <1>1, <1>3, <1>4, NotZero DEF Accepted
<1>8. InSOL' /\ FromReserves' /\ CurveValues' /\ CapBelowFDV'
  BY <1>1, <1>5 DEF InSOL, FromReserves, CurveValues, CapBelowFDV, Priced, ValuesInv
<1>9. mints' \in PairsOf(proto)' /\ worth' \in Worth /\ moved' \in BOOLEAN /\ AllNumbers'
  BY <1>1 DEF ValuesInv, PairsOf, AllNumbers
<1>10. QED
  BY <1>6, <1>7, <1>8, <1>9 DEF ValuesInv

LEMMA PriceKeeps ==
  ASSUME ValuesInv, PricePair, PricingInv'
  PROVE  ValuesInv'
<1> DEFINE p == PriceOfMintAInMintB
<1>1. /\ pc = "price" /\ proto # "bonding_curve" /\ SoundReserves
      /\ proto \in Protocol /\ pool \in PoolStates[proto]
      /\ proto = "launchpad" => pool.price # "other"
      /\ UNCHANGED <<proto, pool, mints, worth, reserves, priceSOL, liquiditySOL,
                     moved, caps>>
  BY DEF PricePair, ValuesInv, PricingInv
<1>2. SoundPrice(p)
  BY <1>1, PricesSound
<1>3. IsDec(p) /\ p # Panic
  BY <1>2, DecType DEF SoundPrice
<1>4. pc' = "priceSOL" /\ price' = p /\ liquidity' = LiquidityInMintB(p)
  BY <1>3 DEF PricePair
<1>5. p' = p /\ SoundReserves' /\ Representable' = Representable
  BY <1>1, Unread
<1>6. LiquidityInMintB(p) = LiquidityInMintB(price)'
  BY <1>1, <1>4 DEF LiquidityInMintB
<1> HIDE DEF p
<1>7. FromReserves'
  <2>1. price' = PriceOfMintAInMintB'
    BY <1>4, <1>5 DEF p
  <2>2. liquidity' = LiquidityInMintB(price)'
    BY <1>4, <1>6
  <2>3. QED
    BY <2>1, <2>2 DEF FromReserves
<1>8. IsDec(liquidity')
  BY <1>1, <1>3, <1>4, LiquidityNumber
<1>9. Accepted'
  BY <1>1, <1>4 DEF ValuesInv, Accepted
<1>10. InSOL' /\ CurveValues' /\ CapBelowFDV'
  BY <1>1, <1>4, <1>5 DEF InSOL, CurveValues, CapBelowFDV, ValuesInv
<1>11. mints' \in PairsOf(proto)' /\ worth' \in Worth /\ moved' \in BOOLEAN /\ AllNumbers'
  BY <1>1, <1>3, <1>4, <1>8 DEF ValuesInv, PairsOf, AllNumbers
<1>12. QED
  BY <1>5, <1>7, <1>9, <1>10, <1>11 DEF ValuesInv

LEMMA ConvertsKeep ==
  ASSUME ValuesInv, ConvertPrice \/ ConvertLiquidity, PricingInv'
  PROVE  ValuesInv'
<1>1. /\ UNCHANGED <<proto, pool, mints, worth, reserves, price, liquidity, moved, caps>>
      /\ proto # "bonding_curve"
      /\ Priced /\ Priced' /\ pc' # "done"
      /\ worth \in Worth /\ IsDec(price) /\ IsDec(liquidity)
  BY DEF ConvertPrice, ConvertLiquidity, Priced, ValuesInv, PricingInv, AllNumbers
<1>2. /\ PriceOfMintAInMintB' = PriceOfMintAInMintB /\ SoundReserves'
      /\ LiquidityInMintB(price)' = LiquidityInMintB(price)
      /\ Representable' = Representable
  BY <1>1, Unread DEF ValuesInv
<1>3. SoundPrice(price)
  BY <1>1, PriceKnown
<1>4. /\ IsDec(PriceOfMintAInSOL) /\ IsDec(LiquidityInSOL)
      /\ Representable => PriceOfMintAInSOL.n >= 0
  BY <1>1, <1>3, InSOLNumber DEF SoundPrice
<1>5. PriceOfMintAInSOL' = PriceOfMintAInSOL /\ LiquidityInSOL' = LiquidityInSOL
  BY <1>1 DEF PriceOfMintAInSOL, LiquidityInSOL, ToSOL
<1>6. /\ FromReserves' /\ Accepted' /\ CurveValues' /\ CapBelowFDV'
  <2>1. FromReserves'
    BY <1>1, <1>2 DEF FromReserves, ValuesInv
  <2>2. Accepted'
    BY <1>1 DEF Accepted, ValuesInv, Priced
  <2>3. CurveValues' /\ CapBelowFDV'
    BY <1>1 DEF CurveValues, CapBelowFDV
  <2>4. QED
    BY <2>1, <2>2, <2>3
<1>7. InSOL' /\ AllNumbers'
  <2>1. CASE ConvertPrice
    <3>1. pc' = "liquiditySOL" /\ priceSOL' = PriceOfMintAInSOL /\ UNCHANGED liquiditySOL
      BY <2>1 DEF ConvertPrice
    <3>2. QED
      BY <1>1, <1>2, <1>4, <1>5, <3>1 DEF InSOL, AllNumbers, ValuesInv
  <2>2. CASE ConvertLiquidity
    <3>1. /\ pc = "liquiditySOL" /\ pc' = "supply"
          /\ liquiditySOL' = LiquidityInSOL /\ UNCHANGED priceSOL
      BY <2>2 DEF ConvertLiquidity
    <3>2. QED
      BY <1>1, <1>2, <1>4, <1>5, <3>1 DEF InSOL, AllNumbers, ValuesInv
  <2>3. QED
    BY <2>1, <2>2
<1>8. mints' \in PairsOf(proto)' /\ worth' \in Worth /\ moved' \in BOOLEAN
  BY <1>1 DEF ValuesInv, PairsOf
<1>9. QED
  BY <1>2, <1>6, <1>7, <1>8 DEF ValuesInv

LEMMA BridgeKeeps ==
  ASSUME ValuesInv, BridgeFails \/ BridgeMoves, PricingInv'
  PROVE  ValuesInv'
<1>1. /\ UNCHANGED <<proto, pool, mints, reserves, price, liquidity, priceSOL,
                     liquiditySOL, caps>>
      /\ pc \in {"priceSOL", "liquiditySOL"} /\ worth' \in Worth
      /\ \/ pc' = "refused" /\ moved' = moved
         \/ pc = "liquiditySOL" /\ pc' = pc /\ moved' = TRUE
  BY DEF BridgeFails, BridgeMoves, AsksForPrice, AsksForLiquidity, ValuesInv
<1>2. /\ PriceOfMintAInMintB' = PriceOfMintAInMintB /\ SoundReserves'
      /\ LiquidityInMintB(price)' = LiquidityInMintB(price)
      /\ Representable' = Representable
  BY <1>1, Unread DEF ValuesInv
<1>3. FromReserves'
  BY <1>1, <1>2 DEF FromReserves, ValuesInv, Priced
<1>4. Accepted' /\ CurveValues' /\ CapBelowFDV'
  BY <1>1 DEF Accepted, CurveValues, CapBelowFDV, ValuesInv
<1>5. InSOL' /\ AllNumbers'
  BY <1>1, <1>2 DEF InSOL, AllNumbers, ValuesInv
<1>6. mints' \in PairsOf(proto)' /\ worth' \in Worth /\ moved' \in BOOLEAN
  BY <1>1 DEF ValuesInv, PairsOf
<1>7. QED
  BY <1>2, <1>3, <1>4, <1>5, <1>6 DEF ValuesInv

LEMMA SupplyKeeps ==
  ASSUME ValuesInv, Supply, PricingInv'
  PROVE  ValuesInv'
<1>1. /\ UNCHANGED <<proto, pool, mints, worth, reserves, price, liquidity, priceSOL,
                     liquiditySOL, moved>>
      /\ pc = "supply" /\ pc' = "done" /\ proto # "bonding_curve"
      /\ IsDec(priceSOL) /\ (Representable => priceSOL.n >= 0)
  BY DEF Supply, ValuesInv, PricingInv, AllNumbers, InSOL
<1>2. PICK total \in SupplyAmount, curve \in SupplyAmount :
        LET t == FromU64(total, pool.decA)
            f == FDVSupply(t, FromU64(curve, CurvePlaces))
        IN caps' = [total |-> t, circulating |-> t,
                    market |-> Times(priceSOL, t), fdv |-> Times(priceSOL, f)]
  BY DEF Supply
<1> DEFINE t == FromU64(total, pool.decA)
           f == FDVSupply(t, FromU64(curve, CurvePlaces))
<1>3. /\ caps'.total = t /\ caps'.circulating = t
      /\ caps'.market = Times(priceSOL, t) /\ caps'.fdv = Times(priceSOL, f)
  BY <1>2
<1>4. total \in Nat /\ curve \in Nat /\ pool.decA \in Int /\ CurvePlaces \in Int
  BY AmountAssumption, PlacesAssumption, DecimalsOf DEF U64, ValuesInv, PricingInv
<1>5. /\ IsDec(t) /\ IsDec(Times(priceSOL, t)) /\ IsDec(Times(priceSOL, f)) /\ ~Less(t, t)
      /\ priceSOL.n >= 0 => ~Less(Times(priceSOL, f), Times(priceSOL, t))
  BY <1>1, <1>4, CapsOrdered
<1> HIDE DEF t, f
<1>6. /\ PriceOfMintAInMintB' = PriceOfMintAInMintB /\ SoundReserves'
      /\ LiquidityInMintB(price)' = LiquidityInMintB(price)
      /\ Representable' = Representable
  BY <1>1, Unread DEF ValuesInv
<1>7. PriceOfMintAInSOL' = PriceOfMintAInSOL /\ LiquidityInSOL' = LiquidityInSOL
  BY <1>1 DEF PriceOfMintAInSOL, LiquidityInSOL, ToSOL
<1>8. FromReserves'
  BY <1>1, <1>6 DEF FromReserves, ValuesInv, Priced
<1>9. Accepted' /\ CurveValues'
  BY <1>1 DEF Accepted, CurveValues, ValuesInv
<1>10. InSOL'
  BY <1>1, <1>6, <1>7 DEF InSOL, ValuesInv
<1>11. CapBelowFDV' /\ AllNumbers'
  <2>1. CapBelowFDV'
    BY <1>1, <1>3, <1>5, <1>6 DEF CapBelowFDV
  <2>2. AllNumbers'
    BY <1>1, <1>3, <1>5 DEF AllNumbers, ValuesInv
  <2>3. QED
    BY <2>1, <2>2
<1>12. mints' \in PairsOf(proto)' /\ worth' \in Worth /\ moved' \in BOOLEAN
  BY <1>1 DEF ValuesInv, PairsOf
<1>13. QED
  BY <1>6, <1>8, <1>9, <1>10, <1>11, <1>12 DEF ValuesInv

\* What is bought of a bonding curve is never more than its total.
LEMMA CirculatingBelowTotal ==
  ASSUME proto \in Protocol, pool \in PoolStates[proto], proto = "bonding_curve"
  PROVE  /\ IsDec(CurveCirculating) /\ IsDec(FromU64(pool.a.total, pool.decA))
         /\ ~Less(FromU64(pool.a.total, pool.decA), CurveCirculating)
<1>1. /\ pool.a.total \in Nat /\ pool.a.real \in Nat
      /\ pool.decA \in Nat /\ pool.decA \in Int
  <2>1. pool.a.total \in U64 /\ pool.a.real \in U64
    BY AccountsOf
  <2>2. pool.decA \in Nat
    BY DecimalsOf
  <2>3. QED
    BY <2>1, <2>2 DEF U64
<1> DEFINE t == FromU64(pool.a.total, pool.decA)
           rest == pool.a.total - pool.a.real
           left == Dec(rest, pool.decA)
<1>2. /\ IsDec(t) /\ t.n = pool.a.total /\ t.e = pool.decA
  BY <1>1, DecType DEF FromU64
<1>3. rest \in Int /\ rest <= pool.a.total
  BY <1>1
<1>4. CurveCirculating = IF rest < 0 THEN Zero ELSE left
  <2>1. \A m, n \in Int :
           /\ Plus(Dec(m, pool.decA), Dec(n, pool.decA)) = Dec(m + n, pool.decA)
           /\ Minus(Dec(m, pool.decA), Dec(n, pool.decA)) = Dec(m - n, pool.decA)
    BY <1>1, Sums
  <2>2. Minus(FromU64(pool.a.total, pool.decA), CurveReal.a) = left
    <3>1. CurveReal.a = Dec(pool.a.real, pool.decA)
      BY DEF CurveReal, FromU64
    <3>2. pool.a.total \in Int /\ pool.a.real \in Int
      BY <1>1
    <3>3. QED
      BY <2>1, <3>1, <3>2 DEF FromU64
  <2>3. left.n = rest
    BY Numbers
  <2>4. QED
    BY <2>2, <2>3 DEF CurveCirculating
<1> HIDE DEF t, rest
<1>5. IsDec(left) /\ left.n = rest /\ left.e = pool.decA
  BY <1>1, <1>3, DecType
<1> HIDE DEF left
<1>6. ~Less(t, left)
  BY <1>1, <1>2, <1>3, <1>5, LessAtOneScale
<1>7. ~Less(t, Zero)
  <2>1. IsDec(Zero) /\ Zero.e <= pool.decA /\ t.e <= pool.decA /\ Zero.n = 0 /\ Zero.e = 0
    BY <1>1, <1>2, DecType
  <2>2. Less(t, Zero) <=> Value(t, pool.decA) < Value(Zero, pool.decA)
    BY <1>1, <1>2, <2>1, LessValue
  <2>3. Value(t, pool.decA) = pool.a.total
    <3>1. pool.decA - pool.decA = 0
      BY <1>1
    <3>2. QED
      BY <1>1, <1>2, <3>1, PowerStep DEF Value
  <2>4. Value(Zero, pool.decA) = 0
    <3>1. pool.decA - 0 \in Nat /\ Power[pool.decA - 0] \in Nat
      BY <1>1, PowerType
    <3>2. QED
      BY <2>1, <3>1 DEF Value
  <2>5. QED
    BY <1>1, <2>2, <2>3, <2>4
<1>8. QED
  BY <1>2, <1>4, <1>5, <1>6, <1>7, DecType DEF t

LEMMA CurveKeeps ==
  ASSUME ValuesInv, CurveMetrics, PricingInv'
  PROVE  ValuesInv'
<1>1. /\ proto = "bonding_curve" /\ proto \in Protocol /\ pool \in PoolStates[proto]
      /\ UNCHANGED <<proto, pool, mints, worth, moved>>
  BY DEF CurveMetrics, ValuesInv, PricingInv
<1> DEFINE t == FromU64(pool.a.total, pool.decA)
           l == CurveReal.b
           m == PairMetrics(CurvePrice, l)
<1>2. CurvePrice # Panic /\ m.inB # Panic
  BY CurveIsNumber
<1>3. /\ pc' = "done" /\ reserves' = CurveReal
      /\ price' = m.inB /\ liquidity' = m.liquidity
      /\ priceSOL' = m.inSOL /\ liquiditySOL' = l
      /\ caps' = [total |-> t, circulating |-> CurveCirculating,
                  market |-> Times(m.inSOL, t), fdv |-> Times(m.inSOL, t)]
  BY <1>2 DEF CurveMetrics
<1>4. /\ IsDec(m.inB) /\ IsDec(m.inSOL) /\ m.inSOL.n >= 0 /\ m.liquidity = l
      /\ ~IsSOL(mints.a) => m.inB = m.inSOL
  BY <1>1, CurveSound
<1>5. IsDec(CurveCirculating) /\ IsDec(t) /\ ~Less(t, CurveCirculating)
  BY <1>1, CirculatingBelowTotal
<1>6. /\ IsDec(CurveReal.a) /\ CurveReal.a.e = pool.decA /\ CurveReal.a.n >= 0
      /\ IsDec(l) /\ l.e = pool.decB /\ l.n >= 0
  <2>1. pool.a.real \in U64 /\ pool.b.real \in U64
    BY <1>1, AccountsOf
  <2>2. pool.decA \in Int /\ pool.decB \in Int
    BY <1>1, DecimalsOf
  <2>3. /\ pool.a.real \in Int /\ pool.a.real >= 0
        /\ pool.b.real \in Int /\ pool.b.real >= 0
    BY <2>1 DEF U64
  <2>4. QED
    BY <2>2, <2>3, DecType DEF CurveReal, FromU64
<1>7. reserves'.a = CurveReal.a /\ reserves'.b = l
  BY <1>3
<1> HIDE DEF t, l, m
<1>8. IsDec(Times(m.inSOL, t)) /\ ~Less(Times(m.inSOL, t), Times(m.inSOL, t))
  <2>1. IsDec(Times(m.inSOL, t))
    BY <1>4, <1>5, TimesValue
  <2>2. QED
    BY <2>1, LessAtOneScale DEF IsDec
<1>9. /\ caps'.total = t /\ caps'.circulating = CurveCirculating
      /\ caps'.market = Times(m.inSOL, t) /\ caps'.fdv = Times(m.inSOL, t)
  BY <1>3
<1>10. Representable' /\ SoundReserves'
  BY <1>1, <1>6, <1>7 DEF Representable, SoundReserves
<1>11. AllNumbers' /\ CapBelowFDV'
  BY <1>3, <1>4, <1>5, <1>6, <1>8, <1>9 DEF AllNumbers, CapBelowFDV
<1>12. InSOL' /\ CurveValues' /\ FromReserves' /\ Accepted'
  <2>1. mints' = mints
    BY <1>1
  <2>2. CurveValues'
    BY <1>3, <1>4, <1>6, <2>1 DEF CurveValues
  <2>3. InSOL' /\ FromReserves' /\ Accepted'
    BY <1>1, <1>3, <1>4 DEF InSOL, FromReserves, Accepted
  <2>4. QED
    BY <2>2, <2>3
<1>13. mints' \in PairsOf(proto)' /\ worth' \in Worth /\ moved' \in BOOLEAN
  BY <1>1 DEF ValuesInv, PairsOf
<1>14. QED
  BY <1>10, <1>11, <1>12, <1>13 DEF ValuesInv

LEMMA ValuesStep ==
  ASSUME ValuesInv, [Next]_vars
  PROVE  ValuesInv'
<1>1. PricingInv'
  BY PricingStep DEF ValuesInv
<1>2. CASE ReadReserves
  BY <1>1, <1>2, ReadKeeps
<1>3. CASE PricePair
  BY <1>1, <1>3, PriceKeeps
<1>4. CASE ConvertPrice \/ ConvertLiquidity
  BY <1>1, <1>4, ConvertsKeep
<1>5. CASE BridgeFails \/ BridgeMoves
  BY <1>1, <1>5, BridgeKeeps
<1>6. CASE Supply
  BY <1>1, <1>6, SupplyKeeps
<1>7. CASE CurveMetrics
  BY <1>1, <1>7, CurveKeeps
<1>8. CASE Returned \/ UNCHANGED vars
  <2>1. UNCHANGED vars
    BY <1>8 DEF Returned
  <2>2. UNCHANGED <<proto, pool, mints, worth, pc, reserves, price, liquidity,
                    priceSOL, liquiditySOL, moved, caps>>
    BY <2>1 DEF vars
  <2>3. /\ PriceOfMintAInMintB' = PriceOfMintAInMintB /\ SoundReserves'
        /\ LiquidityInMintB(price)' = LiquidityInMintB(price)
        /\ Representable' = Representable
    BY <2>2, Unread DEF ValuesInv
  <2>4. PriceOfMintAInSOL' = PriceOfMintAInSOL /\ LiquidityInSOL' = LiquidityInSOL
    BY <2>2 DEF PriceOfMintAInSOL, LiquidityInSOL, ToSOL
  <2>5. FromReserves' /\ InSOL'
    BY <2>2, <2>3, <2>4 DEF ValuesInv, FromReserves, InSOL, Priced
  <2>6. AllNumbers' /\ Accepted' /\ CurveValues' /\ CapBelowFDV'
    BY <2>2, <2>3 DEF ValuesInv, AllNumbers, Accepted, CurveValues, CapBelowFDV
  <2>7. mints' \in PairsOf(proto)' /\ worth' \in Worth /\ moved' \in BOOLEAN
    BY <2>2 DEF ValuesInv, PairsOf
  <2>8. QED
    BY <1>1, <2>3, <2>5, <2>6, <2>7 DEF ValuesInv
<1>9. QED
  BY <1>2, <1>3, <1>4, <1>5, <1>6, <1>7, <1>8 DEF Next

LEMMA ValuesInit == Init => ValuesInv
<1> SUFFICES ASSUME Init PROVE ValuesInv
  OBVIOUS
<1>1. PricingInv
  BY DEF Init, PricingInv
<1>2. /\ reserves.a = Zero /\ reserves.b = Zero /\ pc = "reserves"
      /\ price = Zero /\ liquidity = Zero /\ priceSOL = Zero /\ liquiditySOL = Zero
      /\ caps.total = Zero /\ caps.circulating = Zero
      /\ caps.market = Zero /\ caps.fdv = Zero
      /\ mints \in PairsOf(proto) /\ worth \in Worth /\ moved = FALSE
  BY DEF Init
<1>3. AllNumbers /\ SoundReserves
  BY <1>2, DecType DEF AllNumbers, SoundReserves
<1>4. Accepted /\ FromReserves /\ InSOL /\ CurveValues /\ CapBelowFDV
  BY <1>2, DecType DEF Accepted, FromReserves, InSOL, CurveValues, CapBelowFDV, Priced
<1>5. QED
  BY <1>1, <1>2, <1>3, <1>4 DEF ValuesInv

\* The inductive invariant of the values holds in every reachable state.
THEOREM ValuesInvariance == Spec => []ValuesInv
<1>1. Init => ValuesInv
  BY ValuesInit
<1>2. ValuesInv /\ [Next]_vars => ValuesInv'
  BY ValuesStep
<1>3. QED
  BY <1>1, <1>2, PTL DEF Spec

\* Reserves, prices and every value are numbers, and calculators that divide once
\* give the price of the pool (Ratio, FromSqrt, FromCurve) to half a unit of the
\* last place, for every base and precision and whatever the accounts hold.
THEOREM PricesAreAccurate == Spec => []PriceAccurate
<1>1. ASSUME ValuesInv PROVE TypeOK
  <2>1. /\ proto \in Protocol /\ mints \in Pairs /\ worth \in Worth /\ moved \in BOOLEAN
        /\ pc \in {"reserves", "price", "priceSOL", "liquiditySOL", "supply",
                   "done", "refused"}
    <3>1. mints \in PairsOf(proto)
      BY <1>1 DEF ValuesInv
    <3>2. mints \in Pairs
      BY <3>1 DEF PairsOf, Pairs
    <3>3. QED
      BY <1>1, <3>2 DEF ValuesInv, PricingInv
  <2>2. IsDec(reserves.a) /\ IsDec(reserves.b) /\ AllNumbers
    BY <1>1 DEF ValuesInv, SoundReserves
  <2>3. \A d \in {reserves.a, reserves.b, price, liquidity, priceSOL, liquiditySOL,
                  caps.total, caps.circulating, caps.market, caps.fdv} : IsDec(d)
    BY <2>2 DEF AllNumbers
  <2>4. /\ IsZero(reserves.a) \/ reserves.a.e = pool.decA
        /\ IsZero(reserves.b) \/ reserves.b.e = pool.decB
    BY <1>1, <2>2, NotZero DEF ValuesInv, SoundReserves
  <2>5. QED
    BY <2>1, <2>3, <2>4 DEF TypeOK
<1>2. ASSUME ValuesInv PROVE PriceAccurate
  <2>1. Priced /\ proto \in ByRatio \cup BySqrt \cup {"launchpad"} => SoundPrice(price)
    BY <1>2, PriceKnown DEF ByRatio, BySqrt
  <2>2. QED
    BY <1>1, <1>2, <2>1 DEF PriceAccurate, SoundPrice, Accurate, Raised
<1>3. QED
  BY <1>2, ValuesInvariance, PTL

\* Total liquidity is the value of both sides at the price that goes with it: to
\* the sum where a calculator adds, up to the price's rounding where it doubles.
THEOREM LiquidityIsTwoSided == Spec => []TwoSidedPools
<1>1. ASSUME ValuesInv, proto \notin {"clmm", "dlmm", "bonding_curve"},
             Priced, Representable
      PROVE  Within(liquidity, Plus(reserves.b, Times(reserves.a, price)),
                    Times(reserves.a, Dec(1, price.e)))
  <2>1. /\ proto \in Protocol /\ pool \in PoolStates[proto]
        /\ SoundReserves /\ Accepted /\ FromReserves
        /\ proto # "bonding_curve"
    BY <1>1 DEF ValuesInv, PricingInv
  <2>2. /\ price = PriceOfMintAInMintB /\ liquidity = LiquidityInMintB(price)
        /\ reserves.a.n >= 0 /\ reserves.b.n >= 0
        /\ IsDec(reserves.a) /\ IsDec(reserves.b)
    BY <1>1, <2>1 DEF FromReserves, SoundReserves
  <2>3. IsDec(price)
    BY <1>1, PriceKnown DEF SoundPrice
  <2>4. CASE proto \in Doubling
    <3>1. proto \in {"pumpswap", "cpmm", "liquidity_v4"}
      BY <1>1, <2>4 DEF Doubling
    <3>2. price = Ratio
      BY <2>2, <3>1 DEF PriceOfMintAInMintB, ByRatio, BySqrt
    <3>3. liquidity = Times(reserves.b, Dec(2, 0))
      BY <2>2, <2>4 DEF LiquidityInMintB
    <3>4. reserves.a.n # 0 /\ reserves.b.n # 0
      BY <1>1, <2>1, <3>1 DEF Accepted, Priced
    <3>5. reserves.a.n > 0 /\ reserves.b.n > 0
      BY <2>2, <3>4 DEF IsDec
    <3>6. DecimalsAreNat
      BY <2>1, DecimalsOf DEF DecimalsAreNat
    <3>7. QED
      BY <2>1, <3>2, <3>3, <3>5, <3>6, Doubled
  <2>5. CASE proto \notin Doubling
    <3> DEFINE y == Plus(reserves.b, Times(reserves.a, price))
               d == Times(reserves.a, Dec(1, price.e))
    <3>1. liquidity = y
      BY <2>2, <2>5 DEF LiquidityInMintB
    <3>2. IsDec(y)
      BY <2>2, <2>3, TimesValue, PlusValue
    <3>3. IsDec(Dec(1, price.e)) /\ Dec(1, price.e).n = 1
      BY <2>3, DecType DEF IsDec
    <3>4. IsDec(d) /\ d.n = reserves.a.n * 1
      BY <2>2, <3>3, TimesValue
    <3>5. d.n >= 0
      BY <2>2, <3>4 DEF IsDec
    <3> HIDE DEF y, d
    <3>6. Within(y, y, d)
      BY <3>2, <3>4, <3>5, WithinSame
    <3>7. QED
      BY <3>1, <3>6 DEF y, d
  <2>6. QED
    BY <2>4, <2>5
<1>2. ValuesInv => TwoSidedPools
  BY <1>1 DEF TwoSidedPools, TwoSided
<1>3. QED
  BY <1>2, ValuesInvariance, PTL

\* A sum is not negative if its parts are not.
LEMMA PlusPositive ==
  ASSUME NEW x, NEW y, IsDec(x), IsDec(y), x.n >= 0, y.n >= 0
  PROVE  IsDec(Plus(x, y)) /\ Plus(x, y).n >= 0
<1> DEFINE e == Larger(x.e, y.e)
           s == Plus(x, y)
<1>1. e \in Int /\ x.e <= e /\ y.e <= e /\ e - x.e \in Nat /\ e - y.e \in Nat /\ e - e = 0
  BY DEF Larger, IsDec
<1>2. IsDec(s) /\ s.e = e /\ Value(s, e) = Value(x, e) + Value(y, e)
  BY <1>1, PlusValue
<1> HIDE DEF e, s
<1>3. Power[e - x.e] \in Nat /\ Power[e - y.e] \in Nat /\ x.n \in Nat /\ y.n \in Nat
  BY <1>1, PowerType DEF IsDec
<1>4. Value(x, e) \in Nat /\ Value(y, e) \in Nat
  BY <1>3 DEF Value
<1>5. Value(s, e) = s.n
  BY <1>1, <1>2, PowerStep DEF Value, IsDec
<1>6. QED
  BY <1>2, <1>4, <1>5 DEF s

\* The two pairs of values of a pool agree on what B is worth.
LEMMA PoolWorth ==
  ASSUME ValuesInv, pc = "done", proto # "bonding_curve", ~moved, ~IsSOL(mints.a)
  PROVE  /\ IsDec(Times(liquiditySOL, price)) /\ IsDec(Times(liquidity, priceSOL))
         /\ Times(liquiditySOL, price).n = Times(liquidity, priceSOL).n
         /\ Times(liquiditySOL, price).e = Times(liquidity, priceSOL).e
              \/ Times(liquidity, priceSOL).n = 0
<1>1. /\ IsDec(price) /\ IsDec(liquidity) /\ IsDec(priceSOL) /\ IsDec(liquiditySOL)
      /\ worth \in Nat /\ worth \in Int
      /\ priceSOL = PriceOfMintAInSOL /\ liquiditySOL = LiquidityInSOL
  BY WorthAssumption DEF ValuesInv, AllNumbers, InSOL
<1>2. /\ price.n \in Int /\ price.e \in Int /\ liquidity.n \in Int /\ liquidity.e \in Int
  BY <1>1 DEF IsDec
<1>3. /\ IsDec(Times(liquiditySOL, price)) /\ IsDec(Times(liquidity, priceSOL))
      /\ Times(liquiditySOL, price).n = liquiditySOL.n * price.n
      /\ Times(liquiditySOL, price).e = liquiditySOL.e + price.e
      /\ Times(liquidity, priceSOL).n = liquidity.n * priceSOL.n
      /\ Times(liquidity, priceSOL).e = liquidity.e + priceSOL.e
  BY <1>1, TimesValue
<1>4. CASE IsSOL(mints.b)
  <2>1. priceSOL = price /\ liquiditySOL = liquidity
    BY <1>1, <1>4 DEF PriceOfMintAInSOL, LiquidityInSOL
  <2>2. QED
    BY <1>2, <1>3, <2>1
<1>5. CASE ~IsSOL(mints.b)
  <2> DEFINE one == ToSOL(One)
             w == Dec(worth, 0)
  <2>1. IsDec(w) /\ w.n = worth /\ w.e = 0 /\ IsDec(One) /\ One.n = 1 /\ One.e = 0
    BY <1>1, DecType
  <2> HIDE DEF w
  <2>2. IsDec(one) /\ one.n = worth /\ one.e = 0
    <3>1. IsDec(one) /\ one.n = 1 * worth /\ one.e = 0 + 0
      BY <2>1, TimesValue DEF ToSOL, w
    <3>2. QED
      BY <1>1, <3>1
  <2>3. liquiditySOL = Times(liquidity, w)
    BY <1>1, <1>5 DEF LiquidityInSOL, ToSOL, w
  <2>4. liquiditySOL.n = liquidity.n * worth /\ liquiditySOL.e = liquidity.e
    <3>1. liquiditySOL.n = liquidity.n * worth /\ liquiditySOL.e = liquidity.e + 0
      BY <1>1, <2>1, <2>3, TimesValue
    <3>2. QED
      BY <1>2, <3>1
  <2>5. priceSOL = IF IsZero(one) THEN Zero ELSE Times(price, one)
    BY <1>1, <1>5 DEF PriceOfMintAInSOL
  <2> HIDE DEF one
  <2>6. CASE worth = 0
    <3>1. priceSOL.n = 0
      BY <2>2, <2>5, <2>6, NotZero, DecType
    <3>2. liquiditySOL.n = 0
      BY <1>2, <2>4, <2>6
    <3>3. QED
      BY <1>2, <1>3, <3>1, <3>2
  <2>7. CASE worth # 0
    <3>1. priceSOL = Times(price, one)
      BY <2>2, <2>5, <2>7, NotZero
    <3>2. priceSOL.n = price.n * worth /\ priceSOL.e = price.e + 0
      BY <1>1, <2>2, <3>1, TimesValue
    <3>3. (liquidity.n * worth) * price.n = liquidity.n * (price.n * worth)
      BY <1>1, <1>2
    <3>4. QED
      BY <1>2, <1>3, <2>4, <3>2, <3>3
  <2>8. QED
    BY <2>6, <2>7
<1>6. QED
  BY <1>4, <1>5

\* Zeros of any scale, or equal coefficients of one scale, are the same value.
LEMMA WithinNothing ==
  ASSUME NEW x, NEW y, IsDec(x), IsDec(y), x.n = y.n, x.e = y.e \/ y.n = 0
  PROVE  Within(x, y, Zero)
<1>1. IsDec(Zero) /\ Zero.n >= 0 /\ Zero.n = 0
  BY DecType
<1>2. CASE x.e = y.e
  BY <1>1, <1>2, WithinSame
<1>3. CASE y.n = 0
  <2> DEFINE k == Larger(Larger(x.e, y.e), Zero.e)
  <2>1. k \in Int /\ x.e <= k /\ y.e <= k /\ Zero.e <= k
    BY <1>1 DEF Larger, IsDec
  <2> HIDE DEF k
  <2>2. /\ Power[k - x.e] \in Nat /\ Power[k - y.e] \in Nat /\ Power[k - Zero.e] \in Nat
    <3>1. k - x.e \in Nat /\ k - y.e \in Nat /\ k - Zero.e \in Nat
      BY <1>1, <2>1 DEF IsDec
    <3>2. QED
      BY <3>1, PowerType
  <2>3. Value(x, k) = 0 /\ Value(y, k) = 0 /\ Value(Zero, k) = 0
    BY <1>1, <1>3, <2>2 DEF Value
  <2>4. QED
    BY <1>1, <2>1, <2>3, WithinValue
<1>4. QED
  BY <1>2, <1>3

\* The values of one answer agree: price and liquidity on what B is worth, unless
\* the bridge moved in between (PriceOfMintAInSOL, LiquidityInSOL), and the caps on
\* which supply is the larger (FDVSupply).
THEOREM ValuesDoAgree == Spec => []ValuesAgree
<1>1. ASSUME ValuesInv, ~IsSOL(mints.a), ~moved, pc = "done"
      PROVE  Within(Times(liquiditySOL, price), Times(liquidity, priceSOL), Rounding)
  <2>1. CASE proto # "bonding_curve"
    <3>1. Rounding = Zero
      BY <2>1 DEF Rounding
    <3>2. QED
      BY <1>1, <2>1, <3>1, PoolWorth, WithinNothing
  <2>2. CASE proto = "bonding_curve"
    <3>1. /\ price = priceSOL /\ liquidity = liquiditySOL
          /\ liquiditySOL.n >= 0 /\ priceSOL.n >= 0
          /\ IsDec(priceSOL) /\ IsDec(liquiditySOL)
      BY <1>1, <2>2 DEF ValuesInv, CurveValues, InSOL, AllNumbers, Representable
    <3> DEFINE sum == Plus(liquiditySOL, priceSOL)
               unit == Dec(1, Precision)
    <3>2. IsDec(sum) /\ sum.n >= 0
      BY <3>1, PlusPositive
    <3>3. IsDec(unit) /\ unit.n = 1
      BY PrecisionAssumption, DecType
    <3>4. Rounding = Times(unit, sum)
      BY <2>2 DEF Rounding
    <3> HIDE DEF sum, unit
    <3>5. IsDec(Rounding) /\ Rounding.n = 1 * sum.n
      BY <3>2, <3>3, <3>4, TimesValue
    <3>6. Rounding.n >= 0
      BY <3>2, <3>5 DEF IsDec
    <3>7. IsDec(Times(liquiditySOL, priceSOL))
      BY <3>1, TimesValue
    <3>8. QED
      BY <3>1, <3>5, <3>6, <3>7, WithinSame
  <2>3. QED
    BY <2>1, <2>2
<1>2. ValuesInv => ValuesAgree
  BY <1>1 DEF ValuesAgree, SameWorth, ValuesInv
<1>3. QED
  BY <1>2, ValuesInvariance, PTL
=============================================================================
