---------------------------- MODULE PairPricing -----------------------------
(***************************************************************************)
(* What a calculator computes once it has read its accounts: reserves,     *)
(* the price of mint A in mint B, liquidity, their values in SOL, and the  *)
(* caps.  Every calculator asks for mint A = the first mint of the pool    *)
(* and mint B = the second, so only that direction is modelled; for the    *)
(* bonding curve the two mints come from the request.                      *)
(*                                                                         *)
(* Values in SOL come from a bridge that is asked once for the price and   *)
(* once for the liquidity; what a token is worth may change in between.    *)
(***************************************************************************)
EXTENDS ReserveMath, Decimals, FiniteSets

CONSTANTS
  Protocol,       \* names of the protocols tried
  Amount,         \* raw amounts tried on the side of mint A
  QuoteAmount,    \* raw amounts tried on the side of mint B
  Places,         \* decimals of mints tried
  FewA, FewB,     \* those of mint A and mint B tried with a vault or a curve
  SqrtPrice,      \* square root prices tried, in units of 1 / SqrtOne
  SqrtOne,        \* 2^64: the square root price of 1
  BinPrice,       \* coefficients of DLMM's bin prices tried, of Precision places
  Time,           \* values of the clock and of a vault's report
  Degradation,    \* how fast a vault's profit unlocks
  Worth,          \* SOL a token may be worth to the bridge; 0: it knows no price
  SupplyAmount,   \* total supplies tried
  CurvePlaces     \* decimals FDV takes a bonding curve's supply to have (6)

ASSUME ProtocolAssumption ==
  Protocol \subseteq {"pumpswap", "cpmm", "clmm", "liquidity_v4", "damm_v2", "whirlpool",
                      "dbc", "dlmm", "damm_v1", "launchpad", "bonding_curve"}
ASSUME AmountAssumption == Amount \cup QuoteAmount \cup SupplyAmount \subseteq U64
ASSUME SqrtAssumption == SqrtOne \in Nat \ {0} /\ SqrtPrice \subseteq Nat
ASSUME WorthAssumption == BinPrice \cup Worth \subseteq Nat
ASSUME PlacesAssumption == Places \cup FewA \cup FewB \cup {CurvePlaces} \subseteq Nat
ASSUME TimeAssumption ==  \* a clock is signed, a report and a rate are not
  Time \subseteq -Word .. Word - 1 /\ Degradation \subseteq U64
----------------------------------------------------------------------------
VARIABLES
  proto,         \* the calculator
  pool,          \* the amounts it has read
  mints,         \* what mint A and mint B are
  worth,         \* SOL one mint B is worth to the bridge now
  pc,            \* where Compute is
  reserves,      \* of mint A and mint B
  price,         \* of A in B
  liquidity,     \* in B
  priceSOL,
  liquiditySOL,
  moved,         \* the bridge has changed its mind since it gave a price
  caps           \* supply, market cap and fully diluted value

vars == <<proto, pool, mints, worth, pc, reserves, price, liquidity,
          priceSOL, liquiditySOL, moved, caps>>
----------------------------------------------------------------------------
(* What the accounts of a pool may hold.                                   *)

Pools(sideA, sideB, prices) ==
  [a : sideA, b : sideB, decA : Places, decB : Places, price : prices, clock : {0}]
Balance(amounts) == [held : amounts]
WithFee(amounts) == [held : amounts, fee : amounts]
WithFees(amounts) == [held : amounts, fee : amounts, fund : amounts]
WithOrders(amounts) == [held : amounts, orders : amounts, pnl : amounts]
VaultShare(amounts, profits) ==
  {[share |-> s, supply |-> p, total |-> t, profit |-> l, report |-> r, degrade |-> d] :
     s \in amounts, p \in amounts, t \in amounts, l \in profits,
     r \in Time \cap U64, d \in Degradation}
VirtualPools == [virtual : QuoteAmount, real : QuoteAmount]

PoolStates ==
  [pumpswap     |-> Pools(Balance(Amount), Balance(QuoteAmount), {0}),
   cpmm         |-> Pools(WithFees(Amount), Balance(QuoteAmount), {0}),
   clmm         |-> Pools(WithFees(Amount), Balance(QuoteAmount), SqrtPrice),
   liquidity_v4 |-> Pools(WithOrders(Amount), Balance(QuoteAmount), {0}),
   damm_v2      |-> Pools(WithFee(Amount), Balance(QuoteAmount), SqrtPrice),
   whirlpool    |-> Pools(WithFee(Amount), Balance(QuoteAmount), SqrtPrice),
   dbc          |-> Pools(Balance(Amount), Balance(QuoteAmount), SqrtPrice),
   dlmm         |-> Pools(Balance(Amount), Balance(QuoteAmount), BinPrice),
   damm_v1      |-> [a : VaultShare(Amount, Amount), b : Balance(QuoteAmount),
                     decA : FewA, decB : FewB, price : {0}, clock : Time],
   launchpad    |-> Pools([total : Amount, virtual : Amount, real : Amount],
                          VirtualPools, {"constant", "fixed", "linear", "other"}),
   bonding_curve |-> [a : [virtual : Amount, real : Amount, total : Amount],
                      b : VirtualPools, decA : FewA, decB : FewB, price : {0}, clock : {0}]]

\* The second side of most pools is only varied in its balance.
Deduction(side, name) == IF name \in DOMAIN side THEN side[name] ELSE 0
----------------------------------------------------------------------------
(* Reserves.                                                               *)

OpenOrdersReserve(side, dec) ==
  LET reserve == Minus(Plus(FromU64(side.held, dec), FromU64(Deduction(side, "orders"), dec)),
                       FromU64(Deduction(side, "pnl"), dec))
  IN IF reserve.n < 0 THEN Zero ELSE reserve

\* The pool's share of its vault.
ShareReserve(side, clock) ==
  IF "share" \notin DOMAIN side THEN side.held
  ELSE AmountByShare(side.share, VaultWithdrawable(clock, side), side.supply)

ReserveOf(side, dec) ==
  CASE proto = "pumpswap" -> Shift(Dec(Int64(side.held), 0), -dec)
    [] proto \in {"cpmm", "clmm"} ->
         FromU64(SubtractFees(side.held, Deduction(side, "fee"), Deduction(side, "fund")), dec)
    [] proto \in {"damm_v2", "whirlpool"} ->
         FromU64(SubtractProtocolFee(side.held, Deduction(side, "fee")), dec)
    [] proto = "liquidity_v4" -> OpenOrdersReserve(side, dec)
    [] proto = "damm_v1" -> FromU64(ShareReserve(side, pool.clock), dec)
    [] proto = "launchpad" ->
         FromU64(IF "total" \in DOMAIN side THEN RemainingBase(side.total, side.real)
                 ELSE side.real, dec)
    [] OTHER -> FromU64(side.held, dec)
----------------------------------------------------------------------------
(* Price of A in B.                                                        *)

Ratio == IF IsZero(reserves.a) \/ IsZero(reserves.b) THEN Zero
         ELSE Over(reserves.b, reserves.a)

Squared == Dec(pool.price * pool.price, 0)
TwoPow128 == Dec(SqrtOne * SqrtOne, 0)

\* Mutant: the shift goes the other way.
FromSqrt_ShiftBack ==
  IF pool.price <= 0 THEN Zero
  ELSE Shift(Over(Squared, TwoPow128), pool.decB - pool.decA)

FromSqrt ==
  IF pool.price <= 0 THEN Zero
  ELSE Shift(Over(Squared, TwoPow128), pool.decA - pool.decB)

\* Mutant: the pool's price is tested before it is rounded.
FromInverseSqrt_TestFirst ==
  IF pool.price <= 0 THEN Zero
  ELSE Over(One, Shift(Over(TwoPow128, Squared), pool.decB - pool.decA))

\* Raydium CLMM: the price of B in A, rounded, and then its inverse, rounded.
FromInverseSqrt ==
  LET oneInZero == Shift(Over(TwoPow128, Squared), pool.decB - pool.decA)
  IN IF pool.price <= 0 \/ IsZero(oneInZero) THEN Zero ELSE Over(One, oneInZero)

\* Meteora DLMM: a floating point power of the bin, shifted.
FromBin == Shift(Dec(pool.price, Precision), pool.decA - pool.decB)

\* Raydium Launchpad, by the type of its curve.
FromCurve ==
  LET base(v) == FromU64(v, pool.decA)
      quote(v) == Dec(v, pool.decB)
  IN CASE pool.price = "constant" ->
            IF pool.a.virtual <= pool.a.real THEN Zero
            ELSE Over(quote(pool.b.virtual + pool.b.real),
                      base(Sub64(pool.a.virtual, pool.a.real)))
       [] pool.price = "fixed" ->
            IF pool.a.virtual = 0 THEN Zero
            ELSE Over(quote(pool.b.virtual), base(pool.a.virtual))
       [] pool.price = "linear" ->
            IF pool.a.virtual = 0 \/ pool.a.real = 0 THEN Zero
            ELSE Shift(Over(Dec(pool.a.virtual * pool.a.real, 0), Dec(SqrtOne, 0)),
                       pool.decA - pool.decB)

ByRatio == {"pumpswap", "cpmm", "liquidity_v4", "damm_v1"}
BySqrt == {"damm_v2", "whirlpool", "dbc"}

PriceOfMintAInMintB ==
  CASE proto \in ByRatio -> Ratio
    [] proto \in BySqrt -> FromSqrt
    [] proto = "clmm" -> FromInverseSqrt
    [] proto = "dlmm" -> FromBin
    [] proto = "launchpad" -> FromCurve
----------------------------------------------------------------------------
(* Liquidity in B.                                                         *)

\* Calculators that double the reserve of B.
Doubling == {"pumpswap", "cpmm", "liquidity_v4", "clmm", "dlmm"}

\* Mutant: reserves of different decimals are added without the price.
LiquidityInMintB_NoPrice(p) ==
  IF proto \in Doubling THEN Times(reserves.b, Dec(2, 0))
  ELSE Plus(reserves.b, reserves.a)

LiquidityInMintB(p) ==
  IF proto \in Doubling THEN Times(reserves.b, Dec(2, 0))
  ELSE Plus(reserves.b, Times(reserves.a, p))
----------------------------------------------------------------------------
(* Values in SOL.                                                          *)

IsSOL(mint) == mint = "SOL"
Pairs == {[a |-> "token", b |-> "SOL"], [a |-> "token", b |-> "other"],
          [a |-> "SOL", b |-> "other"], [a |-> "SOL", b |-> "token"]}

\* A request for a bonding curve names SOL and the token, in either order; a
\* pool may pair anything.
PairsOf(p) == IF p = "bonding_curve"
              THEN {[a |-> "token", b |-> "SOL"], [a |-> "SOL", b |-> "token"]}
              ELSE Pairs \ {[a |-> "SOL", b |-> "token"]}

\* The bridge, asked about a mint that is not SOL.
ToSOL(value) == Times(value, Dec(worth, 0))

\* Mutant: the price of B is returned instead of the price of A.
PriceOfMintAInSOL_OfB ==
  IF IsSOL(mints.a) THEN One
  ELSE IF IsSOL(mints.b) THEN price
  ELSE ToSOL(One)

PriceOfMintAInSOL ==
  LET oneBInSOL == ToSOL(One)
  IN IF IsSOL(mints.a) THEN One
     ELSE IF IsSOL(mints.b) THEN price
     ELSE IF IsZero(oneBInSOL) THEN Zero
     ELSE Times(price, oneBInSOL)

LiquidityInSOL == IF IsSOL(mints.b) THEN liquidity ELSE ToSOL(liquidity)

\* The larger of the mint's supply and the supply a bonding curve account
\* gives (0: there is none, or it could not be read).
FDVSupply(total, curve) == IF Less(total, curve) THEN curve ELSE total
----------------------------------------------------------------------------
Init ==
  /\ proto \in Protocol
  /\ pool \in PoolStates[proto]
  /\ mints \in PairsOf(proto)
  /\ worth \in Worth
  /\ pc = "reserves"
  /\ reserves = [a |-> Zero, b |-> Zero]
  /\ price = Zero /\ liquidity = Zero /\ priceSOL = Zero /\ liquiditySOL = Zero
  /\ moved = FALSE
  /\ caps = [total |-> Zero, circulating |-> Zero, market |-> Zero, fdv |-> Zero]

\* Launchpad refuses an unknown curve type before anything else, and is the
\* only calculator of a pool that accepts an empty side.
ReadReserves ==
  LET a == ReserveOf(pool.a, pool.decA)
      b == ReserveOf(pool.b, pool.decB)
      refused == IF proto = "launchpad" THEN pool.price = "other"
                 ELSE IsZero(a) \/ IsZero(b)
  IN /\ pc = "reserves" /\ proto # "bonding_curve"
     /\ reserves' = [a |-> a, b |-> b]
     /\ pc' = IF refused THEN "refused" ELSE "price"
     /\ UNCHANGED <<proto, pool, mints, worth, price, liquidity, priceSOL,
                    liquiditySOL, moved, caps>>

PricePair ==
  LET p == PriceOfMintAInMintB
  IN /\ pc = "price"
     /\ IF p = Panic
        THEN pc' = "panicked" /\ UNCHANGED <<price, liquidity>>
        ELSE pc' = "priceSOL" /\ price' = p /\ liquidity' = LiquidityInMintB(p)
     /\ UNCHANGED <<proto, pool, mints, worth, reserves, priceSOL, liquiditySOL,
                    moved, caps>>

AsksForPrice == pc = "priceSOL" /\ ~IsSOL(mints.a) /\ ~IsSOL(mints.b)
AsksForLiquidity == pc = "liquiditySOL" /\ ~IsSOL(mints.b)

ConvertPrice ==
  /\ pc = "priceSOL" /\ pc' = "liquiditySOL"
  /\ priceSOL' = PriceOfMintAInSOL
  /\ UNCHANGED <<proto, pool, mints, worth, reserves, price, liquidity,
                 liquiditySOL, moved, caps>>

ConvertLiquidity ==
  /\ pc = "liquiditySOL" /\ pc' = "supply"
  /\ liquiditySOL' = LiquidityInSOL
  /\ UNCHANGED <<proto, pool, mints, worth, reserves, price, liquidity,
                 priceSOL, moved, caps>>

\* A bridge that fails fails the calculation.
BridgeFails ==
  /\ AsksForPrice \/ AsksForLiquidity
  /\ pc' = "refused"
  /\ UNCHANGED <<proto, pool, mints, worth, reserves, price, liquidity,
                 priceSOL, liquiditySOL, moved, caps>>

BridgeMoves ==
  /\ pc = "liquiditySOL"
  /\ \E w \in Worth \ {worth} : worth' = w
  /\ moved' = TRUE
  /\ UNCHANGED <<proto, pool, mints, pc, reserves, price, liquidity,
                 priceSOL, liquiditySOL, caps>>

\* Total and circulating supply of the mint, and what its bonding curve says,
\* whatever decimals the mint has.
Supply ==
  \E total, curve \in SupplyAmount :
    LET t == FromU64(total, pool.decA)
        f == FDVSupply(t, FromU64(curve, CurvePlaces))
    IN /\ pc = "supply" /\ pc' = "done"
       /\ caps' = [total |-> t, circulating |-> t,
                   market |-> Times(priceSOL, t), fdv |-> Times(priceSOL, f)]
       /\ UNCHANGED <<proto, pool, mints, worth, reserves, price, liquidity,
                      priceSOL, liquiditySOL, moved>>
----------------------------------------------------------------------------
(* The bonding curve: every value comes from the curve account.            *)

CurveReal == [a |-> FromU64(pool.a.real, pool.decA), b |-> FromU64(pool.b.real, pool.decB)]

CurvePrice ==
  IF pool.a.virtual = 0 THEN Zero
  ELSE Over(FromU64(pool.b.virtual, pool.decB), FromU64(pool.a.virtual, pool.decA))

CurveCirculating ==
  LET left == Minus(FromU64(pool.a.total, pool.decA), CurveReal.a)
  IN IF left.n < 0 THEN Zero ELSE left

\* Prices of A in SOL and in B, and liquidity in B, from the price p of the
\* token and the liquidity l in SOL.  (The branch for a mint B other than SOL
\* is not reached: validation refuses such a request.)
PairMetrics(p, l) ==
  IF IsSOL(mints.a)
  THEN [inSOL |-> One, inB |-> IF p.n > 0 THEN Over(One, p) ELSE Zero, liquidity |-> l]
  ELSE [inSOL |-> p, inB |-> p, liquidity |-> l]

CurveMetrics ==
  LET m == PairMetrics(CurvePrice, CurveReal.b)
      t == FromU64(pool.a.total, pool.decA)
  IN /\ pc = "reserves" /\ proto = "bonding_curve"
     /\ IF Panic \in {CurvePrice, m.inB}
        THEN /\ pc' = "panicked"
             /\ UNCHANGED <<reserves, price, liquidity, priceSOL, liquiditySOL, caps>>
        ELSE /\ pc' = "done"
             /\ reserves' = CurveReal
             /\ price' = m.inB /\ liquidity' = m.liquidity
             /\ priceSOL' = m.inSOL /\ liquiditySOL' = CurveReal.b
             /\ caps' = [total |-> t, circulating |-> CurveCirculating,
                         market |-> Times(m.inSOL, t), fdv |-> Times(m.inSOL, t)]
     /\ UNCHANGED <<proto, pool, mints, worth, moved>>
----------------------------------------------------------------------------
Returned == pc \in {"done", "refused", "panicked"} /\ UNCHANGED vars

Next ==
  \/ ReadReserves \/ PricePair \/ ConvertPrice \/ ConvertLiquidity \/ Supply
  \/ BridgeFails \/ BridgeMoves
  \/ CurveMetrics
  \/ Returned

Spec == Init /\ [][Next]_vars
----------------------------------------------------------------------------
(* Properties.                                                             *)

IsDec(d) == DOMAIN d = {"n", "e"} /\ d.n \in Int /\ d.e \in Int

\* The amounts a calculator that converts through int64 gets right.
Representable ==
  proto = "pumpswap" => pool.a.held < Word \div 2 /\ pool.b.held < Word \div 2

\* No LP tokens were burnt between the two requests of a DAMM v1 pool.
SupplyCoversShare == proto = "damm_v1" => pool.a.share <= pool.a.supply

Priced == pc \in {"priceSOL", "liquiditySOL", "supply", "done"}

\* Every result is a number, a reserve is counted in the decimals of its own
\* mint, and every stage of Compute is one of the code's.
TypeOK ==
  /\ proto \in Protocol /\ mints \in Pairs /\ worth \in Worth /\ moved \in BOOLEAN
  /\ pc \in {"reserves", "price", "priceSOL", "liquiditySOL", "supply",
             "done", "refused", "panicked"}
  /\ \A d \in {reserves.a, reserves.b, price, liquidity, priceSOL, liquiditySOL,
               caps.total, caps.circulating, caps.market, caps.fdv} : IsDec(d)
  /\ IsZero(reserves.a) \/ reserves.a.e = pool.decA
  /\ IsZero(reserves.b) \/ reserves.b.e = pool.decB

\* No decimal is divided by zero, for whatever amounts an account holds: a
\* division by zero panics in a goroutine of parallelx.Run or of a bulk call
\* and takes the whole program down.  Some divisors become zero only by the
\* rounding of an earlier quotient.
NoPanic == pc # "panicked"

\* What the accounts hold for the pool's traders, and what of it is not theirs.
Held(side) ==
  CASE proto = "liquidity_v4" -> side.held + Deduction(side, "orders")
    [] proto = "damm_v1" /\ "share" \in DOMAIN side -> side.total
    [] proto = "launchpad" -> IF "total" \in DOMAIN side THEN side.total ELSE side.real
    [] OTHER -> side.held
Owed(side) ==
  CASE proto \in {"cpmm", "clmm"} -> Deduction(side, "fee") + Deduction(side, "fund")
    [] proto \in {"damm_v2", "whirlpool"} -> Deduction(side, "fee")
    [] proto = "liquidity_v4" -> Deduction(side, "pnl")
    [] proto = "launchpad" /\ "total" \in DOMAIN side -> side.real
    [] OTHER -> 0

\* No subtraction of unsigned amounts wraps and no sum of fees overflows: a
\* reserve is counted in the decimals of its own mint, is never negative, never
\* more than the accounts hold, and never holds a part of what is owed to
\* others.  (It fails in pumpswap_amm for amounts of 2^63 and more, which it
\* converts through int64, and in damm_v1 when the LP supply, read by a later
\* request than the pool's LP balance, is below that balance.)
WithinHoldings ==
  Priced /\ Representable /\ SupplyCoversShare /\ proto # "bonding_curve" =>
    \A s \in {"a", "b"} :
      /\ reserves[s].n >= 0
      /\ reserves[s].n > 0 =>
           /\ reserves[s].n + Owed(pool[s]) <= Held(pool[s])
           /\ reserves[s].e = [a |-> pool.decA, b |-> pool.decB][s]

\* What a DAMM v1 pool is given of its vault now and what all other pools of
\* that vault can be given at any later moment never add up to more than the
\* vault then gives, however shares are rounded and also when the clock is
\* behind the vault's report: nobody's share is spent twice, and locked profit
\* only unlocks.
SharesConserved ==
  Priced /\ proto = "damm_v1" =>
    \A later \in Time : later >= pool.clock =>
      LET gives == VaultWithdrawable(later, pool.a)
      IN \A others \in U64 : others + pool.a.share <= pool.a.supply =>
           reserves.a.n + AmountByShare(others, gives, pool.a.supply) <= gives

\* The price the pool states, as numerator and denominator.
ExactPrice ==
  LET scaled(num, den) == [num |-> num * Power[pool.decA], den |-> den * Power[pool.decB]]
      curve == CASE pool.price = "constant" ->
                      scaled(pool.b.virtual + pool.b.real, pool.a.virtual - pool.a.real)
                 [] pool.price = "fixed" -> scaled(pool.b.virtual, pool.a.virtual)
                 [] pool.price = "linear" -> scaled(pool.a.virtual * pool.a.real, SqrtOne)
  IN CASE proto \in ByRatio -> scaled(reserves.b.n, reserves.a.n)
       [] proto \in BySqrt -> scaled(pool.price * pool.price, SqrtOne * SqrtOne)
       [] proto = "launchpad" -> curve

\* Every value is a number, and calculators that divide once give the pool's
\* price, in units of whole tokens, to half a unit of the last place the quotient
\* kept; shifting by the decimals moves that place.  (Raydium CLMM rounds twice:
\* see the README; a launchpad curve that is sold out has no price.)
PriceAccurate ==
  /\ TypeOK
  /\ Priced /\ proto \in ByRatio \cup BySqrt \cup {"launchpad"} /\ ~IsZero(price) =>
       LET unit == ExactPrice.den * Power[Larger(-price.e, 0)]
           exact == ExactPrice.num * Power[Larger(price.e, 0)]
       IN 2 * Abs(price.n * unit - exact) <= Abs(unit)

\* |x - y| <= d
Within(x, y, d) == ~Less(d, Minus(x, y)) /\ ~Less(d, Minus(y, x))

\* LiquidityInB is the value of both reserves at the price that is returned
\* with it, up to the rounding of that price (README.md:135, "Total two-sided
\* pool liquidity").
TwoSided ==
  Priced /\ Representable =>
    Within(liquidity, Plus(reserves.b, Times(reserves.a, price)),
           Times(reserves.a, Dec(1, price.e)))

TwoSidedPools == proto \notin {"clmm", "dlmm", "bonding_curve"} => TwoSided

\* Price and liquidity are both given in B and in SOL, and the two pairs agree
\* on what B is worth, up to the rounding of the bonding curve's quotients.
Rounding == IF proto = "bonding_curve"
            THEN Times(Dec(1, Precision), Plus(liquiditySOL, priceSOL)) ELSE Zero
SameWorth ==
  pc = "done" =>
    Within(Times(liquiditySOL, price), Times(liquidity, priceSOL), Rounding)

\* Supplies read from two accounts by two requests still order the caps.
CapBelowFDV ==
  pc = "done" /\ Representable => ~Less(caps.fdv, caps.market)
                                    /\ ~Less(caps.total, caps.circulating)

\* The values of one answer do not contradict each other: price and liquidity
\* agree on what B is worth whenever A is not SOL and the bridge gave both
\* values the same worth, and the market cap is never above the fully diluted
\* value.
ValuesAgree == CapBelowFDV /\ (~IsSOL(mints.a) /\ ~moved => SameWorth)
=============================================================================
