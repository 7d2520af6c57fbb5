---------------------------- MODULE ReserveMath -----------------------------
(***************************************************************************)
(* How the calculators turn raw amounts of the accounts into reserves, in  *)
(* the unsigned integers of Go.  Sums and products the code makes with     *)
(* big integers are exact; differences it makes with uint64 wrap.          *)
(***************************************************************************)
EXTENDS Integers

CONSTANTS
  Word,        \* number of values of a word (2^64)
  Denominator  \* lockedProfitDenominator (10^12)

ASSUME WordAssumption == Word \in Nat /\ Word > 1
ASSUME DenominatorAssumption == Denominator \in Nat \ {0}

U64 == 0 .. Word - 1
Sub64(a, b) == (a - b) % Word
Add64(a, b) == (a + b) % Word
Int64(v) == IF v < Word \div 2 THEN v ELSE v - Word
----------------------------------------------------------------------------
(* Raydium CPMM and CLMM: two fees leave the vault.                        *)

\* Mutant: the fees are added before they are compared.
SubtractFees_Sum(vault, protocolFee, fundFee) ==
  LET fees == Add64(protocolFee, fundFee)
  IN IF fees > vault THEN 0 ELSE Sub64(vault, fees)

SubtractFees(vault, protocolFee, fundFee) ==
  LET remaining == Sub64(vault, protocolFee)
  IN IF protocolFee > vault \/ fundFee > remaining THEN 0
     ELSE Sub64(remaining, fundFee)

\* Meteora DAMM v2 and Orca Whirlpool: one fee.
SubtractProtocolFee(vault, fee) == IF fee > vault THEN 0 ELSE Sub64(vault, fee)

\* Raydium Launchpad: what is left for sale.
RemainingBase(totalSell, realBase) ==
  IF totalSell > realBase THEN Sub64(totalSell, realBase) ELSE 0
----------------------------------------------------------------------------
(* Meteora DAMM v1: a pool owns a share of a vault, whose last profit is   *)
(* unlocked as time passes.  The clock is a signed integer.                *)

\* Mutant: the clock is not compared with the report.
LockedProfit_NoClockGuard(now, profit, report, degrade) ==
  LET ratio == Sub64(now % Word, report) * degrade
  IN IF profit = 0 \/ degrade = 0 \/ ratio > Denominator THEN 0
     ELSE (profit * (Denominator - ratio)) \div Denominator

LockedProfit(now, profit, report, degrade) ==
  LET duration == IF now > 0 /\ now % Word > report
                  THEN Sub64(now % Word, report) ELSE 0
      ratio == duration * degrade
  IN IF profit = 0 \/ degrade = 0 \/ ratio > Denominator THEN 0
     ELSE (profit * (Denominator - ratio)) \div Denominator

VaultWithdrawable(now, vault) ==
  LET locked == LockedProfit(now, vault.profit, vault.report, vault.degrade)
  IN IF locked > vault.total THEN 0 ELSE Sub64(vault.total, locked)

AmountByShare(share, total, supply) ==
  LET value == (share * total) \div supply
  IN IF share = 0 \/ total = 0 \/ supply = 0 \/ value >= Word THEN 0 ELSE value
=============================================================================
