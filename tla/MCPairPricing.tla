--------------------------- MODULE MCPairPricing ----------------------------
(***************************************************************************)
(* Instances of PairPricing for TLC: words of two bits, numbers in base 2  *)
(* and quotients of two places.                                            *)
(***************************************************************************)
EXTENDS PairPricing

MCProtocols == DOMAIN PoolStates
MCTime == -1 .. 3
=============================================================================
