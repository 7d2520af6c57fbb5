--------------------------- MODULE MCPoolCompute ----------------------------
(***************************************************************************)
(* Instances of PoolCompute for TLC.                                       *)
(***************************************************************************)
EXTENDS PoolCompute

\* Every calculator.
MCAll == DOMAIN Compute

\* Meteora DAMM v1 words a missing LP mint so that it becomes internal.
MCNamesMissing == MCAll \ {"damm_v1"}

\* Pools of a group may share a quote mint, a DAMM v1 vault and its LP mint, the
\* config of a launchpad, or everything when a pool is listed twice.
MCShared == {{"mintB"}, {"vaultA", "lpMintA", "mintA"}, {"config"}, UNION {Accounts(p) : p \in MCAll}}

\* The others do not look at the owner of the pool account.
MCGuardsOwner == {"dlmm", "damm_v1", "damm_v2", "dbc", "whirlpool", "launchpad"}

\* A bonding curve account that is too short reads as zeros.
MCGuardsLayout == MCAll \ {"bonding_curve"}
=============================================================================
