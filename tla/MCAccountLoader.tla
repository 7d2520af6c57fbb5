--------------------------- MODULE MCAccountLoader --------------------------
(***************************************************************************)
(* Instances of AccountLoader for TLC.                                     *)
(***************************************************************************)
EXTENDS AccountLoader

CONSTANTS a1, a2, a3

\* Nothing; one account; a pair that shares an account with the others, with
\* a repeated address; three accounts in another order.
MCRequests == {<<>>, <<a1>>, <<a1, a2, a1>>, <<a3, a2, a1>>}

\* Lists that overlap, for two callers.
MCRequestsPair == {<<a2>>, <<a1, a2, a1>>, <<a2, a3>>}

\* The callers are interchangeable: no definition names one.
CallerSymmetry == Permutations(Caller)
=============================================================================
