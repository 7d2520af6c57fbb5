---------------------------- MODULE MCGroupReads ----------------------------
(***************************************************************************)
(* Instances of GroupReads for TLC.                                        *)
(***************************************************************************)
EXTENDS GroupReads

CONSTANTS p1, p2, v1, m, n, c, g

\* Two pools of the same two mints: one calculator asks for a vault and a mint,
\* the other one for both mints; the supply of one mint and its bonding curve
\* are asked for by both.
PoolOne == [reads |-> <<<<p1>>, <<v1, m>>>>, curve |-> c]
PoolTwo == [reads |-> <<<<p2>>, <<n, m>>>>, curve |-> c]

Of(a) == [reads |-> <<<<a>>>>, curve |-> Nil]
None == [reads |-> <<>>, curve |-> Nil]

Pools(items) == [curves |-> FALSE, items |-> items]
Curves(items) == [curves |-> TRUE, items |-> items]

\* Two pools of the same mints; one pool listed twice; three valid curves, one
\* of them repeated, around a refused item; nothing valid; nothing.
MCBulk ==
  {Pools(<<PoolOne, PoolTwo>>), Pools(<<PoolTwo, PoolTwo>>),
   Curves(<<Of(p1), None, Of(p2), Of(p1), Of(v1)>>), Curves(<<None>>), Curves(<<>>)}

\* The address lists the bulks lead to.
MCRequests ==
  {<<p1, p2>>, <<p2, p2>>, <<p1, p2, p1, v1>>, <<v1, m>>, <<n, m>>}
    \cup {<<a>> : a \in {p1, p2, v1, c}}
=============================================================================
