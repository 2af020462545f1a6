--------------------------- MODULE MCFractionPool ---------------------------
(***************************************************************************)
(* Small instances of FractionPool for TLC: two addresses, either of which *)
(* may be the pool and the other its child.                                *)
(***************************************************************************)
EXTENDS FractionPool, TLC

CONSTANTS p1, p2

PdasSymmetry == Permutations(Pdas)

Gives(p, bps) == [child_nft_pda |-> p, share_bps |-> bps]

\* No child, one, two, or one with too much; nine are too many whatever they
\* share.
RunLists ==
  {<<>>, <<Gives(p1, 3000)>>, <<Gives(p2, 3000)>>,
   <<Gives(p1, 5000), Gives(p2, 5000)>>, <<Gives(p2, 5000), Gives(p1, 5000)>>,
   <<Gives(p1, 10001)>>, <<Gives(p2, 10001)>>}

SplitLists == {<<>>, <<Gives(p1, 5000)>>, <<Gives(p2, 5000)>>}
=============================================================================
