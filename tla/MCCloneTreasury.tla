-------------------------- MODULE MCCloneTreasury ---------------------------
(***************************************************************************)
(* A small instance of CloneTreasury for TLC.  Generations wrap at 2.  A   *)
(* reward of 2 multiplied by 80 stays below 256, a reward of 200 does not, *)
(* nor does the sum of two.                                                *)
(***************************************************************************)
EXTENDS CloneTreasury, TLC

\* A collection's account may read as a copy whose original is any NFT.
RunCrafted ==
  {[kind |-> "CloneV2", original_nft |-> a, parent_nft |-> None,
    generation |-> 1, clone_count |-> 0, pending_rewards |-> 0] : a \in NftPdas}

Symmetric == Permutations(Collections)
=============================================================================
