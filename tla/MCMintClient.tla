---------------------------- MODULE MCMintClient ----------------------------
(***************************************************************************)
(* A small instance of MintClient for TLC.                                 *)
(***************************************************************************)
EXTENDS MintClient

CONSTANTS wallet, other, s1

RunTarget == <<wallet, 0>>
=============================================================================
