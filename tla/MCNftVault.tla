----------------------------- MODULE MCNftVault -----------------------------
(***************************************************************************)
(* Small instances of NftVault for TLC.  U64Max is small, so that a few    *)
(* payments overflow the fee computation and saturate the counters.        *)
(***************************************************************************)
EXTENDS NftVault, TLC

CONSTANTS alice, bob, carol, pda

KeysSymmetry == Permutations(Keys)

ForwardRunKinds == {"Address", "AddressV2", "AddressV5", "SBT"}
LimitsRunKinds == {"Default", "AddressV2", "AddressV3", "AddressV3j", "AddressV5"}
=============================================================================
