--------------------------- MODULE MCNftRegistry ----------------------------
(***************************************************************************)
(* Small instances of NftRegistry for TLC.                                 *)
(***************************************************************************)
EXTENDS NftRegistry, TLC

CONSTANTS alice, bob, m1, m2

MintsSymmetry == Permutations(Mints)

SafetyRunKinds == {"SBT", "AddressV3", "AddressV4Fraction", "AddressV6"}
=============
