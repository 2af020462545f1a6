------------------------------ MODULE NftTypes ------------------------------
(***************************************************************************)
(* The vocabulary the component modules share: the kinds of NFT, the       *)
(* groups of kinds the handlers match on, and the two operations on the    *)
(* ledger's table of accounts (an account table is a function whose domain *)
(* is the set of accounts that exist).                                     *)
(*                                                                         *)
(* An operator whose name ends in Fault is what a slip in the code would   *)
(* make of the definition that follows it.  No specification uses it: it   *)
(* is put in place of that definition to see the properties notice.        *)
(***************************************************************************)
EXTENDS Functions

NftKind == {"Default", "SBT", "Address", "AddressV2", "AddressV3",
            "AddressV3j", "AddressV4Fraction", "AddressV5", "AddressV6",
            "Clone", "CloneV2"}

ForwardKindsFault == {"Address", "AddressV2", "AddressV4Fraction"}

\* The kinds process_proxy_forward accepts.
ForwardKinds == {"Address", "AddressV2", "AddressV5", "AddressV4Fraction"}

\* The kinds process_withdraw accepts.
WithdrawKinds == {"AddressV3", "AddressV3j"}

\* The kinds process_burn_nft refuses to burn while they hold lamports.
StorageKinds == {"AddressV3", "AddressV3j", "AddressV4Fraction"}

\* The kinds process_transfer hands over to process_clone_nft.
CloneKinds == {"Clone", "CloneV2"}

\* The account table of a ledger on which the program created nothing yet.
NoAccounts == [x \in {} |-> x]

\* The account table f after account x is created with contents v.
Create(f, x, v) == [y \in DOMAIN f \cup {x} |-> IF y = x THEN v ELSE f[y]]

\* The account table f after account x has lost its last lamport.
Purge(f, x) == Restrict(f, DOMAIN f \ {x})
=============================================================================
