----------------------------- MODULE IssueOrder -----------------------------
(***************************************************************************)
(* What a collection promises about the addresses it gives its NFTs: the   *)
(* address with index i is issued only after all lower ones, it is issued  *)
(* once, and an address that was given up is never issued again.  Nothing  *)
(* is said of how the collection finds the next index.                     *)
(***************************************************************************)
EXTENDS Naturals

CONSTANTS
  Collections,   \* the collections' addresses
  Indexes        \* the indexes an NFT can have in a collection

VARIABLE status  \* "free", "live" or "gone", for every address

Addresses == Collections \X Indexes

TypeOK == status \in [Addresses -> {"free", "live", "gone"}]

Init == status = [a \in Addresses |-> "free"]

Issue(a) ==
  /\ status[a] = "free"
  /\ \A i \in Indexes : i < a[2] => status[<<a[1], i>>] # "free"
  /\ status' = [status EXCEPT ![a] = "live"]

Retire(a) ==
  /\ status[a] = "live"
  /\ status' = [status EXCEPT ![a] = "gone"]

Next == \E a \in Addresses : Issue(a) \/ Retire(a)

Spec == Init /\ [][Next]_status
=============================================================================
