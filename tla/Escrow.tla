------------------------------- MODULE Escrow -------------------------------
(***************************************************************************)
(* What an NFT's address promises to those who pay lamports to it: while   *)
(* the record lives, what was paid in is held until a release pays all of  *)
(* it out, and the record's counter adds up the releases; when the record  *)
(* is closed the address is emptied, and what is paid in later stays.      *)
(***************************************************************************)
EXTENDS Naturals

CONSTANT CounterMax  \* the largest value the counter of releases can hold

VARIABLES
  phase,  \* "none" before the record exists, "open" while it does, "closed"
  held,   \* lamports paid in and neither released nor refunded
  out     \* the record's counter of released lamports

vars == <<phase, held, out>>

Capped(n) == IF n > CounterMax THEN CounterMax ELSE n

Init == phase = "none" /\ held = 0 /\ out = 0

Open ==
  /\ phase = "none"
  /\ held = 0
  /\ phase' = "open"
  /\ UNCHANGED <<held, out>>

PayIn ==
  /\ held' \in Nat
  /\ held' > held
  /\ UNCHANGED <<phase, out>>

Release ==
  /\ phase = "open"
  /\ held > 0
  /\ out' = Capped(out + held)
  /\ held' = 0
  /\ UNCHANGED phase

Close ==
  /\ phase = "open"
  /\ phase' = "closed"
  /\ held' = 0
  /\ UNCHANGED out

Next == Open \/ PayIn \/ Release \/ Close

Spec == Init /\ [][Next]_vars
=============================================================================
