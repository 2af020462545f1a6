---------------------------- MODULE FractionPool ----------------------------
(***************************************************************************)
(* The NFTs of kind AddressV4Fraction as pools: lamports paid to one are   *)
(* shared between its owner and the children on its list.  The same        *)
(* counters of a record are written by four instructions that pay out, by  *)
(* the record's owner and by the owners of its children, in any order.     *)
(*                                                                         *)
(* Each instruction is its owner's; who that is does not matter here (see  *)
(* NftVault and NftRegistry), nor does the fee ProxyForward takes out of   *)
(* what it pays.  Numbers are far below u64's bound (NftVault has it).     *)
(***************************************************************************)
EXTENDS Naturals, SequencesExt

CONSTANTS
  Pdas,       \* the addresses of AddressV4Fraction records
  NoParent,   \* parent_nft = None
  Lists,      \* the lists of children callers write
  Shares,     \* the values of share_bps in SplitFraction
  Amounts,    \* the amounts payers send in one transfer
  MaxPaid,    \* bound on what is paid to one address in all
  Realloc     \* whether a handler makes an account longer or shorter to fit
              \* what it writes; no handler does: FALSE as built

ASSUME PoolParentAssumption == NoParent \notin Pdas
ASSUME PoolPdasAssumption == IsFiniteSet(Pdas)
ASSUME PoolNumbersAssumption ==
  Shares \subseteq Nat /\ Amounts \subseteq Nat /\ MaxPaid \in Nat
ASSUME PoolReallocAssumption == Realloc \in BOOLEAN

FractionChild == [child_nft_pda: Pdas, share_bps: Nat]
ASSUME PoolListsAssumption == Lists \subseteq Seq(FractionChild)

VARIABLES
  phase,      \* of every address: "none", "open", "closed" (burned)
  nft,        \* the records of open addresses, as last written
  available,  \* lamports at the address beyond the record's rent
  paid,       \* history: what payers sent to the address, in all
  drawn,      \* history: what children's owners took out of the address
  gained      \* history: what the address's owner took from its parent

vars == <<phase, nft, available, paid, drawn, gained>>

\* pending_rewards_lamports counts what ClaimParentShare paid; room is how
\* many children the account was made for.
Record ==
  [children: Seq(FractionChild), can_fraction: BOOLEAN,
   parent_nft: Pdas \cup {NoParent}, room: Nat,
   total_received: Nat, total_forwarded: Nat, pending_rewards: Nat]

-----------------------------------------------------------------------------
(* What the handlers compute.                                              *)

SumBps(children) ==
  SumFunction([i \in DOMAIN children |-> children[i].share_bps])

\* No more than eight children, who share no more than everything.
SharesOk(children) == Len(children) <= 8 /\ SumBps(children) \in 0 .. 10000

\* try_from_slice fails on an account longer than the record.
Readable(p) == phase[p] = "open" /\ Len(nft[p].children) = nft[p].room

\* Write a list of children into record p: it has to fit the account.
WithChildren(p, children) ==
  [nft[p] EXCEPT !.children = children,
                 !.room = IF Realloc THEN Len(children) ELSE @]

FitsFault(p, children) == TRUE

Fits(p, children) == Realloc \/ Len(children) <= nft[p].room

Vacant(p) == phase[p] = "none" /\ available[p] = 0

\* All that was to be shared, what was already paid out included.
TotalPool(p) == available[p] + nft[p].total_forwarded

Entitled(p, bps) == (TotalPool(p) * bps) \div 10000

OwnBps(p) == 10000 - SumBps(nft[p].children)

\* saturating_sub
Minus(a, b) == IF a > b THEN a - b ELSE 0

\* What the owner of p may still take out of p.
Claimable(p) == Minus(Entitled(p, OwnBps(p)), nft[p].pending_rewards)

\* The list entry of child c in record p.
IsChild(c, p) ==
  \E i \in DOMAIN nft[p].children : nft[p].children[i].child_nft_pda = c

BpsOf(c, p) ==
  nft[p].children[SelectInSeq(nft[p].children,
                              LAMBDA child : child.child_nft_pda = c)].share_bps

\* What the owner of child c may still take out of p.
ChildClaimable(c, p) ==
  Minus(Entitled(p, BpsOf(c, p)), nft[c].total_forwarded)

\* A record that is minted may be split, one that is split off may not.
NewRecord(children, parent) ==
  [children |-> children, can_fraction |-> (parent = NoParent),
   parent_nft |-> parent,
   room |-> Len(children), total_received |-> 0, total_forwarded |-> 0,
   pending_rewards |-> 0]

-----------------------------------------------------------------------------
(* The program's instructions.                                             *)

MintNft(p, children) ==
  /\ Vacant(p)
  /\ SharesOk(children)
  /\ phase' = [phase EXCEPT ![p] = "open"]
  /\ nft' = [nft EXCEPT ![p] = NewRecord(children, NoParent)]
  /\ UNCHANGED <<available, paid, drawn, gained>>

\* The owner mints a child and puts it on the list.
SplitFraction(p, c, share_bps) ==
  /\ Readable(p)
  /\ nft[p].can_fraction
  /\ Vacant(c)
  /\ LET children == Append(nft[p].children,
                            [child_nft_pda |-> c, share_bps |-> share_bps])
     IN  /\ SharesOk(children)
         /\ Fits(p, children)
         /\ nft' = [nft EXCEPT ![p] = WithChildren(p, children),
                               ![c] = NewRecord(<<>>, p)]
  /\ phase' = [phase EXCEPT ![c] = "open"]
  /\ UNCHANGED <<available, paid, drawn, gained>>

\* Everything goes to the proxy target and the fee's recipient, whatever the
\* list of children.
ProxyForward(p) ==
  /\ Readable(p)
  /\ available[p] > 0
  /\ nft' = [nft EXCEPT ![p].total_received = @ + available[p],
                        ![p].total_forwarded = @ + available[p]]
  /\ available' = [available EXCEPT ![p] = 0]
  /\ UNCHANGED <<phase, paid, drawn, gained>>

ClaimParentShareFault(p) ==
  /\ Readable(p)
  /\ OwnBps(p) > 0
  /\ Claimable(p) \in 1 .. available[p]
  /\ available' = [available EXCEPT ![p] = @ - Claimable(p)]
  /\ nft' = [nft EXCEPT ![p].total_forwarded = @ + Claimable(p)]
  /\ UNCHANGED <<phase, paid, drawn, gained>>

\* The owner's share of all that was ever there, less what the owner claimed.
ClaimParentShare(p) ==
  /\ Readable(p)
  /\ OwnBps(p) > 0
  /\ Claimable(p) \in 1 .. available[p]
  /\ available' = [available EXCEPT ![p] = @ - Claimable(p)]
  /\ nft' = [nft EXCEPT ![p].pending_rewards = @ + Claimable(p),
                        ![p].total_forwarded = @ + Claimable(p)]
  /\ UNCHANGED <<phase, paid, drawn, gained>>

ClaimFractionShareFault(c, p) ==
  /\ Readable(c)
  /\ Readable(p)
  /\ nft[c].parent_nft = p
  /\ IsChild(c, p)
  /\ LET claimable == ChildClaimable(c, p)
     IN  /\ claimable \in 1 .. available[p]
         /\ available' = [available EXCEPT ![p] = @ - claimable]
         /\ drawn' = [drawn EXCEPT ![p] = @ + claimable]
         /\ gained' = [gained EXCEPT ![c] = @ + claimable]
         /\ nft' = [nft EXCEPT ![c].total_forwarded = @ + claimable]
  /\ UNCHANGED <<phase, paid>>

\* The same for a child's owner, paid out of the parent p.
ClaimFractionShare(c, p) ==
  /\ Readable(c)
  /\ Readable(p)
  /\ nft[c].parent_nft = p
  /\ IsChild(c, p)
  /\ LET claimable == ChildClaimable(c, p)
     IN  /\ claimable \in 1 .. available[p]
         /\ available' = [available EXCEPT ![p] = @ - claimable]
         /\ drawn' = [drawn EXCEPT ![p] = @ + claimable]
         /\ gained' = [gained EXCEPT ![c] = @ + claimable]
         /\ nft' = [nft EXCEPT ![p].total_forwarded = @ + claimable,
                               ![c].total_forwarded = @ + claimable]
  /\ UNCHANGED <<phase, paid>>

UpdateFractionsFault(p, children) ==
  /\ Readable(p)
  /\ Fits(p, children)
  /\ nft' = [nft EXCEPT ![p] = WithChildren(p, children)]
  /\ UNCHANGED <<phase, available, paid, drawn, gained>>

\* The owner replaces the list of children.
UpdateFractions(p, children) ==
  /\ Readable(p)
  /\ nft[p].can_fraction
  /\ SharesOk(children)
  /\ Fits(p, children)
  /\ nft' = [nft EXCEPT ![p] = WithChildren(p, children)]
  /\ UNCHANGED <<phase, available, paid, drawn, gained>>

\* What children have not claimed has to be gone.
BurnNft(p) ==
  /\ Readable(p)
  /\ available[p] = 0
  /\ phase' = [phase EXCEPT ![p] = "closed"]
  /\ UNCHANGED <<nft, available, paid, drawn, gained>>

\* Anyone pays lamports to a pool's address, minted or not.
Deposit(p, n) ==
  /\ paid[p] + n <= MaxPaid
  /\ available' = [available EXCEPT ![p] = @ + n]
  /\ paid' = [paid EXCEPT ![p] = @ + n]
  /\ UNCHANGED <<phase, nft, drawn, gained>>

-----------------------------------------------------------------------------
Init ==
  /\ phase = [p \in Pdas |-> "none"]
  /\ nft = [p \in Pdas |-> NewRecord(<<>>, NoParent)]
  /\ available = [p \in Pdas |-> 0]
  /\ paid = [p \in Pdas |-> 0]
  /\ drawn = [p \in Pdas |-> 0]
  /\ gained = [p \in Pdas |-> 0]

Next ==
  \/ \E p \in Pdas, children \in Lists : MintNft(p, children)
  \/ \E p, c \in Pdas, share_bps \in Shares : SplitFraction(p, c, share_bps)
  \/ \E p \in Pdas : ProxyForward(p)
  \/ \E p \in Pdas : ClaimParentShare(p)
  \/ \E c, p \in Pdas : ClaimFractionShare(c, p)
  \/ \E p \in Pdas, children \in Lists : UpdateFractions(p, children)
  \/ \E p \in Pdas : BurnNft(p)
  \/ \E p \in Pdas, n \in Amounts : Deposit(p, n)

Spec == Init /\ [][Next]_vars

-----------------------------------------------------------------------------
(* Type correctness.                                                       *)

TypeOK ==
  /\ phase \in [Pdas -> {"none", "open", "closed"}]
  /\ nft \in [Pdas -> Record]
  /\ available \in [Pdas -> Nat]
  /\ paid \in [Pdas -> 0 .. MaxPaid]
  /\ drawn \in [Pdas -> Nat]
  /\ gained \in [Pdas -> Nat]

-----------------------------------------------------------------------------
(* Safety.                                                                 *)

\* An address nobody minted at has paid and counted nothing; a list of
\* children shares out no more than everything and fits its account, and no
\* record is its own parent.
RecordsSound ==
  \A p \in Pdas :
    /\ phase[p] = "none" =>
         nft[p] = NewRecord(<<>>, NoParent) /\ drawn[p] = 0 /\ gained[p] = 0
    /\ nft[p].children = <<>> \/ SharesOk(nft[p].children)
    /\ Len(nft[p].children) <= nft[p].room
    /\ nft[p].parent_nft # p

\* What was paid to a pool is there or went to the proxy target, the owner or
\* the children's owners; the counter the shares are computed from adds up
\* these payouts, and what the pool's owner took from its own parent.
Accounted ==
  \A p \in Pdas :
    /\ paid[p] = available[p] + nft[p].total_received + nft[p].pending_rewards
                   + drawn[p]
    /\ nft[p].total_forwarded =
         nft[p].total_received + nft[p].pending_rewards + drawn[p] + gained[p]

\* The inductive invariant.
IInv == TypeOK /\ RecordsSound /\ Accounted

\* As long as accounts keep their size, no record is ever made a child of a
\* pool, and no child's owner is ever paid.
NobodyIsAChild ==
  ~ Realloc => \A p \in Pdas : nft[p].parent_nft = NoParent /\ drawn[p] = 0

-----------------------------------------------------------------------------
(* What a step may never do.                                               *)

\* The records split off p that are on its list.
Kids(p) == {c \in Pdas : nft[c].parent_nft = p /\ IsChild(c, p)}

\* So far every payout of p was a claim, and nobody claimed more than the
\* present list gives them.
EvenHanded(p) ==
  /\ phase[p] = "open"
  /\ nft[p].total_received = 0
  /\ gained[p] = 0
  /\ nft[p].pending_rewards <= Entitled(p, OwnBps(p))
  /\ \A c \in Kids(p) :
       /\ nft[c].total_forwarded = gained[c]
       /\ gained[c] <= Entitled(p, BpsOf(c, p))
  /\ drawn[p] = SumFunctionOnSet(gained, Kids(p))

\* Everybody with a share of p can take the rest of it now.
NobodyShort(p) ==
  Claimable(p) + SumFunction([c \in Kids(p) |-> ChildClaimable(c, p)])
    <= available[p]

\* The step leaves p's list alone and neither p nor a child of it forwards or
\* is claimed from as a pool of its own.
SameTerms(p) ==
  /\ nft'[p].children = nft[p].children
  /\ nft'[p].total_received = nft[p].total_received
  /\ gained'[p] = gained[p]
  /\ \A c \in Kids(p) :
       nft'[c].total_forwarded - nft[c].total_forwarded = gained'[c] - gained[c]

\* Claims and payments in any order leave in a pool what everybody else may
\* still claim.
SharesHonoured ==
  [][\A p \in Pdas : EvenHanded(p) /\ SameTerms(p) => NobodyShort(p)']_vars

-----------------------------------------------------------------------------
(* What a comment of the code says, and the code does not do.              *)

\* proccessor.rs: the owner's share is all that is not given to children.
OwnerMayClaim ==
  \A p \in Pdas :
    (Readable(p) /\ OwnBps(p) = 10000 /\ available[p] > 0)
      => ENABLED ClaimParentShare(p)
=============================================================================
