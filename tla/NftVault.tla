------------------------------ MODULE NftVault ------------------------------
(***************************************************************************)
(* The lamports (and, for AddressV3j, the SPL tokens) of one NFT's         *)
(* address: who may take them out, where they go, and what fee is due.     *)
(* Which NFTs and tokens exist is NftRegistry's subject; here the SPL      *)
(* token program is an external party that may refuse an instruction, and  *)
(* a refused instruction leaves everything as it was.                      *)
(*                                                                         *)
(* The kind AddressV4Fraction, whose record also pays fraction children,   *)
(* is left to the model of the pool.                                       *)
(***************************************************************************)
EXTENDS NftTypes, Naturals

CONSTANTS
  Keys,       \* wallet public keys
  Pda,        \* the NFT's address
  NoRecord,   \* in place of the record before it exists
  Kinds,      \* the kinds the NFT may be minted as
  FeeBps,     \* the values of proxy_fee_bps callers ask for
  Amounts,    \* the amounts payers send in one transfer
  Purse,      \* the lamports of every wallet at the start
  Rent,       \* rent.minimum_balance of the record's size
  U64Max,     \* the largest u64
  MaxPaid     \* bound on what is paid to the address in all

ASSUME VaultAddressAssumption == Pda \notin Keys
ASSUME VaultKindsAssumption == Kinds \subseteq NftKind \ {"AddressV4Fraction"}
ASSUME VaultNumbersAssumption ==
  /\ FeeBps \subseteq Nat
  /\ Amounts \subseteq Nat \ {0}
  /\ Purse \in Nat
  /\ Rent \in Nat \ {0}
  /\ U64Max \in Nat
  /\ MaxPaid \in Nat

VARIABLES
  phase,     \* the record does not exist yet, exists, was burned:
             \* "none", "open", "closed"
  nft,       \* the record's fields that bear on money, as last written
  lamports,  \* the balance of every wallet and of the NFT's address
  tokens,    \* whether a token account of the NFT's address holds SPL tokens
  paid       \* history: what payers sent to the address, in all

vars == <<phase, nft, lamports, tokens, paid>>

NftState ==
  [kind: Kinds, owner: Keys, proxy_target: Keys, proxy_fee_bps: 0 .. 5000,
   fee_recipient: Keys, total_received: 0 .. U64Max,
   total_forwarded: 0 .. U64Max]

Open == phase = "open"

-----------------------------------------------------------------------------
(* Lamports and arithmetic of the handlers.                                *)

\* What the address holds beyond the rent of the record, if it has one.
Available == lamports[Pda] - (IF Open THEN Rent ELSE 0)

\* The balances after n lamports moved.
Move(balances, from, to, n) == [balances EXCEPT ![from] = @ - n, ![to] = @ + n]

SaturatingAdd(a, b) == IF a + b > U64Max THEN U64Max ELSE a + b

OverflowsFault(amount) == FALSE

\* checked_mul: the product of an amount and the fee does not fit a u64.
\* No product is formed for AddressV2.
Overflows(amount) ==
  nft.kind # "AddressV2" /\ amount * nft.proxy_fee_bps > U64Max

FeeOn(amount) ==
  IF nft.kind = "AddressV2" THEN 0 ELSE (amount * nft.proxy_fee_bps) \div 10000

-----------------------------------------------------------------------------
(* The program's instructions, once the record exists.                     *)

\* The payer is the collection's authority, and so the recipient of fees
\* whatever the kind.  The rents of the other accounts a mint creates are
\* left out.
MintNft(payer, owner, kind, target, bps) ==
  /\ phase = "none"
  /\ bps <= 5000
  /\ lamports[Pda] = 0
  /\ lamports[payer] >= Rent
  /\ phase' = "open"
  /\ nft' = [kind |-> kind, owner |-> owner, proxy_target |-> target,
             proxy_fee_bps |-> bps, fee_recipient |-> payer,
             total_received |-> 0, total_forwarded |-> 0]
  /\ lamports' = Move(lamports, payer, Pda, Rent)
  /\ UNCHANGED <<tokens, paid>>

ProxyForwardFault ==
  /\ Open
  /\ nft.kind \in ForwardKinds
  /\ Available > 0
  /\ ~ Overflows(Available)
  /\ LET fee == FeeOn(Available)
     IN  /\ lamports' = Move(Move(lamports, Pda, nft.proxy_target, Available - fee),
                             Pda, nft.fee_recipient, fee)
         /\ nft' = [nft EXCEPT
                      !.total_received = SaturatingAdd(@, Available),
                      !.total_forwarded = SaturatingAdd(@, Available - fee)]
  /\ UNCHANGED <<phase, tokens, paid>>

\* Everything available goes to the proxy target, less the fee.
ProxyForward ==
  /\ Open
  /\ nft.kind \in ForwardKinds
  /\ Available > 0
  /\ ~ Overflows(Available)
  /\ LET fee == FeeOn(Available)
     IN  lamports' = Move(Move(lamports, Pda, nft.proxy_target, Available - fee),
                          Pda, nft.fee_recipient, fee)
  /\ nft' = [nft EXCEPT !.total_received = SaturatingAdd(@, Available),
                        !.total_forwarded = SaturatingAdd(@, Available)]
  /\ UNCHANGED <<phase, tokens, paid>>

WithdrawFault(destination) ==
  /\ Open
  /\ nft.kind \in WithdrawKinds
  /\ lamports' = Move(lamports, Pda, destination, lamports[Pda])
  /\ nft' = [nft EXCEPT !.total_forwarded = SaturatingAdd(@, Available)]
  /\ UNCHANGED <<phase, tokens, paid>>

\* The owner takes everything available out of a storage.
Withdraw(destination) ==
  /\ Open
  /\ nft.kind \in WithdrawKinds
  /\ Available > 0
  /\ lamports' = Move(lamports, Pda, destination, Available)
  /\ nft' = [nft EXCEPT !.total_forwarded = SaturatingAdd(@, Available)]
  /\ UNCHANGED <<phase, tokens, paid>>

\* The owner has the record's address sign for the token program.
WithdrawTokens ==
  /\ Open
  /\ nft.kind = "AddressV3j"
  /\ tokens
  /\ tokens' = FALSE
  /\ UNCHANGED <<phase, nft, lamports, paid>>

UpdateNftFault(target, bps) ==
  /\ Open
  /\ bps <= 10000
  /\ nft' = [nft EXCEPT !.proxy_target = target, !.proxy_fee_bps = bps]
  /\ UNCHANGED <<phase, lamports, tokens, paid>>

\* The collection's authority, whoever that is by now, changes the target or
\* the fee; the recipient of the fee stays.
UpdateNft(target, bps) ==
  /\ Open
  /\ bps <= 5000
  /\ nft' = [nft EXCEPT !.proxy_target = target, !.proxy_fee_bps = bps]
  /\ UNCHANGED <<phase, lamports, tokens, paid>>

Transfer(new_owner) ==
  /\ Open
  /\ nft.kind \notin {"SBT"} \cup CloneKinds
  /\ nft' = [nft EXCEPT !.owner = new_owner]
  /\ UNCHANGED <<phase, lamports, tokens, paid>>

\* The account's lamports, the rent and what is still available, go to the
\* owner, and the runtime removes the empty account.
BurnNft ==
  /\ Open
  /\ nft.kind # "SBT"
  /\ nft.kind \in StorageKinds => Available = 0
  /\ phase' = "closed"
  /\ lamports' = Move(lamports, Pda, nft.owner, lamports[Pda])
  /\ UNCHANGED <<nft, tokens, paid>>

-----------------------------------------------------------------------------
(* What others do on the same ledger, without the program.                 *)

Deposit(from, n) ==
  /\ lamports[from] >= n
  /\ paid + n <= MaxPaid
  /\ lamports' = Move(lamports, from, Pda, n)
  /\ paid' = paid + n
  /\ UNCHANGED <<phase, nft, tokens>>

DepositTokens ==
  /\ tokens' = TRUE
  /\ UNCHANGED <<phase, nft, lamports, paid>>

-----------------------------------------------------------------------------
Init ==
  /\ phase = "none"
  /\ nft = NoRecord
  /\ lamports = [k \in Keys \cup {Pda} |-> IF k = Pda THEN 0 ELSE Purse]
  /\ tokens = FALSE
  /\ paid = 0

Next ==
  \/ \E payer, owner, target \in Keys, kind \in Kinds, bps \in FeeBps :
       MintNft(payer, owner, kind, target, bps)
  \/ ProxyForward
  \/ \E destination \in Keys : Withdraw(destination)
  \/ WithdrawTokens
  \/ \E target \in Keys, bps \in FeeBps : UpdateNft(target, bps)
  \/ \E new_owner \in Keys : Transfer(new_owner)
  \/ BurnNft
  \/ \E from \in Keys, n \in Amounts : Deposit(from, n)
  \/ DepositTokens

Spec == Init /\ [][Next]_vars

\* The owner of an NFT that forwards goes on forwarding.
FairSpec == Spec /\ WF_vars(ProxyForward)

-----------------------------------------------------------------------------
(* Type correctness.                                                       *)

\* The record exists once it was minted, holds what the handlers write into
\* it, and no balance is negative.
TypeOK ==
  /\ phase \in {"none", "open", "closed"}
  /\ phase = "none" => nft = NoRecord
  /\ phase # "none" => nft \in NftState
  /\ lamports \in [Keys \cup {Pda} -> Nat]
  /\ tokens \in BOOLEAN
  /\ paid \in 0 .. MaxPaid

-----------------------------------------------------------------------------
(* Safety.                                                                 *)

\* No instruction takes the rent out of a live record, so the runtime never
\* collects the account (forwards, withdrawals and fees together).
RentKept == Open => lamports[Pda] >= Rent

\* The counters tell the whole story of the money: what was paid in is
\* either available or was counted as forwarded, as long as the counter is
\* wide enough; a forwarding record has received exactly what it forwarded.
PaidAccounted ==
  /\ phase = "none" => paid = lamports[Pda]
  /\ Open =>
       /\ paid <= U64Max => paid = Available + nft.total_forwarded
       /\ nft.total_received =
            IF nft.kind \in WithdrawKinds THEN 0 ELSE nft.total_forwarded

\* The inductive invariant.
IInv == TypeOK /\ RentKept /\ PaidAccounted

\* The address as Escrow sees it.
Promise == INSTANCE Escrow
             WITH CounterMax <- U64Max,
                  held <- Available,
                  out <- IF phase = "none" THEN 0 ELSE nft.total_forwarded

\* The address holds what it is paid, releases all of it at once and counts
\* it, and once closed releases nothing.
KeepsPromise == Promise!Spec

-----------------------------------------------------------------------------
(* What a step may never do.                                               *)

\* Whatever fee was asked for at the mint or in an update, at least half of
\* what leaves a forwarding address goes to the proxy target (error.rs:
\* "Fee exceeds 50%"), and only the target and the fee's recipient gain.
TargetGetsHalf ==
  [][(Open /\ Open' /\ lamports'[Pda] < lamports[Pda]
        /\ nft.kind \in {"Address", "AddressV2", "AddressV5"}) =>
       /\ 2 * (lamports'[nft.proxy_target] - lamports[nft.proxy_target])
            >= lamports[Pda] - lamports'[Pda]
       /\ \A k \in Keys \ {nft.proxy_target, nft.fee_recipient} :
            lamports'[k] = lamports[k] ]_vars

\* A live record whose balance times the fee does not fit a u64.
TooMuch ==
  /\ Open
  /\ nft.kind \in {"Address", "AddressV5"}
  /\ (lamports[Pda] - Rent) * nft.proxy_fee_bps > U64Max

\* Such a balance is not forwarded, in part or with a wrapped fee: until the
\* fee is lowered it leaves only by a burn.
TooMuchStays ==
  [][TooMuch => lamports'[Pda] >= lamports[Pda] \/ phase' = "closed"]_vars

-----------------------------------------------------------------------------
(* Liveness.                                                               *)

\* What is paid to a forwarding NFT whose owner goes on forwarding is paid
\* out, unless it outgrows the fee computation or the NFT is burned.
ForwardDrains ==
  (Open /\ nft.kind \in {"Address", "AddressV2", "AddressV5"} /\ Available > 0)
    ~> (phase = "closed" \/ Available = 0 \/ TooMuch)

-----------------------------------------------------------------------------
(* What a message of the code says, and the code does not do.              *)

=============================================================================
