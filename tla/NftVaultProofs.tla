--------------------------- MODULE NftVaultProofs ---------------------------
(***************************************************************************)
(* Theorems about NftVault, for every set of keys, every rent, every width *)
(* of the counters and every amount: its invariant, and what its steps do. *)
(* They are steps of Escrow, the proxy target gets its half, and a balance *)
(* too large for the fee computation stays.                                *)
(***************************************************************************)
EXTENDS NftVault, TLAPS

-----------------------------------------------------------------------------
(* Moving lamports and computing fees.                                     *)

Balances == [Keys \cup {Pda} -> Nat]

\* Lamports that leave the NFT's address for a wallet.
LEMMA PayOutEffect ==
  ASSUME NEW b \in Balances, NEW k \in Keys, NEW n \in 0 .. b[Pda]
  PROVE  /\ Move(b, Pda, k, n) \in Balances
         /\ Move(b, Pda, k, n)[Pda] = b[Pda] - n
         /\ Move(b, Pda, k, n)[k] = b[k] + n
         /\ \A x \in Keys \ {k} : Move(b, Pda, k, n)[x] = b[x]
BY VaultAddressAssumption DEF Move, Balances

\* Lamports that a wallet pays to the NFT's address.
LEMMA PayInEffect ==
  ASSUME NEW b \in Balances, NEW k \in Keys, NEW n \in 0 .. b[k]
  PROVE  /\ Move(b, k, Pda, n) \in Balances
         /\ Move(b, k, Pda, n)[Pda] = b[Pda] + n
BY VaultAddressAssumption DEF Move, Balances

\* What the invariant says of the numbers of a live record.
LEMMA OpenFacts ==
  ASSUME IInv, Open
  PROVE  /\ nft \in NftState
         /\ lamports \in Balances
         /\ Rent \in Nat
         /\ Available \in Nat
         /\ Available = lamports[Pda] - Rent
<1>1. /\ lamports[Pda] \in Nat /\ lamports[Pda] >= Rent
      /\ lamports \in Balances
      /\ nft \in NftState
  BY DEF IInv, TypeOK, RentKept, Open, Balances
<1> QED
  BY <1>1, VaultNumbersAssumption DEF Available

\* A fee of at most 5000 basis points is at most half of the amount.
LEMMA FeeBound ==
  ASSUME IInv, Open
  PROVE  FeeOn(Available) \in Nat /\ 2 * FeeOn(Available) <= Available
<1> DEFINE n == Available
           bps == nft.proxy_fee_bps
           p == n * bps
           q == p \div 10000
<1>1. n \in Nat /\ bps \in 0 .. 5000
  BY OpenFacts DEF NftState
<1> HIDE DEF n, bps
<1>2. p \in Nat /\ p <= n * 5000
  BY <1>1
<1> HIDE DEF p
<1>3. q \in Nat /\ 10000 * q <= p
  BY <1>2
<1> HIDE DEF q
<1>4. q \in Nat /\ 2 * q <= n
  BY <1>1, <1>2, <1>3
<1>5. FeeOn(n) = IF nft.kind = "AddressV2" THEN 0 ELSE q
  BY DEF FeeOn, q, p, bps
<1>6. FeeOn(n) \in Nat /\ 2 * FeeOn(n) <= n
  BY <1>1, <1>4, <1>5
<1> QED
  BY <1>6 DEF n

\* A counter that saturates stays a u64.
LEMMA SaturatingBound ==
  ASSUME NEW a \in 0 .. U64Max, NEW b \in Nat
  PROVE  /\ SaturatingAdd(a, b) \in 0 .. U64Max
         /\ a + b <= U64Max => SaturatingAdd(a, b) = a + b
BY VaultNumbersAssumption DEF SaturatingAdd

-----------------------------------------------------------------------------
(* Every instruction keeps the invariant.                                  *)

LEMMA InitInv == Init => IInv
<1> SUFFICES ASSUME Init PROVE IInv
  OBVIOUS
<1>1. phase = "none" /\ nft = NoRecord /\ tokens = FALSE /\ paid = 0
  BY DEF Init
<1>2. lamports \in [Keys \cup {Pda} -> Nat] /\ lamports[Pda] = 0
  BY VaultNumbersAssumption DEF Init
<1>3. TypeOK
  <2>1. tokens \in BOOLEAN
    BY <1>1, Zenon
  <2> QED
    BY <1>1, <1>2, <2>1, VaultNumbersAssumption DEF TypeOK
<1>4. RentKept /\ PaidAccounted
  BY <1>1, <1>2 DEF RentKept, PaidAccounted, Open
<1> QED
  BY <1>3, <1>4 DEF IInv

LEMMA MintInv ==
  ASSUME IInv, NEW payer \in Keys, NEW owner \in Keys, NEW target \in Keys,
         NEW kind \in Kinds, NEW bps \in FeeBps,
         MintNft(payer, owner, kind, target, bps)
  PROVE  IInv'
<1> DEFINE r == [kind |-> kind, owner |-> owner, proxy_target |-> target,
                 proxy_fee_bps |-> bps, fee_recipient |-> payer,
                 total_received |-> 0, total_forwarded |-> 0]
<1>1. /\ phase = "none" /\ phase' = "open"
      /\ nft' = r
      /\ bps <= 5000
      /\ lamports[Pda] = 0
      /\ lamports[payer] >= Rent
      /\ lamports' = Move(lamports, payer, Pda, Rent)
      /\ UNCHANGED <<tokens, paid>>
  BY DEF MintNft
<1>2. r \in NftState /\ r.total_received = 0 /\ r.total_forwarded = 0
  BY <1>1, VaultNumbersAssumption DEF NftState
<1> HIDE DEF r
<1>3. /\ lamports' \in Balances
      /\ lamports'[Pda] = Rent
  <2>1. lamports \in Balances /\ Rent \in 0 .. lamports[payer]
    BY <1>1, VaultNumbersAssumption DEF IInv, TypeOK, Balances
  <2> QED
    BY <1>1, <2>1, PayInEffect, VaultNumbersAssumption
<1>4. paid = 0
  BY <1>1 DEF IInv, PaidAccounted
<1>5. TypeOK'
  BY <1>1, <1>2, <1>3 DEF IInv, TypeOK, Balances
<1>6. RentKept'
  BY <1>3, VaultNumbersAssumption DEF RentKept
<1>7. PaidAccounted'
  BY <1>1, <1>2, <1>3, <1>4, VaultNumbersAssumption
     DEF PaidAccounted, Available, Open
<1> QED
  BY <1>5, <1>6, <1>7 DEF IInv

\* What ProxyForward and Withdraw share: n lamports, all that is available,
\* leave the address and are counted.
LEMMA ReleaseInv ==
  ASSUME IInv, Open, phase' = phase, paid' = paid, tokens' \in BOOLEAN,
         lamports' \in Balances, lamports'[Pda] = lamports[Pda] - Available,
         nft' \in NftState, nft'.kind = nft.kind,
         nft'.total_forwarded = SaturatingAdd(nft.total_forwarded, Available),
         nft'.total_received =
           IF nft.kind \in WithdrawKinds THEN 0 ELSE nft'.total_forwarded
  PROVE  IInv'
<1>1. /\ lamports[Pda] \in Nat
      /\ lamports[Pda] >= Rent
      /\ Rent \in Nat
      /\ nft \in NftState
      /\ nft.total_forwarded \in 0 .. U64Max
      /\ Available = lamports[Pda] - Rent
      /\ paid \in Nat
    BY VaultNumbersAssumption DEF IInv, TypeOK, RentKept, Open, NftState, Available
<1>2. Open' /\ Available' = 0 /\ lamports'[Pda] = Rent
  BY <1>1 DEF Open, Available
<1>3. paid <= U64Max => nft'.total_forwarded = paid
  <2>1. paid <= U64Max => paid = Available + nft.total_forwarded
    BY DEF IInv, PaidAccounted
  <2> QED
    BY <1>1, <2>1, SaturatingBound
<1>4. nft'.total_forwarded \in 0 .. U64Max
  BY DEF NftState
<1>5. TypeOK'
  BY <1>2 DEF IInv, TypeOK, Balances, Open
<1>6. RentKept'
  BY <1>1, <1>2 DEF RentKept
<1>7. PaidAccounted'
  BY <1>1, <1>2, <1>3, <1>4 DEF PaidAccounted, Open
<1> QED
  BY <1>5, <1>6, <1>7 DEF IInv

\* The balances after a forward.
LEMMA ForwardBalances ==
  ASSUME IInv, ProxyForward
  PROVE  /\ lamports' \in Balances
         /\ lamports'[Pda] = lamports[Pda] - Available
         /\ lamports'[nft.proxy_target] - lamports[nft.proxy_target]
              >= Available - FeeOn(Available)
         /\ \A k \in Keys \ {nft.proxy_target, nft.fee_recipient} :
              lamports'[k] = lamports[k]
<1> DEFINE fee == FeeOn(Available)
           rest == Available - fee
           t == nft.proxy_target
           r == nft.fee_recipient
           b == Move(lamports, Pda, t, rest)
<1>1. /\ lamports \in Balances
      /\ Available \in Nat
      /\ Available <= lamports[Pda]
      /\ lamports[Pda] \in Nat
      /\ t \in Keys /\ r \in Keys
      /\ fee \in Nat /\ 2 * fee <= Available
      /\ lamports' = Move(b, Pda, r, fee)
  BY OpenFacts, FeeBound DEF ProxyForward, NftState, Balances
<1> HIDE DEF fee, t, r
<1>2. rest \in 0 .. lamports[Pda]
  BY <1>1
<1>3. /\ b \in Balances
      /\ b[Pda] = lamports[Pda] - rest
      /\ b[t] = lamports[t] + rest
      /\ \A k \in Keys \ {t} : b[k] = lamports[k]
  BY <1>1, <1>2, PayOutEffect
<1>4. fee \in 0 .. b[Pda] /\ b[Pda] - fee = lamports[Pda] - Available
  BY <1>1, <1>3
<1> HIDE DEF b
<1>5. /\ lamports' \in Balances
      /\ lamports'[Pda] = b[Pda] - fee
      /\ lamports'[r] = b[r] + fee
      /\ \A k \in Keys \ {r} : lamports'[k] = b[k]
  BY <1>1, <1>3, <1>4, PayOutEffect
<1>6. lamports'[t] - lamports[t] >= rest
  <2>1. lamports[t] \in Nat /\ b[t] \in Nat /\ lamports'[t] \in Nat
    BY <1>1, <1>3, <1>5 DEF Balances
  <2>2. lamports'[t] >= b[t]
    BY <1>1, <1>5, <2>1
  <2> QED
    BY <1>1, <1>3, <2>1, <2>2
<1>7. \A k \in Keys \ {t, r} : lamports'[k] = lamports[k]
  BY <1>3, <1>5
<1>8. lamports'[Pda] = lamports[Pda] - Available
  BY <1>4, <1>5
<1> QED
  BY <1>5, <1>6, <1>7, <1>8 DEF fee, t, r

LEMMA ProxyForwardInv ==
  ASSUME IInv, ProxyForward
  PROVE  IInv'
<1> DEFINE f == SaturatingAdd(nft.total_forwarded, Available)
           g == SaturatingAdd(nft.total_received, Available)
<1>1. /\ Open /\ nft.kind \in ForwardKinds
      /\ nft' = [nft EXCEPT !.total_received = g, !.total_forwarded = f]
      /\ UNCHANGED <<phase, tokens, paid>>
  BY DEF ProxyForward
<1>2. /\ nft \in NftState
      /\ nft.total_received = nft.total_forwarded
      /\ f \in 0 .. U64Max
  <2>1. nft.kind \notin WithdrawKinds
    BY <1>1 DEF ForwardKinds, WithdrawKinds
  <2>2. nft \in NftState /\ Available \in Nat
    BY <1>1, OpenFacts
  <2>3. nft.total_forwarded \in 0 .. U64Max
    BY <2>2 DEF NftState
  <2> QED
    BY <1>1, <2>1, <2>2, <2>3, SaturatingBound DEF IInv, PaidAccounted
<1>3. f = g
  BY <1>2
<1> HIDE DEF f, g
<1>4. /\ nft' \in NftState
      /\ nft'.kind = nft.kind
      /\ nft'.total_forwarded = f
      /\ nft'.total_received = f
  <2> DEFINE r == [nft EXCEPT !.total_received = f]
  <2>1. nft' = [r EXCEPT !.total_forwarded = f]
    BY <1>1, <1>3
  <2>2. /\ r \in NftState
        /\ r.kind = nft.kind
        /\ r.total_received = f
    BY <1>2 DEF NftState
  <2> HIDE DEF r
  <2> QED
    BY <1>2, <2>1, <2>2 DEF NftState
<1>5. /\ lamports' \in Balances
      /\ lamports'[Pda] = lamports[Pda] - Available
  BY ForwardBalances
<1>6. nft.kind \notin WithdrawKinds
  BY <1>1 DEF ForwardKinds, WithdrawKinds
<1>7. tokens' \in BOOLEAN
  BY <1>1 DEF IInv, TypeOK
<1> QED
  BY <1>1, <1>4, <1>5, <1>6, <1>7, ReleaseInv DEF f

LEMMA WithdrawInv ==
  ASSUME IInv, NEW d \in Keys, Withdraw(d)
  PROVE  IInv'
<1> DEFINE f == SaturatingAdd(nft.total_forwarded, Available)
<1>1. /\ Open /\ nft.kind \in WithdrawKinds
      /\ nft' = [nft EXCEPT !.total_forwarded = f]
      /\ lamports' = Move(lamports, Pda, d, Available)
      /\ UNCHANGED <<phase, tokens, paid>>
  BY DEF Withdraw
<1>2. /\ nft \in NftState
      /\ nft.total_received = 0
      /\ f \in 0 .. U64Max
  <2>1. nft \in NftState /\ Available \in Nat
    BY <1>1, OpenFacts
  <2>2. nft.total_forwarded \in 0 .. U64Max
    BY <2>1 DEF NftState
  <2> QED
    BY <1>1, <2>1, <2>2, SaturatingBound DEF IInv, PaidAccounted
<1> HIDE DEF f
<1>3. /\ nft' \in NftState
      /\ nft'.kind = nft.kind
      /\ nft'.total_forwarded = f
      /\ nft'.total_received = 0
  BY <1>1, <1>2 DEF NftState
<1>4. /\ lamports \in Balances
      /\ Available \in 0 .. lamports[Pda]
  BY <1>1, OpenFacts DEF Balances
<1>5. /\ lamports' \in Balances
      /\ lamports'[Pda] = lamports[Pda] - Available
  BY <1>1, <1>4, PayOutEffect
<1>6. tokens' \in BOOLEAN
  BY <1>1 DEF IInv, TypeOK
<1> QED
  BY <1>1, <1>3, <1>5, <1>6, ReleaseInv DEF f

\* Instructions that rewrite fields of the record but move no lamports.
LEMMA RewriteInv ==
  ASSUME IInv, UNCHANGED <<phase, lamports, paid>>, tokens' \in BOOLEAN,
         phase # "none" => nft' \in NftState,
         phase = "none" => nft' = nft,
         Open => /\ nft'.kind = nft.kind
                 /\ nft'.total_forwarded = nft.total_forwarded
                 /\ nft'.total_received = nft.total_received
  PROVE  IInv'
<1>1. TypeOK' /\ RentKept'
  BY DEF IInv, TypeOK, RentKept, Open
<1>2. Available' = Available /\ Open' = Open
  BY DEF Available, Open
<1>3. PaidAccounted'
  BY <1>2 DEF IInv, PaidAccounted
<1> QED
  BY <1>1, <1>3 DEF IInv

LEMMA UpdateNftInv ==
  ASSUME IInv, NEW target \in Keys, NEW bps \in FeeBps, UpdateNft(target, bps)
  PROVE  IInv'
<1>1. /\ Open /\ bps \in 0 .. 5000
      /\ nft' = [nft EXCEPT !.proxy_target = target, !.proxy_fee_bps = bps]
      /\ UNCHANGED <<phase, lamports, tokens, paid>>
  <2>1. /\ Open
        /\ nft' = [nft EXCEPT !.proxy_target = target, !.proxy_fee_bps = bps]
        /\ UNCHANGED <<phase, lamports, tokens, paid>>
    BY SMT DEF UpdateNft
  <2>2. bps <= 5000
    BY SMT DEF UpdateNft
  <2>3. bps \in Nat
    BY VaultNumbersAssumption
  <2>4. bps \in 0 .. 5000
    BY <2>2, <2>3
  <2> QED
    BY <2>1, <2>4
<1>2. nft \in NftState
  BY <1>1, OpenFacts
<1>3. /\ nft' \in NftState
      /\ nft'.kind = nft.kind
      /\ nft'.total_forwarded = nft.total_forwarded
      /\ nft'.total_received = nft.total_received
  <2> DEFINE r == [nft EXCEPT !.proxy_target = target]
  <2>1. nft' = [r EXCEPT !.proxy_fee_bps = bps]
    BY <1>1
  <2>2. /\ r \in NftState
        /\ r.kind = nft.kind
        /\ r.total_forwarded = nft.total_forwarded
        /\ r.total_received = nft.total_received
    BY <1>2 DEF NftState
  <2> HIDE DEF r
  <2> QED
    BY <1>1, <2>1, <2>2 DEF NftState
<1>4. tokens' \in BOOLEAN
  BY <1>1 DEF IInv, TypeOK
<1> QED
  BY <1>1, <1>3, <1>4, RewriteInv DEF Open

LEMMA TransferInv ==
  ASSUME IInv, NEW to \in Keys, Transfer(to)
  PROVE  IInv'
<1>1. /\ Open
      /\ nft' = [nft EXCEPT !.owner = to]
      /\ UNCHANGED <<phase, lamports, tokens, paid>>
  BY DEF Transfer
<1>2. nft \in NftState
  BY <1>1, OpenFacts
<1>3. /\ nft' \in NftState
      /\ nft'.kind = nft.kind
      /\ nft'.total_forwarded = nft.total_forwarded
      /\ nft'.total_received = nft.total_received
  BY <1>1, <1>2 DEF NftState
<1>4. tokens' \in BOOLEAN
  BY <1>1 DEF IInv, TypeOK
<1> QED
  BY <1>1, <1>3, <1>4, RewriteInv DEF Open

LEMMA BurnInv ==
  ASSUME IInv, BurnNft
  PROVE  IInv'
<1>1. /\ Open /\ phase' = "closed"
      /\ lamports' = Move(lamports, Pda, nft.owner, lamports[Pda])
      /\ UNCHANGED <<nft, tokens, paid>>
  BY DEF BurnNft
<1>2. /\ nft \in NftState /\ nft.owner \in Keys
      /\ lamports \in Balances
      /\ lamports[Pda] \in 0 .. lamports[Pda]
  BY <1>1, OpenFacts DEF NftState, Balances
<1>3. lamports' \in Balances
  BY <1>1, <1>2, PayOutEffect
<1>4. TypeOK'
  BY <1>1, <1>2, <1>3 DEF IInv, TypeOK, Balances
<1> QED
  BY <1>1, <1>4 DEF IInv, RentKept, PaidAccounted, Open

LEMMA DepositInv ==
  ASSUME IInv, NEW from \in Keys, NEW n \in Amounts, Deposit(from, n)
  PROVE  IInv'
<1>1. /\ lamports' = Move(lamports, from, Pda, n)
      /\ paid' = paid + n
      /\ paid + n <= MaxPaid
      /\ UNCHANGED <<phase, nft, tokens>>
  BY DEF Deposit
<1>2. /\ lamports \in Balances
      /\ n \in 0 .. lamports[from]
      /\ lamports[Pda] \in Nat
      /\ n \in Nat /\ paid \in Nat /\ Rent \in Nat
  BY VaultNumbersAssumption DEF Deposit, IInv, TypeOK, Balances
<1>3. /\ lamports' \in Balances
      /\ lamports'[Pda] = lamports[Pda] + n
  BY <1>1, <1>2, PayInEffect
<1>4. TypeOK'
  <2>1. paid' \in 0 .. MaxPaid
    BY <1>1, <1>2, VaultNumbersAssumption
  <2> QED
    BY <1>1, <1>3, <2>1 DEF IInv, TypeOK, Balances
<1>5. RentKept'
  BY <1>1, <1>2, <1>3 DEF IInv, RentKept, Open
<1>6. PaidAccounted'
  <2>1. CASE phase = "none"
    BY <1>1, <1>2, <1>3, <2>1 DEF IInv, PaidAccounted, Open
  <2>2. CASE Open
    <3>1. /\ Available \in Nat
          /\ Available' = Available + n
          /\ nft.total_forwarded \in Nat
      BY <1>1, <1>2, <1>3, <2>2, OpenFacts, VaultNumbersAssumption
         DEF Available, Open, NftState
    <3>2. /\ paid <= U64Max => paid = Available + nft.total_forwarded
          /\ nft.total_received =
               IF nft.kind \in WithdrawKinds THEN 0 ELSE nft.total_forwarded
      BY <2>2 DEF IInv, PaidAccounted
    <3>3. paid' <= U64Max => paid' = Available' + nft.total_forwarded
      BY <1>1, <1>2, <3>1, <3>2, VaultNumbersAssumption
    <3> QED
      BY <1>1, <2>2, <3>2, <3>3 DEF PaidAccounted, Open
  <2>3. CASE phase = "closed"
    BY <1>1, <2>3 DEF PaidAccounted, Open
  <2> QED
    BY <2>1, <2>2, <2>3 DEF IInv, TypeOK, Open
<1> QED
  BY <1>4, <1>5, <1>6 DEF IInv

LEMMA StepInv ==
  ASSUME IInv, [Next]_vars
  PROVE  IInv'
<1>1. CASE \E payer, owner, target \in Keys, kind \in Kinds, bps \in FeeBps :
             MintNft(payer, owner, kind, target, bps)
  BY <1>1, MintInv
<1>2. CASE ProxyForward
  BY <1>2, ProxyForwardInv
<1>3. CASE \E destination \in Keys : Withdraw(destination)
  BY <1>3, WithdrawInv
<1>4. CASE WithdrawTokens
  BY <1>4, RewriteInv DEF WithdrawTokens, IInv, TypeOK, Open
<1>5. CASE \E target \in Keys, bps \in FeeBps : UpdateNft(target, bps)
  BY <1>5, UpdateNftInv
<1>6. CASE \E new_owner \in Keys : Transfer(new_owner)
  BY <1>6, TransferInv
<1>7. CASE BurnNft
  BY <1>7, BurnInv
<1>8. CASE \E from \in Keys, n \in Amounts : Deposit(from, n)
  BY <1>8, DepositInv
<1>9. CASE DepositTokens
  BY <1>9, RewriteInv DEF DepositTokens, IInv, TypeOK
<1>10. CASE UNCHANGED vars
  BY <1>10, RewriteInv DEF vars, IInv, TypeOK
<1> QED
  BY <1>1, <1>2, <1>3, <1>4, <1>5, <1>6, <1>7, <1>8, <1>9, <1>10 DEF Next

\* In every reachable state the balances are those of wallets, the record
\* keeps its rent, and its counters account for every lamport paid in.
THEOREM VaultInvariant == Spec => []IInv
BY InitInv, StepInv, PTL DEF Spec

-----------------------------------------------------------------------------
(* The refinement, one instruction at a time.                              *)

\* The record's counter as Escrow sees it.
Out == IF phase = "none" THEN 0 ELSE nft.total_forwarded

LEMMA PromiseInit == Init => Promise!Init
BY VaultAddressAssumption DEF Init, Promise!Init, Available, Open

LEMMA MintOpens ==
  ASSUME IInv, NEW payer \in Keys, NEW owner \in Keys, NEW target \in Keys,
         NEW kind \in Kinds, NEW bps \in FeeBps,
         MintNft(payer, owner, kind, target, bps)
  PROVE  Promise!Open
<1>1. /\ phase = "none" /\ phase' = "open"
      /\ lamports[Pda] = 0
      /\ lamports[payer] >= Rent
      /\ lamports' = Move(lamports, payer, Pda, Rent)
      /\ nft'.total_forwarded = 0
  BY DEF MintNft
<1>2. lamports'[Pda] = Rent
  <2>1. lamports \in Balances /\ Rent \in 0 .. lamports[payer]
    BY <1>1, VaultNumbersAssumption DEF IInv, TypeOK, Balances
  <2> QED
    BY <1>1, <2>1, PayInEffect, VaultNumbersAssumption
<1>3. Available = 0 /\ Available' = 0
  BY <1>1, <1>2, VaultNumbersAssumption DEF Available, Open
<1> QED
  BY <1>1, <1>3 DEF Promise!Open

\* A payment arrives, whether or not there is a record.
LEMMA DepositPaysIn ==
  ASSUME IInv, NEW from \in Keys, NEW n \in Amounts, Deposit(from, n)
  PROVE  Promise!PayIn
<1>1. /\ lamports' = Move(lamports, from, Pda, n)
      /\ UNCHANGED <<phase, nft>>
  BY DEF Deposit
<1>2. /\ lamports \in Balances
      /\ n \in 0 .. lamports[from]
      /\ n \in Nat \ {0}
      /\ lamports[Pda] \in Nat /\ Rent \in Nat
  BY VaultNumbersAssumption DEF Deposit, IInv, TypeOK, Balances
<1>3. lamports'[Pda] = lamports[Pda] + n
  BY <1>1, <1>2, PayInEffect
<1>4. Available \in Nat
  <2>1. CASE Open
    BY <2>1, OpenFacts
  <2>2. CASE ~ Open
    BY <1>2, <2>2 DEF Available
  <2> QED
    BY <2>1, <2>2
<1>5. Available' = Available + n
  BY <1>1, <1>2, <1>3 DEF Available, Open
<1>6. Available' \in Nat /\ Available' > Available
  BY <1>2, <1>4, <1>5
<1> QED
  BY <1>1, <1>6 DEF Promise!PayIn

\* A forward and a withdrawal release everything and count it.
LEMMA ForwardReleases ==
  ASSUME IInv, ProxyForward
  PROVE  Promise!Release
<1>1. /\ phase = "open" /\ phase' = "open" /\ Open
      /\ Available > 0
      /\ nft \in NftState
      /\ lamports[Pda] \in Nat /\ Rent \in Nat
      /\ Available = lamports[Pda] - Rent
  BY OpenFacts DEF ProxyForward, Open, Balances
<1>2. lamports'[Pda] = lamports[Pda] - Available
  BY ForwardBalances
<1>3. Available' = 0
  BY <1>1, <1>2 DEF Available, Open
<1>4. nft'.total_forwarded = SaturatingAdd(nft.total_forwarded, Available)
  <2>1. nft' = [nft EXCEPT
                  !.total_received = SaturatingAdd(nft.total_received, Available),
                  !.total_forwarded = SaturatingAdd(nft.total_forwarded, Available)]
    BY DEF ProxyForward
  <2> QED
    BY <1>1, <2>1 DEF NftState
<1> QED
  BY <1>1, <1>3, <1>4 DEF Promise!Release, Promise!Capped, SaturatingAdd

LEMMA WithdrawReleases ==
  ASSUME IInv, NEW d \in Keys, Withdraw(d)
  PROVE  Promise!Release
<1>1. /\ phase = "open" /\ phase' = "open" /\ Open
      /\ Available > 0
      /\ nft \in NftState
      /\ lamports \in Balances
      /\ lamports[Pda] \in Nat /\ Rent \in Nat
      /\ Available = lamports[Pda] - Rent
      /\ lamports' = Move(lamports, Pda, d, Available)
  BY OpenFacts DEF Withdraw, Open, Balances
<1>2. lamports'[Pda] = lamports[Pda] - Available
  <2>1. Available \in 0 .. lamports[Pda]
    BY <1>1
  <2> QED
    BY <1>1, <2>1, PayOutEffect
<1>3. Available' = 0
  BY <1>1, <1>2 DEF Available, Open
<1>4. nft'.total_forwarded = SaturatingAdd(nft.total_forwarded, Available)
  <2>1. nft' = [nft EXCEPT
                  !.total_forwarded = SaturatingAdd(nft.total_forwarded, Available)]
    BY DEF Withdraw
  <2> QED
    BY <1>1, <2>1 DEF NftState
<1> QED
  BY <1>1, <1>3, <1>4 DEF Promise!Release, Promise!Capped, SaturatingAdd

LEMMA BurnCloses ==
  ASSUME IInv, BurnNft
  PROVE  Promise!Close
<1>1. /\ phase = "open" /\ phase' = "closed" /\ Open
      /\ nft' = nft
      /\ lamports' = Move(lamports, Pda, nft.owner, lamports[Pda])
      /\ nft.owner \in Keys
      /\ lamports \in Balances
      /\ lamports[Pda] \in 0 .. lamports[Pda]
      /\ lamports[Pda] \in Nat
  BY OpenFacts DEF BurnNft, Open, NftState, Balances
<1>2. lamports'[Pda] = 0
  BY <1>1, PayOutEffect
<1>3. Available' = 0
  BY <1>1, <1>2 DEF Available, Open
<1> QED
  BY <1>1, <1>3 DEF Promise!Close

LEMMA PromiseStep ==
  ASSUME IInv, [Next]_vars
  PROVE  [Promise!Next]_<<phase, Available, Out>>
<1>1. CASE \E payer, owner, target \in Keys, kind \in Kinds, bps \in FeeBps :
             MintNft(payer, owner, kind, target, bps)
  BY <1>1, MintOpens DEF Promise!Next
<1>2. CASE ProxyForward
  BY <1>2, ForwardReleases DEF Promise!Next
<1>3. CASE \E destination \in Keys : Withdraw(destination)
  BY <1>3, WithdrawReleases DEF Promise!Next
<1>4. CASE BurnNft
  BY <1>4, BurnCloses DEF Promise!Next
<1>5. CASE \E from \in Keys, n \in Amounts : Deposit(from, n)
  BY <1>5, DepositPaysIn DEF Promise!Next
<1>6. CASE \E target \in Keys, bps \in FeeBps : UpdateNft(target, bps)
  <2>1. PICK target \in Keys, bps \in FeeBps : UpdateNft(target, bps)
    BY <1>6
  <2>2. nft'.total_forwarded = nft.total_forwarded
    <3>1. nft \in NftState
      BY <2>1, OpenFacts DEF UpdateNft
    <3> QED
      BY <2>1, <3>1 DEF UpdateNft, NftState
  <2> QED
    BY <2>1, <2>2 DEF UpdateNft, Available, Open, Out
<1>7. CASE \E new_owner \in Keys : Transfer(new_owner)
  <2>1. PICK new_owner \in Keys : Transfer(new_owner)
    BY <1>7
  <2>2. nft'.total_forwarded = nft.total_forwarded
    <3>1. nft \in NftState
      BY <2>1, OpenFacts DEF Transfer
    <3> QED
      BY <2>1, <3>1 DEF Transfer, NftState
  <2> QED
    BY <2>1, <2>2 DEF Transfer, Available, Open, Out
<1>8. CASE WithdrawTokens \/ DepositTokens \/ UNCHANGED vars
  BY <1>8 DEF WithdrawTokens, DepositTokens, vars, Available, Open, Out
<1> QED
  BY <1>1, <1>2, <1>3, <1>4, <1>5, <1>6, <1>7, <1>8 DEF Next

\* The vault implements Escrow: the address holds what it is paid, releases
\* all of it at once and counts it, and once closed releases nothing.
THEOREM VaultKeepsPromise == Spec => KeepsPromise
<1>1. IInv /\ [Next]_vars => [Promise!Next]_<<phase, Available, Out>>
  BY PromiseStep
<1> QED
  BY <1>1, PromiseInit, VaultInvariant, PTL
     DEF Spec, KeepsPromise, Promise!Spec, Promise!vars, Out

-----------------------------------------------------------------------------
(* Where the money of a live record can go.                                *)

\* A live record's balance falls by a forward or a withdrawal, and by a burn.
LEMMA Spenders ==
  ASSUME IInv, [Next]_vars, Open, lamports'[Pda] < lamports[Pda]
  PROVE  ProxyForward \/ (\E d \in Keys : Withdraw(d)) \/ BurnNft
<1>1. lamports[Pda] \in Nat
  BY DEF IInv, TypeOK
<1>2. lamports' # lamports
  BY <1>1
<1>3. ~ \E payer, owner, target \in Keys, kind \in Kinds, bps \in FeeBps :
          MintNft(payer, owner, kind, target, bps)
  BY DEF MintNft, Open
<1>4. ~ \E target \in Keys, bps \in FeeBps : UpdateNft(target, bps)
  <2>1. ASSUME NEW target \in Keys, NEW bps \in FeeBps, UpdateNft(target, bps)
        PROVE  lamports' = lamports
    BY <2>1, SMT DEF UpdateNft
  <2> QED
    BY <1>2, <2>1
<1>5. ~ \E new_owner \in Keys : Transfer(new_owner)
  BY <1>2 DEF Transfer
<1>6. ~ (WithdrawTokens \/ DepositTokens \/ UNCHANGED vars)
  BY <1>2 DEF WithdrawTokens, DepositTokens, vars
<1>7. ~ \E from \in Keys, n \in Amounts : Deposit(from, n)
  <2>1. SUFFICES ASSUME NEW from \in Keys, NEW n \in Amounts, Deposit(from, n)
                 PROVE  FALSE
    OBVIOUS
  <2>2. /\ lamports' = Move(lamports, from, Pda, n)
        /\ lamports \in Balances /\ n \in 0 .. lamports[from]
    BY <2>1, VaultNumbersAssumption DEF Deposit, IInv, TypeOK, Balances
  <2>3. lamports'[Pda] = lamports[Pda] + n
    BY <2>2, PayInEffect
  <2> QED
    BY <1>1, <2>2, <2>3, VaultNumbersAssumption
<1> QED
  BY <1>3, <1>4, <1>5, <1>6, <1>7 DEF Next

LEMMA HalfStep ==
  ASSUME IInv, [Next]_vars, Open, Open', lamports'[Pda] < lamports[Pda],
         nft.kind \in {"Address", "AddressV2", "AddressV5"}
  PROVE  /\ 2 * (lamports'[nft.proxy_target] - lamports[nft.proxy_target])
              >= lamports[Pda] - lamports'[Pda]
         /\ \A k \in Keys \ {nft.proxy_target, nft.fee_recipient} :
              lamports'[k] = lamports[k]
<1>1. ~ BurnNft
  BY DEF BurnNft, Open
<1>2. ~ \E d \in Keys : Withdraw(d)
  BY DEF Withdraw, WithdrawKinds
<1>3. ProxyForward
  BY <1>1, <1>2, Spenders
<1> DEFINE t == nft.proxy_target
           r == nft.fee_recipient
           fee == FeeOn(Available)
           all == Available
<1>4. /\ all \in Nat /\ fee \in Nat /\ 2 * fee <= all
      /\ lamports \in Balances /\ t \in Keys
  BY OpenFacts, FeeBound DEF NftState
<1>5. /\ lamports' \in Balances
      /\ lamports'[Pda] = lamports[Pda] - all
      /\ lamports'[t] - lamports[t] >= all - fee
      /\ \A k \in Keys \ {t, r} : lamports'[k] = lamports[k]
  BY <1>3, ForwardBalances
<1> HIDE DEF t, r, fee, all
<1>6. /\ lamports[t] \in Nat /\ lamports'[t] \in Nat
      /\ lamports[Pda] \in Nat
  BY <1>4, <1>5 DEF Balances
<1>7. 2 * (lamports'[t] - lamports[t]) >= lamports[Pda] - lamports'[Pda]
  BY <1>4, <1>5, <1>6
<1> QED
  BY <1>5, <1>7 DEF t, r

\* Whatever fee was asked for, the proxy target of a live forwarding record
\* gets at least half of what leaves the address, and besides it only the
\* recipient of the fee gains.
THEOREM HalfToTarget == Spec => TargetGetsHalf
<1>1. IInv /\ [Next]_vars =>
        [(Open /\ Open' /\ lamports'[Pda] < lamports[Pda]
            /\ nft.kind \in {"Address", "AddressV2", "AddressV5"}) =>
           /\ 2 * (lamports'[nft.proxy_target] - lamports[nft.proxy_target])
                >= lamports[Pda] - lamports'[Pda]
           /\ \A k \in Keys \ {nft.proxy_target, nft.fee_recipient} :
                lamports'[k] = lamports[k]]_vars
  BY HalfStep
<1> QED
  BY <1>1, VaultInvariant, PTL DEF Spec, TargetGetsHalf

LEMMA TooMuchStep ==
  ASSUME IInv, [Next]_vars, TooMuch
  PROVE  lamports'[Pda] >= lamports[Pda] \/ phase' = "closed"
<1>1. /\ Open
      /\ nft.kind \in {"Address", "AddressV5"}
      /\ lamports[Pda] \in Nat /\ lamports' \in Balances
      /\ Pda \in Keys \cup {Pda}
  BY StepInv DEF TooMuch, IInv, TypeOK, Balances
<1>2. lamports'[Pda] \in Nat
  BY <1>1 DEF Balances
<1>3. Overflows(Available)
  BY DEF TooMuch, Overflows, Available
<1>4. ~ ProxyForward
  BY <1>3 DEF ProxyForward
<1>5. ~ \E d \in Keys : Withdraw(d)
  BY <1>1 DEF Withdraw, WithdrawKinds
<1>6. ~ BurnNft \/ phase' = "closed"
  BY DEF BurnNft
<1>7. lamports'[Pda] < lamports[Pda] => phase' = "closed"
  BY <1>1, <1>4, <1>5, <1>6, Spenders
<1> QED
  BY <1>1, <1>2, <1>7

\* A balance whose fee cannot be computed in 64 bits is never forwarded, in
\* part or with a wrapped fee: it leaves only by a burn.
THEOREM OversizedStays == Spec => TooMuchStays
<1>1. IInv /\ [Next]_vars =>
        [TooMuch => lamports'[Pda] >= lamports[Pda] \/ phase' = "closed"]_vars
  BY TooMuchStep
<1> QED
  BY <1>1, VaultInvariant, PTL DEF Spec, TooMuchStays
=============================================================================
