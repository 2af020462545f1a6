----------------------- MODULE NftRegistryStepProofs ------------------------
(***************************************************************************)
(* What the steps of NftRegistry do, for every value of its constants:     *)
(* they are steps of IssueOrder, and they never do what the action         *)
(* properties forbid.  All of it rests on the invariant that               *)
(* NftRegistryProofs establishes.                                          *)
(***************************************************************************)
EXTENDS NftRegistryProofs

\* The addresses as IssueOrder sees them.
Statuses == [a \in NftPdas |-> StatusOf(a)]

-----------------------------------------------------------------------------
(* Steps that are not seen in IssueOrder.                                  *)

\* No address changes its status while no record comes or goes and no
\* counter moves.
LEMMA SameStatus ==
  ASSUME DOMAIN nft' = DOMAIN nft, DOMAIN coll' = DOMAIN coll,
         \A c \in DOMAIN coll : coll'[c].minted_count = coll[c].minted_count
  PROVE  Statuses' = Statuses
<1>1. \A a \in NftPdas : StatusOf(a)' = StatusOf(a)
  BY DEF StatusOf
<1> QED
  BY <1>1 DEF Statuses

\* A new collection has counted nothing, so its addresses stay free.
LEMMA InitializeStatus ==
  ASSUME IInv, NEW k \in Creators, NEW id \in CollectionIds,
         NEW supply \in 0 .. MaxSupply, InitializeCollection(k, id, supply)
  PROVE  Statuses' = Statuses
<1> DEFINE c == <<k, id>>
<1>1. /\ c \notin DOMAIN coll
      /\ DOMAIN coll' = DOMAIN coll \cup {c}
      /\ coll'[c].minted_count = 0
      /\ \A d \in DOMAIN coll : coll'[d] = coll[d]
      /\ nft' = nft
  BY DEF InitializeCollection, Create
<1> HIDE DEF c
<1>2. ASSUME NEW a \in NftPdas
      PROVE  StatusOf(a)' = StatusOf(a)
  <2>1. a[2] \in Nat
    BY DEF NftPdas, Indexes
  <2>2. CASE a[1] = c
    BY <1>1, <2>1, <2>2 DEF StatusOf
  <2>3. CASE a[1] # c
    BY <1>1, <2>3 DEF StatusOf
  <2> QED
    BY <2>2, <2>3
<1> QED
  BY <1>2 DEF Statuses

-----------------------------------------------------------------------------
(* Steps that issue or retire an address.                                  *)

\* A mint and an auto-mint issue the collection's next address: it was free,
\* and every lower one is already issued.
LEMMA IssueStatus ==
  ASSUME IInv, NEW c, NEW s, IssueRecord(c, s)
  PROVE  Order!Issue(NextPda(c)) /\ NextPda(c) \in NftPdas
<1> DEFINE n == NextPda(c)
           count == coll[c].minted_count
<1>1. /\ c \in DOMAIN coll
      /\ n \in NftPdas
      /\ n \notin DOMAIN nft
      /\ n[1] = c /\ n[2] = count
      /\ nft' = Create(nft, n, s)
      /\ coll' = [coll EXCEPT ![c].minted_count = @ + 1]
  BY NextPdaIsNew DEF IssueRecord, IInv, NextPda
<1>2. coll[c] \in CollectionState /\ count \in Nat
  BY <1>1, SupplyAssumption DEF IInv, TypeOK, CollectionState
<1>3. /\ DOMAIN coll' = DOMAIN coll
      /\ coll'[c].minted_count = count + 1
      /\ \A d \in DOMAIN coll \ {c} : coll'[d] = coll[d]
  <2>1. coll'[c] = [coll[c] EXCEPT !.minted_count = @ + 1]
    BY <1>1 DEF IInv, TypeOK
  <2> QED
    BY <1>1, <1>2, <2>1 DEF IInv, TypeOK, CollectionState
<1>4. DOMAIN nft' = DOMAIN nft \cup {n}
  BY <1>1 DEF Create
<1> HIDE DEF n
<1>5. StatusOf(n) = "free"
  BY <1>1, <1>2 DEF StatusOf
<1>6. ASSUME NEW i \in Indexes, i < n[2]
      PROVE  StatusOf(<<n[1], i>>) # "free"
  BY <1>1, <1>6 DEF StatusOf
<1>7. ASSUME NEW a \in NftPdas
      PROVE  StatusOf(a)' = IF a = n THEN "live" ELSE StatusOf(a)
  <2>1. CASE a = n
    BY <1>4, <2>1 DEF StatusOf
  <2>2. CASE a # n /\ a[1] # c
    BY <1>3, <1>4, <2>2 DEF StatusOf
  <2>3. CASE a # n /\ a[1] = c
    <3>1. a = <<a[1], a[2]>> /\ n = <<n[1], n[2]>> /\ a[2] \in Nat
      BY <1>1 DEF NftPdas, Indexes
    <3>2. a[2] # count
      BY <1>1, <2>3, <3>1
    <3>3. (a[2] < count + 1) <=> (a[2] < count)
      BY <1>2, <3>1, <3>2
    <3> QED
      BY <1>1, <1>3, <1>4, <2>3, <3>3 DEF StatusOf
  <2> QED
    BY <2>1, <2>2, <2>3
<1>8. Statuses' = [Statuses EXCEPT ![n] = "live"]
  BY <1>1, <1>7 DEF Statuses
<1>9. Statuses[n] = "free"
  BY <1>1, <1>5 DEF Statuses
<1>10. ASSUME NEW i \in Indexes, i < n[2]
       PROVE  Statuses[<<n[1], i>>] # "free"
  <2>1. <<n[1], i>> \in NftPdas
    BY <1>1 DEF NftPdas
  <2> QED
    BY <1>6, <1>10, <2>1 DEF Statuses
<1>11. Order!Issue(n)
  BY <1>8, <1>9, <1>10 DEF Order!Issue, Statuses
<1> QED
  BY <1>1, <1>11 DEF n

\* A burn retires its address: the counter has passed it and never returns.
LEMMA BurnStatus ==
  ASSUME IInv, NEW a \in DOMAIN nft, BurnNft(a)
  PROVE  Order!Retire(a) /\ a \in NftPdas
<1>1. /\ DOMAIN nft' = DOMAIN nft \ {a}
      /\ coll' = coll
      /\ a \in NftPdas
  BY DEF BurnNft, Purge, Restrict, IInv, TypeOK
<1>2. StatusOf(a)' = "gone"
  BY <1>1 DEF StatusOf, IInv, CounterCoversRecords
<1>3. \A b \in NftPdas \ {a} : StatusOf(b)' = StatusOf(b)
  BY <1>1 DEF StatusOf
<1>4. Statuses' = [Statuses EXCEPT ![a] = "gone"]
  BY <1>1, <1>2, <1>3 DEF Statuses
<1>5. Statuses[a] = "live"
  BY <1>1 DEF Statuses, StatusOf
<1> QED
  BY <1>1, <1>4, <1>5 DEF Order!Retire, Statuses

-----------------------------------------------------------------------------
(* The refinement.                                                         *)

LEMMA OrderInit == Init => Order!Init
<1>1. Init => \A a \in NftPdas : StatusOf(a) = "free"
  BY DEF Init, StatusOf, NoAccounts
<1> QED
  BY <1>1 DEF Order!Init, Order!Addresses, NftPdas

LEMMA OrderStep ==
  ASSUME IInv, [Next]_vars
  PROVE  [Order!Next]_Statuses
<1>1. CASE \E k \in Creators, id \in CollectionIds, supply \in 0 .. MaxSupply :
             InitializeCollection(k, id, supply)
  BY <1>1, InitializeStatus
<1>2. CASE \E c \in CollPdas : AuthorityMints(c)
  <2>1. PICK c \in CollPdas, payer \in Keys, owner \in Keys, kind \in MintKinds,
             m \in Mints, len \in Lens :
               MintNft(payer, c, owner, kind, m, len)
    BY <1>2 DEF AuthorityMints
  <2>2. PICK s : IssueRecord(c, s)
    BY <2>1 DEF MintNft
  <2> QED
    BY <2>2, IssueStatus DEF Order!Next, Order!Addresses, NftPdas
<1>3. CASE \E c \in CollPdas : SenderMints(c)
  <2>1. PICK c, s : IssueRecord(c, s)
    BY <1>3 DEF SenderMints, AutoMint
  <2> QED
    BY <2>1, IssueStatus DEF Order!Next, Order!Addresses, NftPdas
<1>4. CASE \E a \in DOMAIN nft : BurnNft(a)
  BY <1>4, BurnStatus DEF Order!Next, Order!Addresses, NftPdas
<1>5. CASE \E k, new \in Keys, c \in CollPdas : TransferCollection(k, c, new)
  <2>1. PICK k \in Keys, new \in Keys, c \in CollPdas :
               TransferCollection(k, c, new)
    BY <1>5
  <2>2. /\ DOMAIN coll' = DOMAIN coll
        /\ nft' = nft
        /\ \A d \in DOMAIN coll : coll'[d].minted_count = coll[d].minted_count
    <3>1. /\ c \in DOMAIN coll
          /\ coll' = [coll EXCEPT ![c].authority = new]
          /\ coll[c] \in CollectionState
      BY <2>1 DEF TransferCollection, IInv, TypeOK
    <3>2. coll'[c].minted_count = coll[c].minted_count
      BY <3>1 DEF IInv, TypeOK, CollectionState
    <3> QED
      BY <2>1, <3>1, <3>2 DEF TransferCollection
  <2> QED
    BY <2>2, SameStatus
<1>6. CASE \E a \in DOMAIN nft, new_owner, to \in Keys : Transfer(a, new_owner, to)
  BY <1>6, SameStatus DEF Transfer
<1>7. CASE \/ \E k \in Keys, a \in DOMAIN nft, len \in Lens : UpdateNft(k, a, len)
           \/ \E a \in DOMAIN nft, len \in Lens : UpdateFractions(a, len)
  BY <1>7, SameStatus DEF UpdateNft, UpdateFractions, Rewrite
<1>8. CASE \/ \E a \in DOMAIN nft : ProxyForward(a)
           \/ \E a \in DOMAIN nft : Withdraw(a)
           \/ \E a \in DOMAIN nft : ClaimParentShare(a)
           \/ \E a \in NftPdas : Deposit(a)
           \/ \E m \in DOMAIN token, to \in Keys : WalletTransfer(m, to)
           \/ UNCHANGED vars
  BY <1>8, SameStatus DEF ProxyForward, Withdraw, ClaimParentShare, Deposit,
                          WalletTransfer, vars
<1> QED
  BY <1>1, <1>2, <1>3, <1>4, <1>5, <1>6, <1>7, <1>8 DEF Next, Others

\* The registry implements IssueOrder: it issues a collection's addresses in
\* index order, each one once, and never again after a burn.
THEOREM RegistryIssuesInOrder == Spec => IssuedInOrder
<1>1. IInv /\ [Next]_vars => [Order!Next]_Statuses
  BY OrderStep
<1> QED
  BY <1>1, OrderInit, RegistryInvariant, PTL
     DEF Spec, IssuedInOrder, Order!Spec, Statuses

-----------------------------------------------------------------------------
(* What may become of one record in one step.                              *)

\* Issuing a record leaves those that exist as they are.
LEMMA IssueKeepsRecords ==
  ASSUME IInv, NEW c, NEW s, IssueRecord(c, s), NEW a \in DOMAIN nft
  PROVE  a \in DOMAIN nft' /\ nft'[a] = nft[a]
<1>1. /\ NextPda(c) \notin DOMAIN nft
      /\ nft' = Create(nft, NextPda(c), s)
  BY NextPdaIsNew DEF IssueRecord, IInv
<1> QED
  BY <1>1 DEF Create

\* A record is burned, changes its owner, is written back with another
\* length, or stays as it is.
LEMMA RecordStep ==
  ASSUME IInv, [Next]_vars, NEW a \in DOMAIN nft
  PROVE  \/ a \in DOMAIN nft' /\ nft'[a] = nft[a]
         \/ BurnNft(a)
         \/ \E new_owner, to \in Keys : Transfer(a, new_owner, to)
         \/ \E len \in Lens : Rewrite(a, len)
<1>1. CASE \E c \in CollPdas : AuthorityMints(c)
  <2>1. PICK c, s : IssueRecord(c, s)
    BY <1>1 DEF AuthorityMints, MintNft
  <2> QED
    BY <2>1, IssueKeepsRecords
<1>2. CASE \E c \in CollPdas : SenderMints(c)
  <2>1. PICK c, s : IssueRecord(c, s)
    BY <1>2 DEF SenderMints, AutoMint
  <2> QED
    BY <2>1, IssueKeepsRecords
<1>3. CASE \E b \in DOMAIN nft, new_owner, to \in Keys : Transfer(b, new_owner, to)
  <2>1. PICK b \in DOMAIN nft, new_owner \in Keys, to \in Keys :
               Transfer(b, new_owner, to)
    BY <1>3
  <2>2. CASE b # a
    BY <2>1, <2>2 DEF Transfer, IInv, TypeOK
  <2> QED
    BY <2>1, <2>2
<1>4. CASE \E b \in DOMAIN nft : BurnNft(b)
  <2>1. PICK b \in DOMAIN nft : BurnNft(b)
    BY <1>4
  <2>2. CASE b # a
    BY <2>1, <2>2 DEF BurnNft, Purge, Restrict, IInv, TypeOK
  <2> QED
    BY <2>1, <2>2
<1>5. CASE \/ \E k \in Keys, b \in DOMAIN nft, len \in Lens : UpdateNft(k, b, len)
           \/ \E b \in DOMAIN nft, len \in Lens : UpdateFractions(b, len)
  <2>1. PICK b \in DOMAIN nft, len \in Lens : Rewrite(b, len)
    BY <1>5 DEF UpdateNft, UpdateFractions
  <2>2. CASE b # a
    BY <2>1, <2>2 DEF Rewrite, IInv, TypeOK
  <2> QED
    BY <2>1, <2>2
<1>6. CASE \/ \E k \in Creators, id \in CollectionIds, supply \in 0 .. MaxSupply :
                InitializeCollection(k, id, supply)
           \/ \E k, new \in Keys, c \in CollPdas : TransferCollection(k, c, new)
           \/ \E b \in DOMAIN nft : ProxyForward(b)
           \/ \E b \in DOMAIN nft : Withdraw(b)
           \/ \E b \in DOMAIN nft : ClaimParentShare(b)
           \/ \E b \in NftPdas : Deposit(b)
           \/ \E m \in DOMAIN token, to \in Keys : WalletTransfer(m, to)
           \/ UNCHANGED vars
  BY <1>6 DEF InitializeCollection, TransferCollection, ProxyForward, Withdraw,
              ClaimParentShare, Deposit, WalletTransfer, vars
<1> QED
  BY <1>1, <1>2, <1>3, <1>4, <1>5, <1>6 DEF Next, Others

\* A record written back keeps its owner.
LEMMA RewriteRecord ==
  ASSUME IInv, NEW a \in DOMAIN nft, NEW len \in Lens, Rewrite(a, len)
  PROVE  /\ a \in DOMAIN nft'
         /\ nft'[a].owner = nft[a].owner
<1>1. nft[a] \in NftState /\ nft'[a] = [nft[a] EXCEPT !.len = len]
  BY DEF Rewrite, IInv, TypeOK
<1> QED
  BY <1>1 DEF Rewrite, NftState

-----------------------------------------------------------------------------
(* The action properties.                                                  *)

\* A record of kind SBT keeps its account and its owner for ever.
THEOREM RegistrySbtBound == Spec => SbtBound
<1>1. ASSUME IInv, [Next]_vars, NEW a \in DOMAIN nft, nft[a].kind = "SBT"
      PROVE  a \in DOMAIN nft' /\ nft'[a].owner = nft[a].owner
  <2>1. ~ BurnNft(a) /\ ~ \E new_owner, to \in Keys : Transfer(a, new_owner, to)
    BY <1>1 DEF BurnNft, Transfer
  <2> QED
    BY <1>1, <2>1, RecordStep, RewriteRecord
<1>2. IInv /\ [Next]_vars
        => [\A a \in DOMAIN nft : nft[a].kind = "SBT" =>
              a \in DOMAIN nft' /\ nft'[a].owner = nft[a].owner]_vars
  BY <1>1
<1> QED
  BY <1>2, RegistryInvariant, PTL DEF Spec, SbtBound

\* Once lamports reached the next address too early, the collection issues
\* nothing any more, and the lamports stay where they are.
THEOREM RegistryBlockedForGood == Spec => BlockedForGood
<1>1. ASSUME IInv, [Next]_vars, NEW c \in CollPdas, Blocked(c)
      PROVE  Blocked(c)' /\ coll'[c].minted_count = coll[c].minted_count
  <2> DEFINE n == NextPda(c)
  <2>1. /\ c \in DOMAIN coll
        /\ HasRoom(c)
        /\ n \in deposits
        /\ n \notin DOMAIN nft
        /\ coll[c] \in CollectionState
    BY <1>1, NextPdaIsNew DEF Blocked, IInv, TypeOK
  <2>2. SUFFICES /\ c \in DOMAIN coll'
                 /\ coll'[c].minted_count = coll[c].minted_count
                 /\ coll'[c].total_supply = coll[c].total_supply
                 /\ n \in deposits'
    BY <2>1 DEF Blocked, HasRoom, NextPda
  <2>3. CASE \E k \in Creators, id \in CollectionIds, supply \in 0 .. MaxSupply :
               InitializeCollection(k, id, supply)
    BY <2>1, <2>3 DEF InitializeCollection, Create
  <2>4. ASSUME NEW d, NEW s, IssueRecord(d, s), deposits' = deposits
        PROVE  /\ c \in DOMAIN coll'
               /\ coll'[c] = coll[c]
               /\ n \in deposits'
    <3>1. d # c
      BY <2>1, <2>4 DEF IssueRecord, Vacant
    <3> QED
      BY <2>1, <2>4, <3>1 DEF IssueRecord, IInv, TypeOK
  <2>5. CASE \E d \in CollPdas : AuthorityMints(d)
    <3>1. PICK d, s : IssueRecord(d, s) /\ deposits' = deposits
      BY <2>5 DEF AuthorityMints, MintNft
    <3> QED
      BY <2>4, <3>1
  <2>6. CASE \E d \in CollPdas : SenderMints(d)
    <3>1. PICK d, s : IssueRecord(d, s) /\ deposits' = deposits
      BY <2>6 DEF SenderMints, AutoMint
    <3> QED
      BY <2>4, <3>1
  <2>7. CASE \E k, new \in Keys, d \in CollPdas : TransferCollection(k, d, new)
    <3>1. PICK new \in Keys, d \in DOMAIN coll :
               /\ coll' = [coll EXCEPT ![d].authority = new]
               /\ deposits' = deposits
      BY <2>7 DEF TransferCollection
    <3>2. CASE d # c
      BY <2>1, <3>1, <3>2 DEF IInv, TypeOK
    <3>3. CASE d = c
      <4>1. coll'[c] = [coll[c] EXCEPT !.authority = new]
        BY <2>1, <3>1, <3>3 DEF IInv, TypeOK
      <4> QED
        BY <2>1, <3>1, <4>1 DEF CollectionState, IInv, TypeOK
    <3> QED
      BY <3>2, <3>3
  <2>8. CASE \/ \E a \in DOMAIN nft : BurnNft(a) \/ ProxyForward(a) \/ Withdraw(a)
                                     \/ ClaimParentShare(a)
             \/ \E a \in DOMAIN nft, new_owner, to \in Keys : Transfer(a, new_owner, to)
             \/ \E k \in Keys, a \in DOMAIN nft, len \in Lens : UpdateNft(k, a, len)
             \/ \E a \in DOMAIN nft, len \in Lens : UpdateFractions(a, len)
             \/ \E a \in NftPdas : Deposit(a)
             \/ \E m \in DOMAIN token, to \in Keys : WalletTransfer(m, to)
             \/ UNCHANGED vars
    <3>1. coll' = coll /\ (deposits \ DOMAIN nft) \subseteq deposits'
      BY <2>8 DEF BurnNft, ProxyForward, Withdraw, ClaimParentShare, Transfer,
                  UpdateNft, UpdateFractions, Rewrite, Deposit, WalletTransfer,
                  vars
    <3> QED
      BY <2>1, <3>1
  <2> QED
    BY <1>1, <2>3, <2>5, <2>6, <2>7, <2>8 DEF Next, Others
<1>2. IInv /\ [Next]_vars
        => [\A c \in CollPdas : Blocked(c) =>
              Blocked(c)' /\ coll'[c].minted_count = coll[c].minted_count]_vars
  BY <1>1
<1> QED
  BY <1>2, RegistryInvariant, PTL DEF Spec, BlockedForGood

\* A record whose text was shortened is never written or removed again, and
\* lamports paid to it stay there.
THEOREM RegistryShortenedIsFrozen == Spec => ShortenedIsFrozen
<1>1. ASSUME IInv, [Next]_vars, NEW a \in DOMAIN nft, nft[a].len < nft[a].room
      PROVE  /\ a \in DOMAIN nft' /\ nft'[a] = nft[a]
             /\ a \in deposits => a \in deposits'
  <2>1. ~ Readable(a)
    <3>1. nft[a].len \in Nat /\ nft[a].room \in Nat
      <4>1. nft[a] \in NftState
        BY <1>1 DEF IInv, TypeOK
      <4> QED
        BY <4>1, LensAssumption DEF NftState
    <3> QED
      BY <1>1, <3>1 DEF Readable
  <2>2. a \in DOMAIN nft' /\ nft'[a] = nft[a]
    BY <1>1, <2>1, RecordStep DEF BurnNft, Transfer, Rewrite
  <2>3. \/ UNCHANGED deposits
        \/ \E b \in DOMAIN nft : BurnNft(b) \/ ProxyForward(b) \/ Withdraw(b)
                                \/ ClaimParentShare(b)
        \/ \E b \in NftPdas : Deposit(b)
    BY <1>1 DEF Next, Others, vars, InitializeCollection, AuthorityMints, MintNft,
                SenderMints, AutoMint, Transfer, UpdateNft, UpdateFractions,
                Rewrite, TransferCollection, WalletTransfer
  <2>4. a \in deposits => a \in deposits'
    BY <2>1, <2>3 DEF BurnNft, ProxyForward, Withdraw, ClaimParentShare,
                           Deposit
  <2> QED
    BY <2>2, <2>4
<1>2. IInv /\ [Next]_vars
        => [\A a \in DOMAIN nft : nft[a].len < nft[a].room =>
              /\ a \in DOMAIN nft' /\ nft'[a] = nft[a]
              /\ a \in deposits => a \in deposits']_vars
  BY <1>1
<1> QED
  BY <1>2, RegistryInvariant, PTL DEF Spec, ShortenedIsFrozen
=============================================================================
