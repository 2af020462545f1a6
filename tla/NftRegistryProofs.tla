------------------------- MODULE NftRegistryProofs --------------------------
(***************************************************************************)
(* Theorems about NftRegistry, for every set of keys, kinds and mints and  *)
(* every bound on total_supply.                                            *)
(***************************************************************************)
EXTENDS NftRegistry, TLAPS

-----------------------------------------------------------------------------
(* Issuing a record, the part MintNft and AutoMint share.                  *)

\* The next address is a new one, of the right type.
LEMMA NextPdaIsNew ==
  ASSUME TypeOK, CounterCoversRecords, NEW c \in DOMAIN coll, HasRoom(c)
  PROVE  /\ NextPda(c) \in NftPdas
         /\ NextPda(c) \notin DOMAIN nft
<1>1. coll[c] \in CollectionState
  BY DEF TypeOK
<1>2. coll[c].minted_count \in Indexes
  BY <1>1, SupplyAssumption DEF HasRoom, CollectionState, Indexes
<1>3. NextPda(c) \in NftPdas
  BY <1>2 DEF TypeOK, NextPda, NftPdas
<1>4. ASSUME NextPda(c) \in DOMAIN nft
      PROVE  FALSE
  BY <1>1, <1>2, <1>4 DEF CounterCoversRecords, NextPda, Indexes
<1> QED
  BY <1>3, <1>4

LEMMA IssueRecordInv ==
  ASSUME TypeOK, CounterCoversRecords,
         NEW c, NEW s \in NftState, s.len <= s.room, IssueRecord(c, s)
  PROVE  /\ DOMAIN coll' \subseteq CollPdas
         /\ coll' \in [DOMAIN coll' -> CollectionState]
         /\ DOMAIN nft' \subseteq NftPdas
         /\ nft' \in [DOMAIN nft' -> NftState]
         /\ \A a \in DOMAIN nft' : nft'[a].len <= nft'[a].room
         /\ CounterCoversRecords'
         /\ DOMAIN nft' = DOMAIN nft \cup {NextPda(c)}
         /\ nft'[NextPda(c)] = s
         /\ \A a \in DOMAIN nft : nft'[a] = nft[a]
<1> DEFINE n == NextPda(c)
<1>1. /\ c \in DOMAIN coll
      /\ HasRoom(c)
      /\ n \notin DOMAIN nft
      /\ n \in NftPdas
      /\ nft' = Create(nft, n, s)
      /\ coll' = [coll EXCEPT ![c].minted_count = @ + 1]
  BY NextPdaIsNew DEF IssueRecord, Vacant
<1>2. /\ DOMAIN nft' = DOMAIN nft \cup {n}
      /\ nft' \in [DOMAIN nft' -> NftState]
      /\ nft'[n] = s
      /\ \A a \in DOMAIN nft : nft'[a] = nft[a]
  BY <1>1 DEF Create, TypeOK
<1>3. coll[c] \in CollectionState
  BY <1>1 DEF TypeOK
<1>4. /\ DOMAIN coll' = DOMAIN coll
      /\ coll'[c] = [coll[c] EXCEPT !.minted_count = @ + 1]
      /\ \A d \in DOMAIN coll : d # c => coll'[d] = coll[d]
  BY <1>1 DEF TypeOK
<1>5. /\ coll'[c] \in CollectionState
      /\ coll'[c].minted_count = coll[c].minted_count + 1
      /\ coll'[c].total_supply = coll[c].total_supply
      /\ coll'[c].minted_count <= coll'[c].total_supply
  BY <1>1, <1>3, <1>4, SupplyAssumption DEF HasRoom, CollectionState
<1>6. coll' \in [DOMAIN coll' -> CollectionState]
  BY <1>1, <1>5 DEF TypeOK
<1>7. CounterCoversRecords'
  <2>1. ASSUME NEW d \in DOMAIN coll'
        PROVE  coll'[d].minted_count <= coll'[d].total_supply
    BY <1>4, <1>5 DEF CounterCoversRecords
  <2>2. ASSUME NEW a \in DOMAIN nft'
        PROVE  a[1] \in DOMAIN coll' /\ a[2] < coll'[a[1]].minted_count
    <3>1. CASE a = n
      BY <1>1, <1>3, <1>4, <1>5, <3>1 DEF NextPda, CollectionState
    <3>2. CASE a \in DOMAIN nft
      <4>1. a[1] \in DOMAIN coll /\ a[2] < coll[a[1]].minted_count
        BY <3>2 DEF CounterCoversRecords
      <4>2. a[2] \in Nat
        BY <3>2 DEF TypeOK, NftPdas, Indexes
      <4>3. CASE a[1] = c
        BY <1>3, <1>4, <1>5, <4>1, <4>2, <4>3 DEF CollectionState
      <4>4. CASE a[1] # c
        BY <1>4, <4>1, <4>4
      <4> QED
        BY <4>3, <4>4
    <3> QED
      BY <1>2, <3>1, <3>2
  <2> QED
    BY <2>1, <2>2 DEF CounterCoversRecords
<1>8. \A a \in DOMAIN nft' : nft'[a].len <= nft'[a].room
  BY <1>2 DEF TypeOK
<1> QED
  BY <1>1, <1>2, <1>4, <1>6, <1>7, <1>8 DEF TypeOK

\* The contents of a record a mint writes, whatever its caller asks for.
LEMMA MintedTyped ==
  ASSUME TypeOK, NEW c \in DOMAIN coll, NEW payer \in Keys, NEW owner \in Keys,
         NEW kind \in MintKinds, NEW m \in Mints, NEW len \in Lens
  PROVE  [kind |-> kind, mint |-> m, owner |-> owner,
          fee_recipient |-> FeeRecipientAtMint(payer, c, kind),
          can_fraction |-> (kind = "AddressV4Fraction"),
          len |-> len, room |-> len] \in NftState
<1>1. coll[c].authority \in Keys
  BY DEF TypeOK, CollectionState
<1>2. FeeRecipientAtMint(payer, c, kind) \in Keys
  BY <1>1 DEF FeeRecipientAtMint
<1> QED
  BY <1>2, KindsAssumption DEF NftState

-----------------------------------------------------------------------------
(* Every instruction keeps the invariant.                                  *)

LEMMA InitInv == Init => IInv
BY DEF Init, IInv, TypeOK, CounterCoversRecords, NoAccounts

LEMMA InitializeInv ==
  ASSUME IInv, NEW k \in Creators, NEW id \in CollectionIds,
         NEW supply \in 0 .. MaxSupply, InitializeCollection(k, id, supply)
  PROVE  IInv'
<1> DEFINE s == [authority |-> k, total_supply |-> supply, minted_count |-> 0]
<1>1. s \in CollectionState /\ s.minted_count <= s.total_supply
  BY CreatorsAssumption, SupplyAssumption DEF CollectionState
<1>2. /\ <<k, id>> \notin DOMAIN coll
      /\ coll' = Create(coll, <<k, id>>, s)
      /\ UNCHANGED <<nft, token, deposits>>
  BY DEF InitializeCollection
<1> HIDE DEF s
<1>3. /\ DOMAIN coll' = DOMAIN coll \cup {<<k, id>>}
      /\ coll' \in [DOMAIN coll' -> CollectionState]
      /\ coll'[<<k, id>>] = s
      /\ \A d \in DOMAIN coll : coll'[d] = coll[d]
  BY <1>1, <1>2 DEF Create, IInv, TypeOK
<1>4. TypeOK'
  BY <1>2, <1>3 DEF IInv, TypeOK, CollPdas
<1>5. CounterCoversRecords'
  BY <1>1, <1>2, <1>3 DEF IInv, CounterCoversRecords
<1> QED
  BY <1>4, <1>5 DEF IInv

LEMMA MintNftInv ==
  ASSUME IInv, NEW c \in CollPdas, NEW payer \in Keys, NEW owner \in Keys,
         NEW kind \in MintKinds, NEW m \in Mints, NEW len \in Lens,
         MintNft(payer, c, owner, kind, m, len)
  PROVE  IInv'
<1> DEFINE s == [kind |-> kind, mint |-> m, owner |-> owner,
                 fee_recipient |-> FeeRecipientAtMint(payer, c, kind),
                 can_fraction |-> (kind = "AddressV4Fraction"),
                 len |-> len, room |-> len]
<1>1. /\ IssueRecord(c, s)
      /\ token' = Create(token, m, owner)
      /\ deposits' = deposits
  BY DEF MintNft
<1>2. s \in NftState
  BY <1>1, MintedTyped DEF IInv, IssueRecord
<1>3. s.len <= s.room
  BY LensAssumption
<1> HIDE DEF s
<1>4. /\ DOMAIN coll' \subseteq CollPdas
      /\ coll' \in [DOMAIN coll' -> CollectionState]
      /\ DOMAIN nft' \subseteq NftPdas
      /\ nft' \in [DOMAIN nft' -> NftState]
      /\ \A a \in DOMAIN nft' : nft'[a].len <= nft'[a].room
      /\ CounterCoversRecords'
  BY <1>1, <1>2, <1>3, IssueRecordInv DEF IInv
<1>5. /\ DOMAIN token' = DOMAIN token \cup {m}
      /\ token' \in [DOMAIN token' -> Keys \cup {NoHolder}]
  BY <1>1 DEF Create, IInv, TypeOK
<1>6. TypeOK'
  BY <1>1, <1>4, <1>5 DEF IInv, TypeOK
<1> QED
  BY <1>4, <1>6 DEF IInv

LEMMA AutoMintInv ==
  ASSUME IInv, NEW c \in CollPdas, NEW sender \in Keys,
         NEW kind \in MintKinds, NEW m \in Mints, NEW len \in Lens,
         AutoMint(sender, c, kind, m, len)
  PROVE  IInv'
<1> DEFINE s == [kind |-> kind, mint |-> m, owner |-> sender,
                 fee_recipient |-> sender, can_fraction |-> FALSE,
                 len |-> len, room |-> len]
<1>1. /\ IssueRecord(c, s)
      /\ UNCHANGED <<token, deposits>>
  BY DEF AutoMint
<1>2. s \in NftState
  BY KindsAssumption DEF NftState
<1>3. s.len <= s.room
  BY LensAssumption
<1> HIDE DEF s
<1>4. /\ DOMAIN coll' \subseteq CollPdas
      /\ coll' \in [DOMAIN coll' -> CollectionState]
      /\ DOMAIN nft' \subseteq NftPdas
      /\ nft' \in [DOMAIN nft' -> NftState]
      /\ \A a \in DOMAIN nft' : nft'[a].len <= nft'[a].room
      /\ CounterCoversRecords'
  BY <1>1, <1>2, <1>3, IssueRecordInv DEF IInv
<1>5. TypeOK'
  BY <1>1, <1>4 DEF IInv, TypeOK
<1> QED
  BY <1>4, <1>5 DEF IInv

\* Whatever token is spent, the mints stay, and so do the tokens of others.
LEMMA TokenAfterSpend ==
  ASSUME TypeOK, NEW a \in DOMAIN nft, NEW to \in Keys \cup {NoHolder},
         Spend(a, to)
  PROVE  /\ DOMAIN token' = DOMAIN token
         /\ token' \in [DOMAIN token' -> Keys \cup {NoHolder}]
         /\ OwnAccounts =>
              /\ nft[a].mint \in DOMAIN token
              /\ token'[nft[a].mint] = to
              /\ \A x \in DOMAIN token \ {nft[a].mint} : token'[x] = token[x]
<1>1. CASE ~ OwnAccounts /\ UNCHANGED token
  BY <1>1 DEF TypeOK
<1>2. CASE \E m \in DOMAIN token :
             /\ OwnAccounts => m = nft[a].mint
             /\ token[m] = nft[a].owner
             /\ token' = [token EXCEPT ![m] = to]
  <2>1. PICK m \in DOMAIN token :
               /\ OwnAccounts => m = nft[a].mint
               /\ token' = [token EXCEPT ![m] = to]
    BY <1>2
  <2> QED
    BY <2>1 DEF TypeOK
<1> QED
  BY <1>1, <1>2 DEF Spend

LEMMA TransferInv ==
  ASSUME IInv, NEW a \in DOMAIN nft, NEW new_owner \in Keys, NEW to \in Keys,
         Transfer(a, new_owner, to)
  PROVE  IInv'
<1>1. /\ Spend(a, to)
      /\ nft' = [nft EXCEPT ![a].owner = new_owner]
      /\ UNCHANGED <<coll, deposits>>
  BY DEF Transfer
<1>2. /\ nft[a] \in NftState
      /\ DOMAIN nft' = DOMAIN nft
      /\ nft'[a] = [nft[a] EXCEPT !.owner = new_owner]
      /\ \A b \in DOMAIN nft \ {a} : nft'[b] = nft[b]
  BY <1>1 DEF IInv, TypeOK
<1>3. /\ nft'[a] \in NftState
      /\ nft'[a].len = nft[a].len
      /\ nft'[a].room = nft[a].room
  BY <1>2 DEF NftState
<1>4. nft' \in [DOMAIN nft' -> NftState]
  BY <1>1, <1>2, <1>3 DEF IInv, TypeOK
<1>5. /\ DOMAIN token' = DOMAIN token
      /\ token' \in [DOMAIN token' -> Keys \cup {NoHolder}]
  BY <1>1, TokenAfterSpend DEF IInv
<1>6. \A b \in DOMAIN nft' : nft'[b].len <= nft'[b].room
  BY <1>2, <1>3 DEF IInv, TypeOK
<1>7. TypeOK'
  BY <1>1, <1>2, <1>4, <1>5, <1>6 DEF IInv, TypeOK
<1>8. CounterCoversRecords'
  BY <1>1, <1>2 DEF IInv, CounterCoversRecords
<1> QED
  BY <1>7, <1>8 DEF IInv

LEMMA BurnNftInv ==
  ASSUME IInv, NEW a \in DOMAIN nft, BurnNft(a)
  PROVE  IInv'
<1>1. /\ Spend(a, NoHolder)
      /\ nft' = Purge(nft, a)
      /\ deposits' = deposits \ {a}
      /\ coll' = coll
  BY DEF BurnNft
<1>2. /\ DOMAIN nft' = DOMAIN nft \ {a}
      /\ nft' \in [DOMAIN nft' -> NftState]
      /\ \A b \in DOMAIN nft \ {a} : nft'[b] = nft[b]
  BY <1>1 DEF Purge, Restrict, IInv, TypeOK
<1>3. /\ DOMAIN token' = DOMAIN token
      /\ token' \in [DOMAIN token' -> Keys \cup {NoHolder}]
  BY <1>1, TokenAfterSpend DEF IInv
<1>4. TypeOK'
  BY <1>1, <1>2, <1>3 DEF IInv, TypeOK
<1>5. CounterCoversRecords'
  BY <1>1, <1>2 DEF IInv, CounterCoversRecords
<1> QED
  BY <1>4, <1>5 DEF IInv

\* UpdateNft and UpdateFractions.
LEMMA RewriteInv ==
  ASSUME IInv, NEW a \in DOMAIN nft, NEW len \in Lens, Rewrite(a, len)
  PROVE  IInv'
<1>1. /\ nft' = [nft EXCEPT ![a].len = len]
      /\ UNCHANGED <<coll, token, deposits>>
      /\ len <= nft[a].room
  BY DEF Rewrite, Fits
<1>2. /\ nft[a] \in NftState
      /\ DOMAIN nft' = DOMAIN nft
      /\ nft'[a] = [nft[a] EXCEPT !.len = len]
      /\ \A b \in DOMAIN nft \ {a} : nft'[b] = nft[b]
  BY <1>1 DEF IInv, TypeOK
<1>3. /\ nft'[a] \in NftState
      /\ nft'[a].mint = nft[a].mint
      /\ nft'[a].len = len
      /\ nft'[a].room = nft[a].room
  BY <1>2 DEF NftState
<1>4. nft' \in [DOMAIN nft' -> NftState]
  BY <1>1, <1>2, <1>3 DEF IInv, TypeOK
<1>5. \A b \in DOMAIN nft' : nft'[b].len <= nft'[b].room
  BY <1>1, <1>2, <1>3 DEF IInv, TypeOK
<1>6. TypeOK'
  BY <1>1, <1>2, <1>4, <1>5 DEF IInv, TypeOK
<1> QED
  BY <1>1, <1>2, <1>6 DEF IInv, CounterCoversRecords

LEMMA TransferCollectionInv ==
  ASSUME IInv, NEW k \in Keys, NEW c \in CollPdas, NEW new \in Keys,
         TransferCollection(k, c, new)
  PROVE  IInv'
<1>1. /\ c \in DOMAIN coll
      /\ coll' = [coll EXCEPT ![c].authority = new]
      /\ UNCHANGED <<nft, token, deposits>>
  BY DEF TransferCollection
<1>2. /\ coll[c] \in CollectionState
      /\ DOMAIN coll' = DOMAIN coll
      /\ coll'[c] = [coll[c] EXCEPT !.authority = new]
      /\ \A d \in DOMAIN coll \ {c} : coll'[d] = coll[d]
  BY <1>1 DEF IInv, TypeOK
<1>3. /\ coll'[c] \in CollectionState
      /\ coll'[c].minted_count = coll[c].minted_count
      /\ coll'[c].total_supply = coll[c].total_supply
  BY <1>2 DEF CollectionState
<1>4. coll' \in [DOMAIN coll' -> CollectionState]
  BY <1>1, <1>2, <1>3 DEF IInv, TypeOK
<1>5. TypeOK'
  BY <1>1, <1>2, <1>4 DEF IInv, TypeOK
<1>6. CounterCoversRecords'
  BY <1>1, <1>2, <1>3 DEF IInv, CounterCoversRecords
<1> QED
  BY <1>5, <1>6 DEF IInv

\* Lamports at NFT addresses come and go; nothing else changes.
LEMMA DepositsInv ==
  ASSUME IInv, deposits' \subseteq NftPdas, UNCHANGED <<coll, nft, token>>
  PROVE  IInv'
BY DEF IInv, TypeOK, CounterCoversRecords

LEMMA WalletTransferInv ==
  ASSUME IInv, NEW m \in DOMAIN token, NEW to \in Keys, WalletTransfer(m, to)
  PROVE  IInv'
<1>1. /\ token[m] # NoHolder
      /\ token' = [token EXCEPT ![m] = to]
      /\ UNCHANGED <<coll, nft, deposits>>
  BY DEF WalletTransfer
<1>2. /\ DOMAIN token' = DOMAIN token
      /\ token' \in [DOMAIN token' -> Keys \cup {NoHolder}]
  BY <1>1 DEF IInv, TypeOK
<1>3. TypeOK'
  BY <1>1, <1>2 DEF IInv, TypeOK
<1> QED
  BY <1>1, <1>3 DEF IInv, CounterCoversRecords

LEMMA StepInv ==
  ASSUME IInv, [Next]_vars
  PROVE  IInv'
<1>1. CASE \E k \in Creators, id \in CollectionIds, supply \in 0 .. MaxSupply :
             InitializeCollection(k, id, supply)
  BY <1>1, InitializeInv
<1>2. CASE \E c \in CollPdas : AuthorityMints(c)
  BY <1>2, MintNftInv DEF AuthorityMints
<1>3. CASE \E c \in CollPdas : SenderMints(c)
  BY <1>3, AutoMintInv DEF SenderMints
<1>4. CASE \E a \in DOMAIN nft, new_owner, to \in Keys : Transfer(a, new_owner, to)
  BY <1>4, TransferInv
<1>5. CASE \E a \in DOMAIN nft : BurnNft(a)
  BY <1>5, BurnNftInv
<1>6. CASE \E k \in Keys, a \in DOMAIN nft, len \in Lens : UpdateNft(k, a, len)
  BY <1>6, RewriteInv DEF UpdateNft
<1>7. CASE \E k, new \in Keys, c \in CollPdas : TransferCollection(k, c, new)
  BY <1>7, TransferCollectionInv
<1>8. CASE \E a \in DOMAIN nft : ProxyForward(a)
  <2>1. deposits' \subseteq NftPdas /\ UNCHANGED <<coll, nft, token>>
    BY <1>8 DEF ProxyForward, IInv, TypeOK
  <2> QED
    BY <2>1, DepositsInv
<1>9. CASE \E a \in DOMAIN nft : Withdraw(a)
  <2>1. deposits' \subseteq NftPdas /\ UNCHANGED <<coll, nft, token>>
    BY <1>9 DEF Withdraw, IInv, TypeOK
  <2> QED
    BY <2>1, DepositsInv
<1>10. CASE \E a \in NftPdas : Deposit(a)
  <2>1. deposits' \subseteq NftPdas /\ UNCHANGED <<coll, nft, token>>
    BY <1>10 DEF Deposit, IInv, TypeOK
  <2> QED
    BY <2>1, DepositsInv
<1>11. CASE \E m \in DOMAIN token, to \in Keys : WalletTransfer(m, to)
  BY <1>11, WalletTransferInv
<1>12. CASE \E a \in DOMAIN nft, len \in Lens : UpdateFractions(a, len)
  BY <1>12, RewriteInv DEF UpdateFractions
<1>13. CASE \E a \in DOMAIN nft : ClaimParentShare(a)
  <2>1. deposits' \subseteq NftPdas /\ UNCHANGED <<coll, nft, token>>
    BY <1>13 DEF ClaimParentShare, IInv, TypeOK
  <2> QED
    BY <2>1, DepositsInv
<1>14. CASE UNCHANGED vars
  BY <1>14 DEF vars, IInv, TypeOK, CounterCoversRecords
<1> QED
  BY <1>1, <1>2, <1>3, <1>4, <1>5, <1>6, <1>7, <1>8, <1>9, <1>10, <1>11, <1>12,
     <1>13, <1>14
     DEF Next, Others

\* In every reachable state of the registry the accounts are well typed, the
\* counter covers the records and stays below total_supply, whatever accounts
\* the callers give.
THEOREM RegistryInvariant == Spec => []IInv
BY InitInv, StepInv, PTL DEF Spec

-----------------------------------------------------------------------------
(* Records and tokens, where callers give the accounts that belong         *)
(* together.                                                               *)

Matched == MintsDistinct /\ TokensMatchRecords

LEMMA InitMatched == Init => Matched
BY DEF Init, Matched, MintsDistinct, TokensMatchRecords, NoAccounts

\* Records that keep their mints, and tokens that stay in wallets.
LEMMA KeptMatched ==
  ASSUME Matched, DOMAIN nft' = DOMAIN nft, DOMAIN token' = DOMAIN token,
         \A b \in DOMAIN nft : nft'[b].mint = nft[b].mint,
         \A m \in DOMAIN token : (token'[m] = NoHolder) <=> (token[m] = NoHolder)
  PROVE  Matched'
<1>1. MintsDistinct'
  BY DEF Matched, MintsDistinct
<1>2. TokensMatchRecords'
  BY DEF Matched, TokensMatchRecords
<1> QED
  BY <1>1, <1>2 DEF Matched

\* A new record with a fresh mint, with the token or without.
LEMMA IssueMatched ==
  ASSUME IInv, Matched, NEW c, NEW s, IssueRecord(c, s), Fresh(s.mint),
         NEW owner \in Keys,
         token' = token \/ token' = Create(token, s.mint, owner)
  PROVE  Matched'
<1> DEFINE n == NextPda(c)
<1>1. /\ n \notin DOMAIN nft
      /\ nft' = Create(nft, n, s)
  BY NextPdaIsNew DEF IssueRecord, IInv
<1>2. /\ DOMAIN nft' = DOMAIN nft \cup {n}
      /\ nft'[n] = s
      /\ \A a \in DOMAIN nft : nft'[a] = nft[a]
  BY <1>1 DEF Create
<1> HIDE DEF n
<1>3. MintsDistinct'
  BY <1>1, <1>2 DEF Matched, MintsDistinct, Fresh
<1>4. /\ DOMAIN token' \in {DOMAIN token, DOMAIN token \cup {s.mint}}
      /\ s.mint \in DOMAIN token' => token'[s.mint] = owner
      /\ \A x \in DOMAIN token : token'[x] = token[x]
  BY DEF Create, Fresh
<1>5. TokensMatchRecords'
  <2>1. ASSUME NEW x \in DOMAIN token', token'[x] # NoHolder
        PROVE  \E a \in DOMAIN nft' : nft'[a].mint = x
    BY <1>2, <1>4, <2>1 DEF Matched, TokensMatchRecords
  <2>2. ASSUME NEW a \in DOMAIN nft', nft'[a].mint \in DOMAIN token'
        PROVE  token'[nft'[a].mint] # NoHolder
    <3>1. CASE a = n
      BY <1>2, <1>4, <2>2, <3>1, NoHolderAssumption
    <3>2. CASE a \in DOMAIN nft
      BY <1>2, <1>4, <2>2, <3>2 DEF Matched, TokensMatchRecords, Fresh
    <3> QED
      BY <1>2, <3>1, <3>2
  <2> QED
    BY <2>1, <2>2 DEF TokensMatchRecords
<1> QED
  BY <1>3, <1>5 DEF Matched

LEMMA MintMatched ==
  ASSUME OwnAccounts, IInv, Matched, NEW c \in CollPdas, AuthorityMints(c)
  PROVE  Matched'
<1>1. PICK payer \in Keys, owner \in Keys, kind \in MintKinds, m \in Mints,
           len \in Lens : MintNft(payer, c, owner, kind, m, len)
  BY DEF AuthorityMints
<1> DEFINE s == [kind |-> kind, mint |-> m, owner |-> owner,
                 fee_recipient |-> FeeRecipientAtMint(payer, c, kind),
                 can_fraction |-> (kind = "AddressV4Fraction"),
                 len |-> len, room |-> len]
<1>2. /\ IssueRecord(c, s)
      /\ s.mint = m
      /\ Fresh(m)
      /\ token' = Create(token, m, owner)
  BY <1>1 DEF MintNft, MayName
<1> HIDE DEF s
<1> QED
  BY <1>2, IssueMatched

LEMMA AutoMintMatched ==
  ASSUME OwnAccounts, IInv, Matched, NEW c \in CollPdas, SenderMints(c)
  PROVE  Matched'
<1>1. PICK sender \in Keys, kind \in MintKinds, m \in Mints, len \in Lens :
             AutoMint(sender, c, kind, m, len)
  BY DEF SenderMints
<1> DEFINE s == [kind |-> kind, mint |-> m, owner |-> sender,
                 fee_recipient |-> sender, can_fraction |-> FALSE,
                 len |-> len, room |-> len]
<1>2. /\ IssueRecord(c, s)
      /\ s.mint = m
      /\ Fresh(m)
      /\ token' = token
  BY <1>1 DEF AutoMint, MayName
<1> HIDE DEF s
<1> QED
  BY <1>2, IssueMatched

LEMMA TransferMatched ==
  ASSUME OwnAccounts, IInv, Matched, NEW a \in DOMAIN nft,
         NEW new_owner \in Keys, NEW to \in Keys, Transfer(a, new_owner, to)
  PROVE  Matched'
<1>1. /\ Spend(a, to)
      /\ nft' = [nft EXCEPT ![a].owner = new_owner]
      /\ nft[a] \in NftState
  BY DEF Transfer, IInv, TypeOK
<1>2. /\ DOMAIN nft' = DOMAIN nft
      /\ \A b \in DOMAIN nft : nft'[b].mint = nft[b].mint
  BY <1>1 DEF NftState, IInv, TypeOK
<1>3. /\ DOMAIN token' = DOMAIN token
      /\ nft[a].mint \in DOMAIN token
      /\ token'[nft[a].mint] = to
      /\ \A x \in DOMAIN token \ {nft[a].mint} : token'[x] = token[x]
  BY <1>1, TokenAfterSpend DEF IInv
<1>4. token[nft[a].mint] # NoHolder /\ token'[nft[a].mint] # NoHolder
  BY <1>3, NoHolderAssumption DEF Matched, TokensMatchRecords
<1>5. \A m \in DOMAIN token : (token'[m] = NoHolder) <=> (token[m] = NoHolder)
  BY <1>3, <1>4
<1> QED
  BY <1>2, <1>3, <1>5, KeptMatched

\* A burn takes the record and its token, and no other record names the mint.
LEMMA BurnMatched ==
  ASSUME OwnAccounts, IInv, Matched, NEW a \in DOMAIN nft, BurnNft(a)
  PROVE  Matched'
<1> DEFINE m == nft[a].mint
<1>1. Spend(a, NoHolder) /\ nft' = Purge(nft, a)
  BY DEF BurnNft
<1>2. /\ DOMAIN nft' = DOMAIN nft \ {a}
      /\ \A b \in DOMAIN nft \ {a} : nft'[b] = nft[b]
  BY <1>1 DEF Purge, Restrict
<1>3. /\ DOMAIN token' = DOMAIN token
      /\ token'[m] = NoHolder
      /\ \A x \in DOMAIN token \ {m} : token'[x] = token[x]
  BY <1>1, TokenAfterSpend DEF IInv
<1>4. \A b \in DOMAIN nft' : nft'[b].mint # m
  BY <1>2 DEF Matched, MintsDistinct
<1>5. \A x \in DOMAIN token \ {m} :
        (\E b \in DOMAIN nft : nft[b].mint = x)
          => (\E b \in DOMAIN nft' : nft'[b].mint = x)
  BY <1>2
<1> HIDE DEF m
<1>6. MintsDistinct'
  BY <1>2 DEF Matched, MintsDistinct
<1>7. TokensMatchRecords'
  BY <1>2, <1>3, <1>4, <1>5 DEF Matched, TokensMatchRecords
<1> QED
  BY <1>6, <1>7 DEF Matched

LEMMA StepMatched ==
  ASSUME OwnAccounts, IInv, Matched, [Next]_vars
  PROVE  Matched'
<1>1. CASE \E c \in CollPdas : AuthorityMints(c)
  BY <1>1, MintMatched
<1>2. CASE \E c \in CollPdas : SenderMints(c)
  BY <1>2, AutoMintMatched
<1>3. CASE \E a \in DOMAIN nft, new_owner, to \in Keys : Transfer(a, new_owner, to)
  BY <1>3, TransferMatched
<1>4. CASE \E a \in DOMAIN nft : BurnNft(a)
  BY <1>4, BurnMatched
<1>5. CASE \/ \E k \in Keys, a \in DOMAIN nft, len \in Lens : UpdateNft(k, a, len)
           \/ \E a \in DOMAIN nft, len \in Lens : UpdateFractions(a, len)
  <2>1. PICK a \in DOMAIN nft, len \in Lens : Rewrite(a, len)
    BY <1>5 DEF UpdateNft, UpdateFractions
  <2>2. /\ DOMAIN nft' = DOMAIN nft
        /\ \A b \in DOMAIN nft : nft'[b].mint = nft[b].mint
    BY <2>1 DEF Rewrite, NftState, IInv, TypeOK
  <2> QED
    BY <2>1, <2>2, KeptMatched DEF Rewrite
<1>6. CASE \E m \in DOMAIN token, to \in Keys : WalletTransfer(m, to)
  <2>1. PICK m \in DOMAIN token, to \in Keys : WalletTransfer(m, to)
    BY <1>6
  <2>2. /\ nft' = nft
        /\ DOMAIN token' = DOMAIN token
        /\ token[m] # NoHolder /\ token'[m] # NoHolder
        /\ \A x \in DOMAIN token \ {m} : token'[x] = token[x]
    BY <2>1, NoHolderAssumption DEF WalletTransfer, IInv, TypeOK
  <2>3. \A x \in DOMAIN token : (token'[x] = NoHolder) <=> (token[x] = NoHolder)
    BY <2>2
  <2> QED
    BY <2>2, <2>3, KeptMatched
<1>7. CASE UNCHANGED <<nft, token>>
  BY <1>7, KeptMatched
<1> QED
  BY <1>1, <1>2, <1>3, <1>4, <1>5, <1>6, <1>7
     DEF Next, Others, vars, InitializeCollection, TransferCollection,
         ProxyForward, Withdraw, ClaimParentShare, Deposit

\* Where callers send the accounts that belong together, records have
\* distinct mints, every token in a wallet has its record, and the token of a
\* record was not burned.
THEOREM RegistryRecordsMatchTokens == Spec => []RecordsMatchTokens
<1> DEFINE Match == OwnAccounts => Matched
<1>1. Init => Match
  BY InitMatched
<1>2. IInv /\ Match /\ [Next]_vars => Match'
  BY StepMatched
<1>3. Match => RecordsMatchTokens
  BY DEF Matched, RecordsMatchTokens
<1> QED
  BY <1>1, <1>2, <1>3, RegistryInvariant, PTL DEF Spec
=============================================================================
