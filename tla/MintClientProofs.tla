-------------------------- MODULE MintClientProofs --------------------------
(***************************************************************************)
(* Theorems about MintClient, for any number of scripts, requests in       *)
(* flight, keypairs and NFTs: the eight steps of a mint with their         *)
(* failures make one step of the registry, a request that was given up     *)
(* does not land in a later job, and a job that nobody gave up gets one    *)
(* NFT.                                                                    *)
(***************************************************************************)
EXTENDS MintClient, TLAPS

-----------------------------------------------------------------------------
(* The ledger.                                                             *)

\* The registry's vocabulary is the scripts'.
LEMMA SameWords ==
  /\ Registry!NftKind = NftKind
  /\ \A f, x, v : Registry!Create(f, x, v) = Create(f, x, v)
BY DEF Registry!NftKind, NftKind, Registry!Create, Create

\* Account tables.
LEMMA CreateTyped ==
  ASSUME NEW S, NEW f, f \in [DOMAIN f -> S], NEW x, NEW v \in S
  PROVE  Create(f, x, v) \in [DOMAIN f \cup {x} -> S]
BY DEF Create

LEMMA CreateAgain ==
  ASSUME NEW f, NEW x, NEW v, NEW w
  PROVE  [Create(f, x, v) EXCEPT ![x] = w] = Create(f, x, w)
BY DEF Create

\* A record is issued at the next address.
LEMMA IssueTyped ==
  ASSUME Registry!TypeOK, NEW c, NEW s \in Registry!NftState, s.len <= s.room,
         Registry!IssueRecord(c, s)
  PROVE  /\ DOMAIN coll' = DOMAIN coll
         /\ coll' \in [DOMAIN coll -> Registry!CollectionState]
         /\ coll'[c].minted_count = coll[c].minted_count + 1
         /\ \A d \in DOMAIN coll : d # c => coll'[d] = coll[d]
         /\ DOMAIN nft' = DOMAIN nft \cup {Registry!NextPda(c)}
         /\ DOMAIN nft' \subseteq Registry!NftPdas
         /\ nft' \in [DOMAIN nft' -> Registry!NftState]
         /\ nft'[Registry!NextPda(c)] = s
         /\ \A a \in DOMAIN nft : nft'[a] = nft[a]
         /\ \A a \in DOMAIN nft' : nft'[a].len <= nft'[a].room
<1> DEFINE n == Registry!NextPda(c)
<1>1. /\ c \in DOMAIN coll
      /\ coll[c].minted_count < coll[c].total_supply
      /\ n \notin DOMAIN nft
      /\ nft' = Create(nft, n, s)
      /\ coll' = [coll EXCEPT ![c].minted_count = @ + 1]
  BY SameWords DEF Registry!IssueRecord, Registry!Vacant, Registry!HasRoom
<1>2. /\ DOMAIN coll \subseteq Registry!CollPdas
      /\ coll \in [DOMAIN coll -> Registry!CollectionState]
      /\ DOMAIN nft \subseteq Registry!NftPdas
      /\ nft \in [DOMAIN nft -> Registry!NftState]
      /\ \A a \in DOMAIN nft : nft[a].len <= nft[a].room
  BY DEF Registry!TypeOK
<1>3. coll[c] \in Registry!CollectionState
  BY <1>1, <1>2
<1>4. /\ coll[c].minted_count \in 0 .. MaxSupply
      /\ coll[c].total_supply \in 0 .. MaxSupply
  BY <1>3 DEF Registry!CollectionState
<1>5. n \in Registry!NftPdas
  BY <1>1, <1>2, <1>4, ClientAssumption
     DEF Registry!NextPda, Registry!NftPdas, Registry!Indexes
<1>6. /\ DOMAIN nft' = DOMAIN nft \cup {n}
      /\ nft' \in [DOMAIN nft' -> Registry!NftState]
      /\ nft'[n] = s
      /\ \A a \in DOMAIN nft : nft'[a] = nft[a]
  BY <1>1, <1>2 DEF Create
<1>7. /\ DOMAIN coll' = DOMAIN coll
      /\ coll'[c] = [coll[c] EXCEPT !.minted_count = @ + 1]
      /\ \A d \in DOMAIN coll : d # c => coll'[d] = coll[d]
  BY <1>1, <1>2
<1>8. /\ coll'[c] \in Registry!CollectionState
      /\ coll'[c].minted_count = coll[c].minted_count + 1
  BY <1>1, <1>3, <1>4, <1>7, ClientAssumption DEF Registry!CollectionState
<1>9. coll' \in [DOMAIN coll -> Registry!CollectionState]
  BY <1>1, <1>2, <1>8
<1>10. \A a \in DOMAIN nft' : nft'[a].len <= nft'[a].room
  BY <1>2, <1>6
<1> QED
  BY <1>2, <1>5, <1>6, <1>7, <1>8, <1>9, <1>10

LEMMA AutoMintTyped ==
  ASSUME Registry!TypeOK, NEW sender \in Keys, NEW c,
         NEW kind \in MintKinds, NEW m \in Mints, NEW len \in Lens,
         Registry!AutoMint(sender, c, kind, m, len)
  PROVE  /\ Registry!TypeOK'
         /\ DOMAIN coll' = DOMAIN coll
         /\ \A d \in DOMAIN coll : coll'[d].minted_count >= coll[d].minted_count
         /\ token' = token
<1> DEFINE s == [kind |-> kind, mint |-> m, owner |-> sender,
                 fee_recipient |-> sender, can_fraction |-> FALSE,
                 len |-> len, room |-> len]
<1>1. /\ Registry!IssueRecord(c, s)
      /\ UNCHANGED <<token, deposits>>
  BY DEF Registry!AutoMint
<1>2. s \in Registry!NftState /\ s.len <= s.room
  BY ClientAssumption, SameWords DEF Registry!NftState
<1> HIDE DEF s
<1>3. /\ DOMAIN coll' = DOMAIN coll
      /\ coll' \in [DOMAIN coll -> Registry!CollectionState]
      /\ coll'[c].minted_count = coll[c].minted_count + 1
      /\ \A d \in DOMAIN coll : d # c => coll'[d] = coll[d]
      /\ DOMAIN nft' \subseteq Registry!NftPdas
      /\ nft' \in [DOMAIN nft' -> Registry!NftState]
      /\ \A b \in DOMAIN nft' : nft'[b].len <= nft'[b].room
  BY <1>1, <1>2, IssueTyped
<1>4. Registry!TypeOK'
  BY <1>1, <1>3 DEF Registry!TypeOK
<1>5. ASSUME NEW d \in DOMAIN coll
      PROVE  coll'[d].minted_count >= coll[d].minted_count
  <2>1. coll[d] \in Registry!CollectionState
    BY DEF Registry!TypeOK
  <2>2. coll[d].minted_count \in Nat
    BY <2>1, ClientAssumption DEF Registry!CollectionState
  <2> QED
    BY <1>3, <2>2
<1> QED
  BY <1>1, <1>3, <1>4, <1>5

LEMMA InitializeTyped ==
  ASSUME Registry!TypeOK, NEW k \in Creators, NEW id \in CollectionIds,
         NEW supply \in 0 .. MaxSupply,
         Registry!InitializeCollection(k, id, supply)
  PROVE  /\ Registry!TypeOK'
         /\ DOMAIN coll \subseteq DOMAIN coll'
         /\ \A c \in DOMAIN coll : coll'[c] = coll[c]
         /\ nft' = nft /\ token' = token
<1> DEFINE s == [authority |-> k, total_supply |-> supply, minted_count |-> 0]
           p == <<k, id>>
<1>1. s \in Registry!CollectionState
  BY ClientAssumption DEF Registry!CollectionState
<1>2. /\ p \notin DOMAIN coll
      /\ coll' = Create(coll, p, s)
      /\ UNCHANGED <<nft, token, deposits>>
      /\ p \in Registry!CollPdas
  BY SameWords DEF Registry!InitializeCollection, Registry!CollPdas
<1> HIDE DEF s, p
<1>3. /\ DOMAIN coll' = DOMAIN coll \cup {p}
      /\ \A c \in DOMAIN coll : coll'[c] = coll[c]
  BY <1>2 DEF Create
<1>4. coll \in [DOMAIN coll -> Registry!CollectionState]
  BY DEF Registry!TypeOK
<1>5. coll' \in [DOMAIN coll' -> Registry!CollectionState]
  BY <1>1, <1>2, <1>3, <1>4, CreateTyped
<1>6. Registry!TypeOK'
  BY <1>2, <1>3, <1>5 DEF Registry!TypeOK
<1> QED
  BY <1>2, <1>3, <1>6

LEMMA TransferCollectionTyped ==
  ASSUME Registry!TypeOK, NEW k \in Keys, NEW c, NEW new \in Keys,
         Registry!TransferCollection(k, c, new)
  PROVE  /\ Registry!TypeOK'
         /\ DOMAIN coll' = DOMAIN coll
         /\ \A d \in DOMAIN coll : coll'[d].minted_count = coll[d].minted_count
         /\ nft' = nft /\ token' = token
<1>1. /\ c \in DOMAIN coll
      /\ coll' = [coll EXCEPT ![c].authority = new]
      /\ UNCHANGED <<nft, token, deposits>>
  BY DEF Registry!TransferCollection
<1>2. /\ coll \in [DOMAIN coll -> Registry!CollectionState]
      /\ coll[c] \in Registry!CollectionState
      /\ DOMAIN coll' = DOMAIN coll
      /\ coll'[c] = [coll[c] EXCEPT !.authority = new]
      /\ \A d \in DOMAIN coll \ {c} : coll'[d] = coll[d]
  BY <1>1 DEF Registry!TypeOK
<1>3. /\ coll'[c] \in Registry!CollectionState
      /\ coll'[c].minted_count = coll[c].minted_count
  BY <1>2 DEF Registry!CollectionState
<1>4. coll' \in [DOMAIN coll' -> Registry!CollectionState]
  BY <1>1, <1>2, <1>3
<1>5. Registry!TypeOK'
  BY <1>1, <1>2, <1>4 DEF Registry!TypeOK
<1>6. ASSUME NEW d \in DOMAIN coll
      PROVE  coll'[d].minted_count = coll[d].minted_count
  BY <1>2, <1>3
<1> QED
  BY <1>1, <1>2, <1>5, <1>6

\* Whatever token is spent, the SPL mints stay.
LEMMA SpendTyped ==
  ASSUME Registry!TypeOK, NEW a, NEW to \in Keys \cup {NoHolder},
         Registry!Spend(a, to)
  PROVE  /\ DOMAIN token' = DOMAIN token
         /\ token' \in [DOMAIN token -> Keys \cup {NoHolder}]
<1>1. token \in [DOMAIN token -> Keys \cup {NoHolder}]
  BY DEF Registry!TypeOK
<1>2. CASE UNCHANGED token
  BY <1>1, <1>2
<1>3. CASE \E m \in DOMAIN token : token' = [token EXCEPT ![m] = to]
  <2>1. PICK m \in DOMAIN token : token' = [token EXCEPT ![m] = to]
    BY <1>3
  <2> QED
    BY <1>1, <2>1
<1> QED
  BY <1>2, <1>3 DEF Registry!Spend

LEMMA BurnTyped ==
  ASSUME Registry!TypeOK, NEW a \in DOMAIN nft, Registry!BurnNft(a)
  PROVE  /\ Registry!TypeOK'
         /\ coll' = coll
         /\ DOMAIN token' = DOMAIN token
<1>1. /\ Registry!Spend(a, NoHolder)
      /\ nft' = Registry!Purge(nft, a)
      /\ deposits' = deposits \ {a}
      /\ coll' = coll
  BY DEF Registry!BurnNft
<1>2. /\ nft \in [DOMAIN nft -> Registry!NftState]
      /\ deposits \subseteq Registry!NftPdas
  BY DEF Registry!TypeOK
<1>3. /\ DOMAIN nft' = DOMAIN nft \ {a}
      /\ nft' \in [DOMAIN nft' -> Registry!NftState]
      /\ \A b \in DOMAIN nft' : nft'[b] = nft[b]
  BY <1>1, <1>2 DEF Registry!Purge, Registry!Restrict, Restrict
<1>4. /\ DOMAIN token' = DOMAIN token
      /\ token' \in [DOMAIN token -> Keys \cup {NoHolder}]
  BY <1>1, SpendTyped
<1>5. Registry!TypeOK'
  BY <1>1, <1>2, <1>3, <1>4 DEF Registry!TypeOK
<1> QED
  BY <1>1, <1>4, <1>5

LEMMA TransferTyped ==
  ASSUME Registry!TypeOK, NEW a \in DOMAIN nft, NEW new_owner \in Keys,
         NEW to \in Keys, Registry!Transfer(a, new_owner, to)
  PROVE  /\ Registry!TypeOK'
         /\ coll' = coll
         /\ DOMAIN token' = DOMAIN token
<1>1. /\ Registry!Spend(a, to)
      /\ nft' = [nft EXCEPT ![a].owner = new_owner]
      /\ UNCHANGED <<coll, deposits>>
  BY DEF Registry!Transfer
<1>2. /\ nft \in [DOMAIN nft -> Registry!NftState]
      /\ nft[a] \in Registry!NftState
      /\ DOMAIN nft' = DOMAIN nft
      /\ nft'[a] = [nft[a] EXCEPT !.owner = new_owner]
      /\ \A b \in DOMAIN nft \ {a} : nft'[b] = nft[b]
  BY <1>1 DEF Registry!TypeOK
<1>3. /\ nft'[a] \in Registry!NftState
      /\ nft'[a].len = nft[a].len /\ nft'[a].room = nft[a].room
  BY <1>2 DEF Registry!NftState
<1>4. nft' \in [DOMAIN nft' -> Registry!NftState]
  BY <1>1, <1>2, <1>3
<1>5. \A b \in DOMAIN nft' : nft'[b].len <= nft'[b].room
  BY <1>2, <1>3 DEF Registry!TypeOK
<1>6. /\ DOMAIN token' = DOMAIN token
      /\ token' \in [DOMAIN token -> Keys \cup {NoHolder}]
  BY <1>1, SpendTyped
<1>7. Registry!TypeOK'
  BY <1>1, <1>2, <1>4, <1>5, <1>6 DEF Registry!TypeOK
<1> QED
  BY <1>1, <1>6, <1>7

LEMMA RewriteTyped ==
  ASSUME Registry!TypeOK, NEW a \in DOMAIN nft, NEW len \in Lens,
         Registry!Rewrite(a, len)
  PROVE  /\ Registry!TypeOK'
         /\ coll' = coll /\ token' = token
<1>1. /\ nft' = [nft EXCEPT ![a].len = len]
      /\ UNCHANGED <<coll, token, deposits>>
      /\ len <= nft[a].room
  BY DEF Registry!Rewrite, Registry!Fits
<1>2. /\ nft \in [DOMAIN nft -> Registry!NftState]
      /\ nft[a] \in Registry!NftState
      /\ DOMAIN nft' = DOMAIN nft
      /\ nft'[a] = [nft[a] EXCEPT !.len = len]
      /\ \A b \in DOMAIN nft \ {a} : nft'[b] = nft[b]
  BY <1>1 DEF Registry!TypeOK
<1>3. /\ nft'[a] \in Registry!NftState
      /\ nft'[a].len = len /\ nft'[a].room = nft[a].room
  BY <1>2 DEF Registry!NftState
<1>4. nft' \in [DOMAIN nft' -> Registry!NftState]
  BY <1>1, <1>2, <1>3
<1>5. \A b \in DOMAIN nft' : nft'[b].len <= nft'[b].room
  BY <1>1, <1>2, <1>3 DEF Registry!TypeOK
<1>6. Registry!TypeOK'
  BY <1>1, <1>2, <1>4, <1>5 DEF Registry!TypeOK
<1> QED
  BY <1>1, <1>6

\* A new keypair is nobody's.
LEMMA KeypairNew ==
  ASSUME Unused # {}
  PROVE  /\ NewKeypair \in Mints
         /\ NewKeypair \notin DOMAIN token
         /\ \A r \in Pending : r.mint # NewKeypair
         /\ \A s \in Scripts : script[s].mint # NewKeypair
<1>1. NewKeypair \in Unused
  BY DEF NewKeypair
<1> QED
  BY <1>1 DEF Unused, Registry!Fresh

\* What the steps of others leave of the ledger: the counters do not fall, and
\* no SPL mint comes or goes.
OthersFrame ==
  /\ ~ Running
  /\ Registry!TypeOK'
  /\ DOMAIN coll \subseteq DOMAIN coll'
  /\ \A c \in DOMAIN coll : coll'[c].minted_count >= coll[c].minted_count
  /\ DOMAIN token' = DOMAIN token
  /\ UNCHANGED <<spl, exec, script, flight>>

LEMMA OthersFramed ==
  ASSUME TypeOK, Others
  PROVE  OthersFrame
<1>1. Registry!TypeOK
  BY DEF TypeOK
<1>2. ~ Running /\ UNCHANGED <<spl, exec, script, flight>>
  BY DEF Others
<1>3. ASSUME NEW c \in DOMAIN coll
      PROVE  coll[c].minted_count \in Nat
  <2>1. coll[c] \in Registry!CollectionState
    BY <1>1 DEF Registry!TypeOK
  <2> QED
    BY <2>1, ClientAssumption DEF Registry!CollectionState
<1>4. CASE \E k \in Creators, id \in CollectionIds, supply \in 0 .. MaxSupply :
             Registry!InitializeCollection(k, id, supply)
  <2>1. /\ Registry!TypeOK'
        /\ DOMAIN coll \subseteq DOMAIN coll'
        /\ \A c \in DOMAIN coll : coll'[c] = coll[c]
        /\ nft' = nft /\ token' = token
    BY <1>1, <1>4, InitializeTyped
  <2> QED
    BY <1>2, <1>3, <2>1 DEF OthersFrame
<1>5. CASE \E c \in Registry!CollPdas : Registry!SenderMints(c)
  <2>1. PICK c \in Registry!CollPdas, sender \in Keys, kind \in MintKinds,
             m \in Mints, len \in Lens :
               Registry!AutoMint(sender, c, kind, m, len)
    BY <1>5 DEF Registry!SenderMints
  <2>2. /\ Registry!TypeOK'
        /\ DOMAIN coll' = DOMAIN coll
        /\ \A d \in DOMAIN coll : coll'[d].minted_count >= coll[d].minted_count
        /\ token' = token
    BY <1>1, <2>1, AutoMintTyped
  <2> QED
    BY <1>2, <2>2 DEF OthersFrame
<1>6. CASE \E k, new \in Keys, c \in Registry!CollPdas :
             Registry!TransferCollection(k, c, new)
  <2>1. /\ Registry!TypeOK'
        /\ DOMAIN coll' = DOMAIN coll
        /\ \A d \in DOMAIN coll : coll'[d].minted_count = coll[d].minted_count
        /\ nft' = nft /\ token' = token
    BY <1>1, <1>6, TransferCollectionTyped
  <2> QED
    BY <1>2, <1>3, <2>1 DEF OthersFrame
<1>7. CASE \E a \in DOMAIN nft : Registry!BurnNft(a)
  <2>1. /\ Registry!TypeOK'
        /\ coll' = coll
        /\ DOMAIN token' = DOMAIN token
    BY <1>1, <1>7, BurnTyped
  <2> QED
    BY <1>2, <1>3, <2>1 DEF OthersFrame
<1>8. CASE \E a \in DOMAIN nft, new_owner, to \in Keys :
             Registry!Transfer(a, new_owner, to)
  <2>1. /\ Registry!TypeOK'
        /\ coll' = coll
        /\ DOMAIN token' = DOMAIN token
    BY <1>1, <1>8, TransferTyped
  <2> QED
    BY <1>2, <1>3, <2>1 DEF OthersFrame
<1>9. CASE \/ \E k \in Keys, a \in DOMAIN nft, len \in Lens :
                Registry!UpdateNft(k, a, len)
           \/ \E a \in DOMAIN nft, len \in Lens : Registry!UpdateFractions(a, len)
  <2>1. PICK a \in DOMAIN nft, len \in Lens : Registry!Rewrite(a, len)
    BY <1>9 DEF Registry!UpdateNft, Registry!UpdateFractions
  <2>2. Registry!TypeOK' /\ coll' = coll /\ token' = token
    BY <1>1, <2>1, RewriteTyped
  <2> QED
    BY <1>2, <1>3, <2>2 DEF OthersFrame
<1>10. CASE \/ \E a \in DOMAIN nft : Registry!ProxyForward(a)
            \/ \E a \in DOMAIN nft : Registry!Withdraw(a)
            \/ \E a \in DOMAIN nft : Registry!ClaimParentShare(a)
            \/ \E a \in Registry!NftPdas : Registry!Deposit(a)
  <2>1. /\ UNCHANGED <<coll, nft, token>>
        /\ deposits' \subseteq Registry!NftPdas
    BY <1>1, <1>10 DEF Registry!ProxyForward, Registry!Withdraw,
       Registry!ClaimParentShare, Registry!Deposit, Registry!TypeOK
  <2>2. Registry!TypeOK'
    BY <1>1, <2>1 DEF Registry!TypeOK
  <2> QED
    BY <1>2, <1>3, <2>1, <2>2 DEF OthersFrame
<1>11. CASE \E m \in DOMAIN token, to \in Keys : Registry!WalletTransfer(m, to)
  <2>1. PICK m \in DOMAIN token, to \in Keys : Registry!WalletTransfer(m, to)
    BY <1>11
  <2>2. /\ UNCHANGED <<coll, nft, deposits>>
        /\ token' = [token EXCEPT ![m] = to]
    BY <2>1 DEF Registry!WalletTransfer
  <2>3. Registry!TypeOK' /\ DOMAIN token' = DOMAIN token
    BY <1>1, <2>2 DEF Registry!TypeOK
  <2> QED
    BY <1>2, <1>3, <2>2, <2>3 DEF OthersFrame
<1> QED
  BY <1>4, <1>5, <1>6, <1>7, <1>8, <1>9, <1>10, <1>11 DEF Others, Registry!Others

-----------------------------------------------------------------------------
(* The scripts and the network leave the execution as it is.               *)

LEMMA CopiesFrame ==
  ASSUME CopiesSound, UNCHANGED chain
  PROVE  CopiesSound'
BY DEF CopiesSound, chain, ledger, Running, Admitted, Registry!HasRoom,
       Registry!NextPda, Address, Mint, RecordOf, Registry!FeeRecipientAtMint

LEMMA ScriptsInv ==
  ASSUME IInv, UNCHANGED chain, flight' \subseteq flight,
         script' \in [Scripts -> ScriptState]
  PROVE  IInv'
<1>1. UNCHANGED <<coll, nft, token, deposits, spl, exec>>
  BY DEF chain, ledger
<1>2. TypeOK'
  BY <1>1 DEF IInv, TypeOK, Registry!TypeOK, Execution, Running
<1>3. CopiesSound'
  BY CopiesFrame DEF IInv
<1>4. WholeMints'
  BY <1>1 DEF IInv, WholeMints
<1>5. KeypairsSound'
  <2>1. Pending' \subseteq Pending
    BY <1>1 DEF Pending, Running
  <2>2. Running' => Running /\ exec.request \notin flight
    BY <1>1 DEF IInv, KeypairsSound, Running
  <2> QED
    BY <1>1, <2>1, <2>2 DEF IInv, KeypairsSound
<1> QED
  BY <1>2, <1>3, <1>4, <1>5 DEF IInv

LEMMA BetweenTyped ==
  ASSUME NEW j \in Nat, NEW got \in Nat, NEW gaveUp \in BOOLEAN
  PROVE  Between(j, got, gaveUp) \in ScriptState
BY ClientAssumption DEF Between, ScriptState

\* What a script's state holds.
LEMMA ScriptFields ==
  ASSUME TypeOK, NEW s \in Scripts
  PROVE  /\ script[s] \in ScriptState
         /\ script[s].index \in 0 .. MaxSupply
         /\ script[s].job \in Nat /\ script[s].got \in Nat
         /\ script[s].gaveUp \in BOOLEAN
BY DEF TypeOK, ScriptState

LEMMA ReadEffect ==
  ASSUME IInv, NEW s \in Scripts, Read(s)
  PROVE  /\ Target \in DOMAIN coll
         /\ script[s].at = "idle"
         /\ script' \in [Scripts -> ScriptState]
         /\ script'[s].at = "read"
         /\ script'[s].index = coll[Target].minted_count
         /\ script'[s].mint = script[s].mint
         /\ script'[s].job = script[s].job
         /\ script'[s].got = script[s].got
         /\ script'[s].gaveUp = script[s].gaveUp
         /\ \A t \in Scripts \ {s} : script'[t] = script[t]
         /\ UNCHANGED <<chain, flight>>
<1> DEFINE n == coll[Target].minted_count
           a == [script[s] EXCEPT !.at = "read"]
           b == [a EXCEPT !.index = n]
<1>1. /\ script' = [script EXCEPT ![s] = b]
      /\ Target \in DOMAIN coll
      /\ script[s].at = "idle"
      /\ UNCHANGED <<chain, flight>>
  BY DEF Read
<1>2. n \in 0 .. MaxSupply
  <2>1. coll[Target] \in Registry!CollectionState
    BY <1>1 DEF IInv, TypeOK, Registry!TypeOK
  <2> QED
    BY <2>1 DEF Registry!CollectionState
<1>3. script[s] \in ScriptState
  BY ScriptFields DEF IInv
<1> HIDE DEF n
<1>4. /\ a \in ScriptState /\ a.at = "read"
      /\ a.mint = script[s].mint /\ a.job = script[s].job
      /\ a.got = script[s].got /\ a.gaveUp = script[s].gaveUp
  BY <1>3 DEF ScriptState
<1> HIDE DEF a
<1>5. /\ b \in ScriptState /\ b.at = "read" /\ b.index = n
      /\ b.mint = script[s].mint /\ b.job = script[s].job
      /\ b.got = script[s].got /\ b.gaveUp = script[s].gaveUp
  BY <1>2, <1>4 DEF ScriptState
<1> HIDE DEF b
<1>6. script \in [Scripts -> ScriptState]
  BY DEF IInv, TypeOK
<1>7. /\ script' \in [Scripts -> ScriptState]
      /\ script'[s] = b
      /\ \A t \in Scripts \ {s} : script'[t] = script[t]
  BY <1>1, <1>5, <1>6
<1> QED
  BY <1>1, <1>5, <1>7 DEF n

\* Confirm, Fail and GiveUp: the script is between two runs.
LEMMA ReturnEffect ==
  ASSUME IInv, NEW s \in Scripts, NEW j \in Nat, NEW got \in Nat,
         NEW gaveUp \in BOOLEAN,
         script' = [script EXCEPT ![s] = Between(j, got, gaveUp)]
  PROVE  /\ script' \in [Scripts -> ScriptState]
         /\ script'[s].at = "idle"
         /\ script'[s].mint = NoMint
         /\ script'[s].job = j
         /\ script'[s].got = got
         /\ script'[s].gaveUp = gaveUp
         /\ \A t \in Scripts \ {s} : script'[t] = script[t]
<1> DEFINE b == Between(j, got, gaveUp)
<1>1. /\ b \in ScriptState /\ b.at = "idle" /\ b.mint = NoMint
      /\ b.job = j /\ b.got = got /\ b.gaveUp = gaveUp
  <2>1. b \in ScriptState
    BY BetweenTyped
  <2> QED
    BY <2>1 DEF Between
<1> HIDE DEF b
<1>2. script \in [Scripts -> ScriptState]
  BY DEF IInv, TypeOK
<1>3. /\ script' \in [Scripts -> ScriptState]
      /\ script'[s] = b
      /\ \A t \in Scripts \ {s} : script'[t] = script[t]
  BY <1>1, <1>2 DEF b
<1> QED
  BY <1>1, <1>3

LEMMA ConfirmEffect ==
  ASSUME IInv, NEW s \in Scripts, Confirm(s)
  PROVE  /\ Waiting(s)
         /\ script[s].mint \in DOMAIN spl
         /\ script' \in [Scripts -> ScriptState]
         /\ script'[s].at = "idle"
         /\ script'[s].mint = NoMint
         /\ script'[s].job = script[s].job + 1
         /\ script'[s].got = 0
         /\ script'[s].gaveUp = FALSE
         /\ \A t \in Scripts \ {s} : script'[t] = script[t]
         /\ UNCHANGED <<chain, flight>>
<1> DEFINE j == script[s].job + 1
<1>1. j \in Nat
  BY ScriptFields DEF IInv
<1>2. script' = [script EXCEPT ![s] = Between(j, 0, FALSE)]
  BY DEF Confirm
<1>3. /\ Waiting(s)
      /\ script[s].mint \in DOMAIN spl
      /\ UNCHANGED <<chain, flight>>
  BY DEF Confirm
<1> HIDE DEF j
<1>4. FALSE \in BOOLEAN /\ 0 \in Nat
  OBVIOUS
<1>5. /\ script' \in [Scripts -> ScriptState]
      /\ script'[s].at = "idle"
      /\ script'[s].mint = NoMint
      /\ script'[s].job = j
      /\ script'[s].got = 0
      /\ script'[s].gaveUp = FALSE
      /\ \A t \in Scripts \ {s} : script'[t] = script[t]
  BY <1>1, <1>2, <1>4, ReturnEffect
<1> QED
  BY <1>3, <1>5 DEF j

LEMMA FailEffect ==
  ASSUME IInv, NEW s \in Scripts, Fail(s)
  PROVE  /\ Waiting(s)
         /\ script[s].mint \notin DOMAIN spl
         /\ \A r \in Pending : r.mint # script[s].mint
         /\ script' \in [Scripts -> ScriptState]
         /\ script'[s].at = "idle"
         /\ script'[s].mint = NoMint
         /\ script'[s].job = script[s].job
         /\ script'[s].got = script[s].got
         /\ script'[s].gaveUp = script[s].gaveUp
         /\ \A t \in Scripts \ {s} : script'[t] = script[t]
         /\ UNCHANGED <<chain, flight>>
<1> DEFINE j == script[s].job
           got == script[s].got
           gaveUp == script[s].gaveUp
<1>1. j \in Nat /\ got \in Nat /\ gaveUp \in BOOLEAN
  BY ScriptFields DEF IInv
<1>2. script' = [script EXCEPT ![s] = Between(j, got, gaveUp)]
  BY DEF Fail
<1>3. /\ Waiting(s)
      /\ script[s].mint \notin DOMAIN spl
      /\ \A r \in Pending : r.mint # script[s].mint
      /\ UNCHANGED <<chain, flight>>
  BY DEF Fail
<1> HIDE DEF j, got, gaveUp
<1>4. /\ script' \in [Scripts -> ScriptState]
      /\ script'[s].at = "idle"
      /\ script'[s].mint = NoMint
      /\ script'[s].job = j
      /\ script'[s].got = got
      /\ script'[s].gaveUp = gaveUp
      /\ \A t \in Scripts \ {s} : script'[t] = script[t]
  BY <1>1, <1>2, ReturnEffect
<1> QED
  BY <1>3, <1>4 DEF j, got, gaveUp

LEMMA GiveUpEffect ==
  ASSUME IInv, NEW s \in Scripts, GiveUp(s)
  PROVE  /\ Waiting(s)
         /\ script' \in [Scripts -> ScriptState]
         /\ script'[s].at = "idle"
         /\ script'[s].mint = NoMint
         /\ script'[s].job = script[s].job
         /\ script'[s].got = script[s].got
         /\ script'[s].gaveUp = TRUE
         /\ \A t \in Scripts \ {s} : script'[t] = script[t]
         /\ UNCHANGED <<chain, flight>>
<1> DEFINE j == script[s].job
           got == script[s].got
<1>1. j \in Nat /\ got \in Nat /\ TRUE \in BOOLEAN
  BY ScriptFields DEF IInv
<1>2. script' = [script EXCEPT ![s] = Between(j, got, TRUE)]
  BY DEF GiveUp
<1>3. Waiting(s) /\ UNCHANGED <<chain, flight>>
  BY DEF GiveUp
<1> HIDE DEF j, got
<1>4. /\ script' \in [Scripts -> ScriptState]
      /\ script'[s].at = "idle"
      /\ script'[s].mint = NoMint
      /\ script'[s].job = j
      /\ script'[s].got = got
      /\ script'[s].gaveUp = TRUE
      /\ \A t \in Scripts \ {s} : script'[t] = script[t]
  BY <1>1, <1>2, ReturnEffect
<1> QED
  BY <1>3, <1>4 DEF j, got

LEMMA SubmitEffect ==
  ASSUME IInv, NEW s \in Scripts, Submit(s)
  PROVE  /\ script[s].at = "read"
         /\ Unused # {}
         /\ script' \in [Scripts -> ScriptState]
         /\ script'[s].at = "waiting"
         /\ script'[s].mint = NewKeypair
         /\ script'[s].index = script[s].index
         /\ script'[s].job = script[s].job
         /\ script'[s].got = script[s].got
         /\ script'[s].gaveUp = script[s].gaveUp
         /\ \A t \in Scripts \ {s} : script'[t] = script[t]
         /\ UNCHANGED chain
         /\ \E r \in Request :
              /\ flight' = flight \cup {r}
              /\ r.script = s
              /\ r.mint = NewKeypair
              /\ r.index = script[s].index
              /\ r.job = script[s].job
<1> DEFINE m == NewKeypair
           a == [script[s] EXCEPT !.at = "waiting"]
           b == [a EXCEPT !.mint = m]
<1>1. /\ script[s].at = "read"
      /\ Unused # {}
      /\ script' = [script EXCEPT ![s] = b]
      /\ UNCHANGED chain
  BY DEF Submit
<1>2. PICK kind \in MintKinds, len \in Lens :
        flight' = flight \cup
          {[script |-> s, job |-> script[s].job, collection |-> Target,
            payer |-> Wallet, owner |-> Wallet, index |-> script[s].index,
            mint |-> m, kind |-> kind, len |-> len]}
  BY DEF Submit
<1>3. m \in Mints
  BY <1>1, KeypairNew
<1> HIDE DEF m
<1>4. /\ script[s] \in ScriptState
      /\ script[s].index \in 0 .. MaxSupply
      /\ script[s].job \in Nat
      /\ script \in [Scripts -> ScriptState]
  BY ScriptFields DEF IInv, TypeOK
<1>5. /\ a \in ScriptState /\ a.at = "waiting"
      /\ a.index = script[s].index /\ a.job = script[s].job
      /\ a.got = script[s].got /\ a.gaveUp = script[s].gaveUp
  BY <1>4 DEF ScriptState
<1> HIDE DEF a
<1>6. /\ b \in ScriptState /\ b.at = "waiting" /\ b.mint = m
      /\ b.index = script[s].index /\ b.job = script[s].job
      /\ b.got = script[s].got /\ b.gaveUp = script[s].gaveUp
  BY <1>3, <1>5 DEF ScriptState
<1> HIDE DEF b
<1>7. /\ script' \in [Scripts -> ScriptState]
      /\ script'[s] = b
      /\ \A t \in Scripts \ {s} : script'[t] = script[t]
  BY <1>1, <1>4, <1>6
<1> DEFINE r == [script |-> s, job |-> script[s].job, collection |-> Target,
                 payer |-> Wallet, owner |-> Wallet, index |-> script[s].index,
                 mint |-> m, kind |-> kind, len |-> len]
<1>8. /\ r \in Request /\ r.script = s /\ r.mint = m
      /\ r.index = script[s].index /\ r.job = script[s].job
  BY <1>3, <1>4 DEF Request
<1>9. flight' = flight \cup {r}
  BY <1>2
<1> HIDE DEF r
<1> QED
  BY <1>1, <1>6, <1>7, <1>8, <1>9 DEF m

LEMMA SubmitInv ==
  ASSUME IInv, NEW s \in Scripts, Submit(s)
  PROVE  IInv'
<1> DEFINE m == NewKeypair
<1>1. PICK r \in Request :
        /\ flight' = flight \cup {r}
        /\ r.script = s
        /\ r.mint = m
        /\ r.index = script[s].index
        /\ r.job = script[s].job
  BY SubmitEffect
<1>2. /\ script' \in [Scripts -> ScriptState]
      /\ UNCHANGED chain
      /\ Unused # {}
  BY SubmitEffect
<1>3. /\ m \notin DOMAIN token
      /\ \A q \in Pending : q.mint # m
  BY <1>2, KeypairNew
<1> HIDE DEF m
<1>4. UNCHANGED <<coll, nft, token, deposits, spl, exec>>
  BY <1>2 DEF chain, ledger
<1>5. TypeOK'
  BY <1>1, <1>2, <1>4 DEF IInv, TypeOK, Registry!TypeOK, Execution, Running
<1>6. CopiesSound' /\ WholeMints'
  BY <1>2, <1>4, CopiesFrame DEF IInv, WholeMints
<1>7. KeypairsSound'
  <2>1. Pending' = Pending \cup {r}
    BY <1>1, <1>4 DEF Pending, Running
  <2>2. ASSUME Running' PROVE exec'.request \notin flight'
    <3>1. /\ Running /\ exec.request \notin flight
          /\ exec.request \in Pending
      BY <1>4, <2>2 DEF IInv, KeypairsSound, Running, Pending
    <3> QED
      BY <1>1, <1>3, <1>4, <3>1
  <2>3. \A q \in Pending' : q.mint \notin DOMAIN token'
    BY <1>1, <1>3, <1>4, <2>1 DEF IInv, KeypairsSound
  <2>4. ASSUME NEW p \in Pending', NEW q \in Pending', p.mint = q.mint
        PROVE  p = q
    BY <1>1, <1>3, <2>1, <2>4 DEF IInv, KeypairsSound
  <2> QED
    BY <2>2, <2>3, <2>4 DEF KeypairsSound
<1> QED
  BY <1>5, <1>6, <1>7 DEF IInv

-----------------------------------------------------------------------------
(* The instruction, one step at a time.                                    *)

\* The ledger and the scripts stay; only the instruction goes on.
LEMMA ExecInv ==
  ASSUME IInv, UNCHANGED <<ledger, spl, script>>, flight' \subseteq flight,
         Running' => exec' \in Execution' /\ exec'.request \notin flight',
         Pending' \subseteq Pending, CopiesSound'
  PROVE  IInv'
<1>1. UNCHANGED <<coll, nft, token, deposits, spl, script>>
  BY DEF ledger
<1>2. TypeOK'
  BY <1>1 DEF IInv, TypeOK, Registry!TypeOK
<1>3. WholeMints'
  BY <1>1 DEF IInv, WholeMints
<1>4. KeypairsSound'
  BY <1>1 DEF IInv, KeypairsSound
<1> QED
  BY <1>2, <1>3, <1>4 DEF IInv

\* Whether a request is admitted depends on the collection's account only.
LEMMA AdmittedFrame ==
  ASSUME NEW r, Admitted(r), coll' = coll
  PROVE  Admitted(r)'
BY DEF Admitted, Registry!HasRoom, Registry!NextPda

LEMMA StartInv ==
  ASSUME IInv, NEW r \in flight, Start(r)
  PROVE  IInv'
<1>1. /\ ~ Running
      /\ Admitted(r)
      /\ exec' = [request |-> r, step |-> 1,
                  coll |-> coll, nft |-> nft, token |-> token, spl |-> spl]
      /\ UNCHANGED <<ledger, spl, script>>
      /\ UNCHANGED <<coll, nft, token, deposits, spl>>
      /\ flight' = flight \ {r}
  BY DEF Start, Begin, ledger
<1>2. /\ exec'.request = r /\ exec'.step = 1 /\ exec'.coll = coll
      /\ exec'.nft = nft /\ exec'.token = token /\ exec'.spl = spl
  BY <1>1
<1>3. r \in Request
  BY DEF IInv, TypeOK
<1>4. exec' \in Execution'
  BY <1>1, <1>2, <1>3 DEF Execution
<1>5. Pending' \subseteq Pending
  BY <1>1, <1>2 DEF Pending
<1>6. Admitted(r)'
  BY <1>1, AdmittedFrame
<1>7. CopiesSound'
  BY <1>1, <1>2, <1>6 DEF CopiesSound
<1> QED
  BY <1>1, <1>2, <1>4, <1>5, <1>7, ExecInv

\* The fields of an execution.
Fields(w) ==
  [request: {w.request}, step: {w.step}, coll: {w.coll}, nft: {w.nft},
   token: {w.token}, spl: {w.spl}]

LEMMA TakeEffect ==
  ASSUME NEW w, w \in Fields(w), Take(w)
  PROVE  /\ exec' \in Fields(exec')
         /\ exec'.request = w.request
         /\ exec'.step = w.step + 1
         /\ exec'.coll = w.coll
         /\ exec'.nft = w.nft
         /\ exec'.token = w.token
         /\ exec'.spl = w.spl
BY DEF Take, Fields

\* An instruction that takes a step goes from copies as CopiesSound tells
\* them to such copies.
LEMMA AdvanceInv ==
  ASSUME IInv, Running, UNCHANGED <<ledger, spl, script, flight>>,
         exec' \in Fields(exec'),
         exec'.request = exec.request,
         exec'.step = exec.step + 1,
         exec.step \in 1 .. 7,
         exec'.coll = exec.coll,
         exec.step = 1 => Address \notin DOMAIN nft /\ Address \notin deposits,
         exec'.nft = Create(nft, Address, RecordOf(exec.request)),
         exec'.spl = IF exec.step > 1 THEN Create(spl, Mint, MintBefore(exec.step + 1))
                     ELSE spl,
         exec'.token = IF exec.step > 5 THEN Create(token, Mint, exec.request.owner)
                       ELSE token
  PROVE  IInv'
<1>1. UNCHANGED <<coll, nft, token, deposits, spl, script, flight>>
  BY DEF ledger
<1>2. exec \in Execution
  BY DEF IInv, TypeOK
<1>3. exec.request \in Request
  BY <1>2 DEF Execution
<1>4. exec' \in Execution'
  BY <1>3 DEF Execution, Fields
<1>5. Pending' \subseteq Pending /\ (Running' => exec'.request \notin flight')
  BY <1>1 DEF Pending, IInv, KeypairsSound
<1>6. /\ Admitted(exec.request)
      /\ exec.coll = coll
      /\ exec.step > 1 => Address \notin DOMAIN nft /\ Address \notin deposits
  BY DEF IInv, CopiesSound
<1>7. Admitted(exec.request)'
  BY <1>1, <1>6 DEF Admitted, Registry!HasRoom, Registry!NextPda
<1>8. RecordOf(exec.request)' = RecordOf(exec.request)
  BY <1>1 DEF RecordOf, Registry!FeeRecipientAtMint
<1>9. Address' = Address /\ Mint' = Mint
  BY <1>1 DEF Address, Mint
<1>10. Address \notin DOMAIN nft /\ Address \notin deposits
  BY <1>6
<1>11. CopiesSound'
  <2>1. exec'.step > 1 /\ exec'.step - 1 = exec.step
    OBVIOUS
  <2>2. /\ exec'.coll = coll'
        /\ Address' \notin DOMAIN nft' /\ Address' \notin deposits'
    BY <1>1, <1>6, <1>9, <1>10
  <2>3. exec'.nft = Create(nft', Address', RecordOf(exec.request)')
    BY <1>1, <1>8, <1>9
  <2>4. exec'.spl = IF exec'.step > 2 THEN Create(spl', Mint', MintBefore(exec'.step))
                    ELSE spl'
    BY <1>1, <1>9
  <2>5. exec'.token = IF exec'.step > 6 THEN Create(token', Mint', exec'.request.owner)
                      ELSE token'
    BY <1>1, <1>9
  <2> QED
    BY <1>7, <2>1, <2>2, <2>3, <2>4, <2>5 DEF CopiesSound
<1> QED
  BY <1>1, <1>4, <1>5, <1>11, ExecInv

\* One copy is written.
LEMMA WriteNft ==
  ASSUME NEW e, e \in Fields(e), NEW v, NEW w, w = [e EXCEPT !.nft = v]
  PROVE  /\ w \in Fields(w)
         /\ w.request = e.request
         /\ w.step = e.step
         /\ w.coll = e.coll
         /\ w.token = e.token
         /\ w.spl = e.spl
         /\ w.nft = v
BY DEF Fields

LEMMA WriteToken ==
  ASSUME NEW e, e \in Fields(e), NEW v, NEW w, w = [e EXCEPT !.token = v]
  PROVE  /\ w \in Fields(w)
         /\ w.request = e.request
         /\ w.step = e.step
         /\ w.coll = e.coll
         /\ w.nft = e.nft
         /\ w.spl = e.spl
         /\ w.token = v
BY DEF Fields

LEMMA WriteSpl ==
  ASSUME NEW e, e \in Fields(e), NEW v, NEW w, w = [e EXCEPT !.spl = v]
  PROVE  /\ w \in Fields(w)
         /\ w.request = e.request
         /\ w.step = e.step
         /\ w.coll = e.coll
         /\ w.nft = e.nft
         /\ w.token = e.token
         /\ w.spl = v
BY DEF Fields

\* The copies of an instruction that is carried out.
LEMMA CopiesNow ==
  ASSUME IInv, Running
  PROVE  /\ exec \in Fields(exec)
         /\ exec.step \in 1 .. 8
         /\ exec.request \in Request
         /\ exec.nft = IF exec.step > 1 THEN Create(nft, Address, RecordOf(exec.request))
                       ELSE nft
         /\ exec.spl = IF exec.step > 2 THEN Create(spl, Mint, MintBefore(exec.step))
                       ELSE spl
         /\ exec.token = IF exec.step > 6 THEN Create(token, Mint, exec.request.owner)
                         ELSE token
<1>1. exec \in Execution
  BY DEF IInv, TypeOK
<1>2. /\ exec \in Fields(exec)
      /\ exec.step \in 1 .. 8
      /\ exec.request \in Request
  BY <1>1 DEF Execution, Fields
<1> QED
  BY <1>2 DEF IInv, CopiesSound

\* The mint as the steps 2 to 7 leave it, one after the other.
SplRecord(authority, minted, metadata, account) ==
  [authority |-> authority, minted |-> minted, metadata |-> metadata,
   account |-> account]

LEMMA MintValues ==
  /\ MintBefore(3) = SplRecord(FALSE, 0, FALSE, FALSE)
  /\ MintBefore(4) = SplRecord(TRUE, 0, FALSE, FALSE)
  /\ MintBefore(5) = SplRecord(TRUE, 0, TRUE, FALSE)
  /\ MintBefore(6) = SplRecord(TRUE, 0, TRUE, TRUE)
  /\ MintBefore(7) = SplRecord(TRUE, 1, TRUE, TRUE)
  /\ MintBefore(8) = SplRecord(FALSE, 1, TRUE, TRUE)
<1>1. MintBefore(3) = SplRecord(FALSE, 0, FALSE, FALSE)
  <2>1. /\ (3 \in 4 .. 7) = FALSE
        /\ (IF 3 > 6 THEN 1 ELSE 0) = 0
        /\ (3 > 4) = FALSE
        /\ (3 > 5) = FALSE
    OBVIOUS
  <2> QED
    BY <2>1, Zenon DEF MintBefore, SplRecord
<1>2. MintBefore(4) = SplRecord(TRUE, 0, FALSE, FALSE)
  <2>1. /\ (4 \in 4 .. 7) = TRUE
        /\ (IF 4 > 6 THEN 1 ELSE 0) = 0
        /\ (4 > 4) = FALSE
        /\ (4 > 5) = FALSE
    OBVIOUS
  <2> QED
    BY <2>1, Zenon DEF MintBefore, SplRecord
<1>3. MintBefore(5) = SplRecord(TRUE, 0, TRUE, FALSE)
  <2>1. /\ (5 \in 4 .. 7) = TRUE
        /\ (IF 5 > 6 THEN 1 ELSE 0) = 0
        /\ (5 > 4) = TRUE
        /\ (5 > 5) = FALSE
    OBVIOUS
  <2> QED
    BY <2>1, Zenon DEF MintBefore, SplRecord
<1>4. MintBefore(6) = SplRecord(TRUE, 0, TRUE, TRUE)
  <2>1. /\ (6 \in 4 .. 7) = TRUE
        /\ (IF 6 > 6 THEN 1 ELSE 0) = 0
        /\ (6 > 4) = TRUE
        /\ (6 > 5) = TRUE
    OBVIOUS
  <2> QED
    BY <2>1, Zenon DEF MintBefore, SplRecord
<1>5. MintBefore(7) = SplRecord(TRUE, 1, TRUE, TRUE)
  <2>1. /\ (7 \in 4 .. 7) = TRUE
        /\ (IF 7 > 6 THEN 1 ELSE 0) = 1
        /\ (7 > 4) = TRUE
        /\ (7 > 5) = TRUE
    OBVIOUS
  <2> QED
    BY <2>1, Zenon DEF MintBefore, SplRecord
<1>6. MintBefore(8) = SplRecord(FALSE, 1, TRUE, TRUE)
  <2>1. /\ (8 \in 4 .. 7) = FALSE
        /\ (IF 8 > 6 THEN 1 ELSE 0) = 1
        /\ (8 > 4) = TRUE
        /\ (8 > 5) = TRUE
    OBVIOUS
  <2> QED
    BY <2>1, Zenon DEF MintBefore, SplRecord
<1> QED
  BY <1>1, <1>2, <1>3, <1>4, <1>5, <1>6

\* Writing a field of the mint's account.
LEMMA MintWrite ==
  ASSUME NEW a, NEW n, NEW d, NEW k, NEW v
  PROVE  /\ [SplRecord(a, n, d, k) EXCEPT !.authority = v] = SplRecord(v, n, d, k)
         /\ [SplRecord(a, n, d, k) EXCEPT !.minted = v] = SplRecord(a, v, d, k)
         /\ [SplRecord(a, n, d, k) EXCEPT !.metadata = v] = SplRecord(a, n, v, k)
         /\ [SplRecord(a, n, d, k) EXCEPT !.account = v] = SplRecord(a, n, d, v)
         /\ SplRecord(a, n, d, k).minted = n
         /\ SplRecord(a, n, d, k).authority = a
         /\ SplRecord(a, n, d, k).account = k
BY DEF SplRecord

LEMMA MintAfter ==
  /\ MintBefore(4) = [MintBefore(3) EXCEPT !.authority = TRUE]
  /\ MintBefore(5) = [MintBefore(4) EXCEPT !.metadata = TRUE]
  /\ MintBefore(6) = [MintBefore(5) EXCEPT !.account = TRUE]
  /\ MintBefore(7) = [MintBefore(6) EXCEPT !.minted = 1]
  /\ MintBefore(8) = [MintBefore(7) EXCEPT !.authority = FALSE]
  /\ MintBefore(6).minted = 0
  /\ MintBefore(8) = Finished
<1> DEFINE t == TRUE
           f == FALSE
<1> HIDE DEF t, f
<1>1. [SplRecord(f, 0, f, f) EXCEPT !.authority = t] = SplRecord(t, 0, f, f)
  BY MintWrite
<1>2. [SplRecord(t, 0, f, f) EXCEPT !.metadata = t] = SplRecord(t, 0, t, f)
  BY MintWrite
<1>3. [SplRecord(t, 0, t, f) EXCEPT !.account = t] = SplRecord(t, 0, t, t)
  BY MintWrite
<1>4. [SplRecord(t, 0, t, t) EXCEPT !.minted = 1] = SplRecord(t, 1, t, t)
  BY MintWrite
<1>5. [SplRecord(t, 1, t, t) EXCEPT !.authority = f] = SplRecord(f, 1, t, t)
  BY MintWrite
<1>6. SplRecord(t, 0, t, t).minted = 0
  BY MintWrite
<1>7. /\ MintBefore(3) = SplRecord(f, 0, f, f) /\ MintBefore(4) = SplRecord(t, 0, f, f)
      /\ MintBefore(5) = SplRecord(t, 0, t, f) /\ MintBefore(6) = SplRecord(t, 0, t, t)
      /\ MintBefore(7) = SplRecord(t, 1, t, t) /\ MintBefore(8) = SplRecord(f, 1, t, t)
  BY MintValues, Zenon DEF t, f
<1>8. MintBefore(8) = Finished
  BY MintValues DEF Finished, SplRecord
<1> QED
  BY <1>1, <1>2, <1>3, <1>4, <1>5, <1>6, <1>7, <1>8, Zenon DEF t, f

LEMMA CreatePdaInv ==
  ASSUME IInv, CreatePda, UNCHANGED <<script, flight>>
  PROVE  IInv'
<1> DEFINE v == Create(exec.nft, Address, RecordOf(exec.request))
           w == [exec EXCEPT !.nft = v]
<1>1. /\ Running /\ exec.step = 1
      /\ Address \notin DOMAIN exec.nft /\ Address \notin deposits
      /\ Take(w)
      /\ UNCHANGED <<ledger, spl>>
  BY DEF CreatePda, AtStep, Take
<1>2. exec \in Fields(exec) /\ exec.nft = nft /\ exec.spl = spl /\ exec.token = token
  BY <1>1, CopiesNow
<1>3. v = Create(nft, Address, RecordOf(exec.request))
  BY <1>2
<1> HIDE DEF v
<1>4. w = [exec EXCEPT !.nft = v]
  OBVIOUS
<1> HIDE DEF w
<1>5. /\ w \in Fields(w)
      /\ w.request = exec.request /\ w.step = exec.step
      /\ w.coll = exec.coll /\ w.token = exec.token /\ w.spl = exec.spl
      /\ w.nft = v
  BY <1>2, <1>4, WriteNft
<1>6. /\ exec' \in Fields(exec')
      /\ exec'.request = w.request /\ exec'.step = w.step + 1
      /\ exec'.coll = w.coll /\ exec'.nft = w.nft
      /\ exec'.token = w.token /\ exec'.spl = w.spl
  BY <1>1, <1>5, TakeEffect
<1> QED
  BY <1>1, <1>2, <1>3, <1>5, <1>6, AdvanceInv

\* The steps that write the mint's account only, all but CreatePda and MintTo.
LEMMA MintAccountInv ==
  ASSUME IInv, Running, NEW n \in {2, 3, 4, 5, 7}, exec.step = n,
         NEW v, v = Create(spl, Mint, MintBefore(n + 1)),
         NEW w, w = [exec EXCEPT !.spl = v], Take(w), UNCHANGED <<script, flight>>
  PROVE  IInv'
<1>1. exec \in Fields(exec)
  BY CopiesNow
<1>2. /\ w \in Fields(w)
      /\ w.request = exec.request /\ w.step = exec.step
      /\ w.coll = exec.coll /\ w.token = exec.token /\ w.nft = exec.nft
      /\ w.spl = v
  BY <1>1, WriteSpl
<1>3. /\ exec' \in Fields(exec')
      /\ exec'.request = w.request /\ exec'.step = w.step + 1
      /\ exec'.coll = w.coll /\ exec'.nft = w.nft
      /\ exec'.token = w.token /\ exec'.spl = w.spl
  BY <1>2, TakeEffect
<1>4. UNCHANGED <<ledger, spl>>
  BY DEF Take
<1>5. /\ exec.nft = Create(nft, Address, RecordOf(exec.request))
      /\ exec.token = IF exec.step > 6 THEN Create(token, Mint, exec.request.owner)
                      ELSE token
  BY CopiesNow
<1>6. exec'.token = IF exec.step > 5 THEN Create(token, Mint, exec.request.owner)
                    ELSE token
  BY <1>2, <1>3, <1>5
<1> QED
  BY <1>2, <1>3, <1>4, <1>5, <1>6, AdvanceInv

\* A field of the mint's account is written.
LEMMA MintField ==
  ASSUME IInv, Running, exec.step > 2
  PROVE  /\ exec.spl[Mint] = MintBefore(exec.step)
         /\ \A x : [exec.spl EXCEPT ![Mint] = x] = Create(spl, Mint, x)
<1> DEFINE v == MintBefore(exec.step)
           m == Mint
<1>1. exec.spl = Create(spl, m, v)
  BY CopiesNow
<1> HIDE DEF v, m
<1>2. exec.spl[m] = v
  BY <1>1 DEF Create
<1>3. \A x : [exec.spl EXCEPT ![m] = x] = Create(spl, m, x)
  BY <1>1, CreateAgain
<1> QED
  BY <1>2, <1>3 DEF v, m

LEMMA CreateMintAccountInv ==
  ASSUME IInv, CreateMintAccount, UNCHANGED <<script, flight>>
  PROVE  IInv'
<1> DEFINE v == Create(exec.spl, Mint,
                  [authority |-> FALSE, minted |-> 0, metadata |-> FALSE,
                   account |-> FALSE])
           w == [exec EXCEPT !.spl = v]
<1>1. Running /\ exec.step = 2 /\ Take(w)
  BY DEF CreateMintAccount, AtStep
<1>2. v = Create(spl, Mint, MintBefore(3))
  <2>1. exec.spl = spl
    BY <1>1, CopiesNow
  <2> QED
    BY <2>1, MintValues, Zenon DEF SplRecord
<1> HIDE DEF v
<1>3. w = [exec EXCEPT !.spl = v]
  OBVIOUS
<1> HIDE DEF w
<1> QED
  BY <1>1, <1>2, <1>3, MintAccountInv

LEMMA InitializeMintInv ==
  ASSUME IInv, InitializeMint, UNCHANGED <<script, flight>>
  PROVE  IInv'
<1> DEFINE m == [exec.spl[Mint] EXCEPT !.authority = TRUE]
           v == [exec.spl EXCEPT ![Mint] = m]
           w == [exec EXCEPT !.spl = v]
<1>1. Running /\ exec.step = 3 /\ Take(w)
  BY DEF InitializeMint, AtStep
<1>2. v = Create(spl, Mint, MintBefore(4))
  <2>1. m = MintBefore(4)
    BY <1>1, MintField, MintAfter
  <2> HIDE DEF m
  <2>2. v = Create(spl, Mint, m)
    BY <1>1, MintField
  <2> QED
    BY <2>1, <2>2
<1> HIDE DEF m
<1>3. w = [exec EXCEPT !.spl = v]
  OBVIOUS
<1> HIDE DEF v, w
<1> QED
  BY <1>1, <1>2, <1>3, MintAccountInv

LEMMA CreateMetadataInv ==
  ASSUME IInv, CreateMetadata, UNCHANGED <<script, flight>>
  PROVE  IInv'
<1> DEFINE m == [exec.spl[Mint] EXCEPT !.metadata = TRUE]
           v == [exec.spl EXCEPT ![Mint] = m]
           w == [exec EXCEPT !.spl = v]
<1>1. Running /\ exec.step = 4 /\ Take(w)
  BY DEF CreateMetadata, AtStep
<1>2. v = Create(spl, Mint, MintBefore(5))
  <2>1. m = MintBefore(5)
    BY <1>1, MintField, MintAfter
  <2> HIDE DEF m
  <2>2. v = Create(spl, Mint, m)
    BY <1>1, MintField
  <2> QED
    BY <2>1, <2>2
<1> HIDE DEF m
<1>3. w = [exec EXCEPT !.spl = v]
  OBVIOUS
<1> HIDE DEF v, w
<1> QED
  BY <1>1, <1>2, <1>3, MintAccountInv

LEMMA CreateTokenAccountInv ==
  ASSUME IInv, CreateTokenAccount, UNCHANGED <<script, flight>>
  PROVE  IInv'
<1> DEFINE m == [exec.spl[Mint] EXCEPT !.account = TRUE]
           v == [exec.spl EXCEPT ![Mint] = m]
           w == [exec EXCEPT !.spl = v]
<1>1. Running /\ exec.step = 5 /\ Take(w)
  BY DEF CreateTokenAccount, AtStep
<1>2. v = Create(spl, Mint, MintBefore(6))
  <2>1. m = MintBefore(6)
    BY <1>1, MintField, MintAfter
  <2> HIDE DEF m
  <2>2. v = Create(spl, Mint, m)
    BY <1>1, MintField
  <2> QED
    BY <2>1, <2>2
<1> HIDE DEF m
<1>3. w = [exec EXCEPT !.spl = v]
  OBVIOUS
<1> HIDE DEF v, w
<1> QED
  BY <1>1, <1>2, <1>3, MintAccountInv

LEMMA RevokeAuthorityInv ==
  ASSUME IInv, RevokeAuthority, UNCHANGED <<script, flight>>
  PROVE  IInv'
<1> DEFINE m == [exec.spl[Mint] EXCEPT !.authority = FALSE]
           v == [exec.spl EXCEPT ![Mint] = m]
           w == [exec EXCEPT !.spl = v]
<1>1. Running /\ exec.step = 7 /\ Take(w)
  BY DEF RevokeAuthority, AtStep
<1>2. v = Create(spl, Mint, MintBefore(8))
  <2>1. m = MintBefore(8)
    BY <1>1, MintField, MintAfter
  <2> HIDE DEF m
  <2>2. v = Create(spl, Mint, m)
    BY <1>1, MintField
  <2> QED
    BY <2>1, <2>2
<1> HIDE DEF m
<1>3. w = [exec EXCEPT !.spl = v]
  OBVIOUS
<1> HIDE DEF v, w
<1> QED
  BY <1>1, <1>2, <1>3, MintAccountInv

LEMMA MintToInv ==
  ASSUME IInv, MintTo, UNCHANGED <<script, flight>>
  PROVE  IInv'
<1> DEFINE m == [exec.spl[Mint] EXCEPT !.minted = @ + 1]
           v == [exec.spl EXCEPT ![Mint] = m]
           e == [exec EXCEPT !.spl = v]
           h == Create(exec.token, Mint, exec.request.owner)
           w == [e EXCEPT !.token = h]
<1>1. /\ Running /\ exec.step = 6
      /\ Take([exec EXCEPT !.spl = v, !.token = h])
      /\ UNCHANGED <<ledger, spl>>
  BY DEF MintTo, AtStep, Take
<1>2. v = Create(spl, Mint, MintBefore(7))
  <2>1. m = MintBefore(7)
    <3>1. exec.spl[Mint] = MintBefore(6) /\ exec.spl[Mint].minted = 0
      BY <1>1, MintField, MintAfter
    <3>2. m = [MintBefore(6) EXCEPT !.minted = 1]
      BY <3>1
    <3> QED
      BY <3>2, MintAfter
  <2> HIDE DEF m
  <2>2. v = Create(spl, Mint, m)
    BY <1>1, MintField
  <2> QED
    BY <2>1, <2>2
<1>3. /\ exec \in Fields(exec)
      /\ exec.nft = Create(nft, Address, RecordOf(exec.request))
      /\ exec.token = token
  BY <1>1, CopiesNow
<1>4. h = Create(token, Mint, exec.request.owner)
  BY <1>3
<1> HIDE DEF m, v, h
<1>5. [exec EXCEPT !.spl = v, !.token = h] = w
  BY <1>3 DEF Fields
<1>6. /\ e \in Fields(e)
      /\ e.request = exec.request /\ e.step = exec.step
      /\ e.coll = exec.coll /\ e.token = exec.token /\ e.nft = exec.nft
      /\ e.spl = v
  BY <1>3, WriteSpl
<1>7. e.token = token
  BY <1>3, <1>6
<1>8. w = [e EXCEPT !.token = h] /\ Take(w)
  BY <1>1, <1>5
<1> HIDE DEF e, w
<1>9. /\ w \in Fields(w)
      /\ w.request = e.request /\ w.step = e.step
      /\ w.coll = e.coll /\ w.nft = e.nft /\ w.spl = e.spl
      /\ w.token = h
  BY <1>6, <1>8, WriteToken
<1>10. /\ exec' \in Fields(exec')
       /\ exec'.request = w.request /\ exec'.step = w.step + 1
       /\ exec'.coll = w.coll /\ exec'.nft = w.nft
       /\ exec'.token = w.token /\ exec'.spl = w.spl
  BY <1>8, <1>9, TakeEffect
<1>11. /\ exec'.request = exec.request /\ exec'.step = exec.step + 1
       /\ exec'.coll = exec.coll /\ exec'.nft = exec.nft
       /\ exec'.token = h /\ exec'.spl = v
  BY <1>6, <1>9, <1>10
<1> QED
  BY <1>1, <1>2, <1>3, <1>4, <1>10, <1>11, AdvanceInv

\* An instruction that fails leaves no trace.
LEMMA AbortInv ==
  ASSUME IInv, Abort, UNCHANGED <<script, flight>>
  PROVE  IInv'
<1>1. ~ Running' /\ UNCHANGED <<ledger, spl, script, flight>>
  BY DEF Abort, Running
<1>2. Pending' \subseteq Pending /\ CopiesSound'
  BY <1>1 DEF Pending, CopiesSound
<1> QED
  BY <1>1, <1>2, ExecInv

\* The fields of a request.
LEMMA RequestFields ==
  ASSUME NEW r \in Request
  PROVE  /\ r.script \in Scripts /\ r.job \in Nat
         /\ r.collection = Target /\ r.payer = Wallet /\ r.owner = Wallet
         /\ r.index \in 0 .. MaxSupply /\ r.mint \in Mints
         /\ r.kind \in MintKinds /\ r.len \in Lens
BY DEF Request

\* The last step makes the eight one MintNft of the registry.
LEMMA CountMints ==
  ASSUME IInv, Count
  PROVE  LET r == exec.request
         IN  /\ Running /\ ~ Running'
             /\ r \in Request /\ r \in Pending
             /\ r.mint \notin DOMAIN token
             /\ Registry!MintNft(r.payer, r.collection, r.owner, r.kind, r.mint, r.len)
             /\ Target \in DOMAIN coll /\ r.index = coll[Target].minted_count
             /\ Registry!IssueRecord(Target, RecordOf(r))
             /\ token' = Create(token, r.mint, r.owner)
             /\ spl' = Create(spl, r.mint, Finished)
             /\ deposits' = deposits
<1> DEFINE r == exec.request
<1>1. /\ Running /\ exec.step = 8
      /\ coll' = [exec.coll EXCEPT ![r.collection].minted_count = @ + 1]
      /\ nft' = exec.nft /\ token' = exec.token /\ spl' = exec.spl
      /\ exec' = NoInstruction /\ deposits' = deposits
  BY DEF Count, AtStep
<1>2. /\ r \in Request
      /\ exec.nft = Create(nft, Address, RecordOf(r))
      /\ exec.token = Create(token, Mint, r.owner)
      /\ exec.spl = Create(spl, Mint, Finished)
  <2>1. /\ exec.nft = Create(nft, Address, RecordOf(r))
        /\ exec.token = Create(token, Mint, r.owner)
        /\ exec.spl = Create(spl, Mint, MintBefore(8))
        /\ r \in Request
    BY <1>1, CopiesNow
  <2> QED
    BY <2>1, MintAfter
<1>3. /\ Admitted(r) /\ exec.coll = coll
      /\ Address \notin DOMAIN nft /\ Address \notin deposits
  BY <1>1 DEF IInv, CopiesSound
<1>4. /\ r \in Pending
      /\ r.mint \notin DOMAIN token
  BY <1>1 DEF Pending, IInv, KeypairsSound
<1>5. /\ r.collection \in DOMAIN coll
      /\ Registry!HasRoom(r.collection)
      /\ coll[r.collection].authority = r.payer
      /\ Address = Registry!NextPda(r.collection)
      /\ r.index = coll[r.collection].minted_count
  BY <1>3 DEF Admitted, Address, Registry!NextPda
<1>6. Registry!IssueRecord(r.collection, RecordOf(r))
  BY <1>1, <1>2, <1>3, <1>5, SameWords DEF Registry!IssueRecord, Registry!Vacant
<1>7. /\ token' = Create(token, r.mint, r.owner)
      /\ spl' = Create(spl, r.mint, Finished)
  BY <1>1, <1>2 DEF Mint
<1>8. Registry!MintNft(r.payer, r.collection, r.owner, r.kind, r.mint, r.len)
  BY <1>1, <1>4, <1>5, <1>6, <1>7, SameWords
     DEF Registry!MintNft, Registry!MayName, RecordOf
<1>9. r.collection = Target
  BY <1>2, RequestFields
<1>10. ~ Running'
  BY <1>1 DEF Running
<1> QED
  BY <1>1, <1>2, <1>4, <1>5, <1>6, <1>7, <1>8, <1>9, <1>10

\* What a mint that lands leaves of the ledger and of the script it is for.
LEMMA LandEffect ==
  ASSUME IInv, Land
  PROVE  LET r == exec.request
             s == r.script
         IN  /\ r \in Request /\ r \in Pending /\ s \in Scripts
             /\ Running /\ ~ Running'
             /\ r.index = coll[Target].minted_count
             /\ Target \in DOMAIN coll
             /\ Registry!TypeOK'
             /\ DOMAIN coll' = DOMAIN coll
             /\ coll'[Target].minted_count = coll[Target].minted_count + 1
             /\ token' = Create(token, r.mint, r.owner)
             /\ spl' = Create(spl, r.mint, Finished)
             /\ script' \in [Scripts -> ScriptState]
             /\ script'[s].got = IF r.job = script[s].job THEN script[s].got + 1
                                 ELSE script[s].got
             /\ script'[s].at = script[s].at /\ script'[s].mint = script[s].mint
             /\ script'[s].index = script[s].index /\ script'[s].job = script[s].job
             /\ script'[s].gaveUp = script[s].gaveUp
             /\ \A x \in Scripts \ {s} : script'[x] = script[x]
             /\ flight' = flight
<1> DEFINE r == exec.request
           s == r.script
           g == IF r.job = script[s].job THEN script[s].got + 1 ELSE script[s].got
           rec == RecordOf(r)
           a == [script[s] EXCEPT !.got = g]
<1>1. /\ Count /\ flight' = flight
      /\ script' = [script EXCEPT ![s] = a]
  BY DEF Land
<1>2. /\ Running /\ ~ Running'
      /\ r \in Request /\ r \in Pending
      /\ Target \in DOMAIN coll /\ r.index = coll[Target].minted_count
      /\ Registry!IssueRecord(Target, rec)
      /\ token' = Create(token, r.mint, r.owner)
      /\ spl' = Create(spl, r.mint, Finished)
      /\ deposits' = deposits
      /\ r.mint \notin DOMAIN token
  BY <1>1, CountMints
<1> HIDE DEF r
<1>3. /\ s \in Scripts /\ r.job \in Nat /\ r.mint \in Mints
      /\ r.owner \in Keys /\ r.kind \in MintKinds /\ r.len \in Lens
      /\ r.payer \in Keys /\ r.collection = Target
  BY <1>2, RequestFields, ClientAssumption
<1>4. rec \in Registry!NftState /\ rec.len <= rec.room /\ rec.mint = r.mint
  <2>1. Registry!FeeRecipientAtMint(r.payer, r.collection, r.kind) \in Keys
    <3>1. coll[Target] \in Registry!CollectionState
      BY <1>2 DEF IInv, TypeOK, Registry!TypeOK
    <3>2. coll[Target].authority \in Keys
      BY <3>1 DEF Registry!CollectionState
    <3>3. coll[r.collection].authority \in Keys /\ r.payer \in Keys
      BY <1>3, <3>2
    <3> QED
      BY <3>3, Zenon DEF Registry!FeeRecipientAtMint
  <2>2. r.kind \in Registry!NftKind /\ r.len <= r.len
    <3>1. r.kind \in Registry!NftKind
      BY <1>3, SameWords, ClientAssumption, Zenon
    <3>2. r.len \in Nat
      BY <1>3, ClientAssumption
    <3> QED
      BY <3>1, <3>2
  <2> QED
    BY <1>3, <2>1, <2>2 DEF RecordOf, Registry!NftState
<1> HIDE DEF rec
<1>5. Registry!TypeOK
  BY DEF IInv, TypeOK
<1>6. /\ DOMAIN coll' = DOMAIN coll
      /\ coll' \in [DOMAIN coll -> Registry!CollectionState]
      /\ coll'[Target].minted_count = coll[Target].minted_count + 1
      /\ DOMAIN nft' = DOMAIN nft \cup {Registry!NextPda(Target)}
      /\ DOMAIN nft' \subseteq Registry!NftPdas
      /\ nft' \in [DOMAIN nft' -> Registry!NftState]
      /\ nft'[Registry!NextPda(Target)] = rec
      /\ \A b \in DOMAIN nft : nft'[b] = nft[b]
      /\ \A b \in DOMAIN nft' : nft'[b].len <= nft'[b].room
  BY <1>2, <1>4, <1>5, IssueTyped
<1>7. /\ DOMAIN token' = DOMAIN token \cup {r.mint}
      /\ token' \in [DOMAIN token' -> Keys \cup {NoHolder}]
  <2>1. token \in [DOMAIN token -> Keys \cup {NoHolder}]
    BY <1>5 DEF Registry!TypeOK
  <2> QED
    BY <1>2, <1>3, <2>1 DEF Create
<1>8. Registry!TypeOK'
  BY <1>2, <1>3, <1>5, <1>6, <1>7 DEF Registry!TypeOK
<1>10. /\ script[s] \in ScriptState /\ script[s].got \in Nat
       /\ script \in [Scripts -> ScriptState]
  BY <1>3, ScriptFields DEF IInv, TypeOK
<1>11. g \in Nat
  BY <1>10
<1>12. g = IF r.job = script[s].job THEN script[s].got + 1 ELSE script[s].got
  OBVIOUS
<1> HIDE DEF g
<1>13. /\ a \in ScriptState /\ a.got = g /\ a.at = script[s].at
       /\ a.mint = script[s].mint /\ a.index = script[s].index
       /\ a.job = script[s].job /\ a.gaveUp = script[s].gaveUp
  BY <1>10, <1>11 DEF ScriptState
<1> HIDE DEF a, s
<1>14. /\ script' \in [Scripts -> ScriptState]
       /\ script'[s] = a
       /\ \A x \in Scripts \ {s} : script'[x] = script[x]
  BY <1>1, <1>3, <1>10, <1>13
<1> QED
  BY <1>1, <1>2, <1>3, <1>6, <1>8, <1>12, <1>13, <1>14 DEF r, s

LEMMA LandInv ==
  ASSUME IInv, Land
  PROVE  IInv'
<1> DEFINE r == exec.request
<1>1. /\ r \in Request /\ r \in Pending
      /\ Running /\ ~ Running'
      /\ Registry!TypeOK'
      /\ token' = Create(token, r.mint, r.owner)
      /\ spl' = Create(spl, r.mint, Finished)
      /\ script' \in [Scripts -> ScriptState]
      /\ flight' = flight
  BY LandEffect
<1>2. r \notin flight
  BY <1>1 DEF IInv, KeypairsSound
<1>3. r.mint \in Mints
  BY <1>1, RequestFields
<1>4. /\ Pending = flight \cup {r} /\ Pending' = flight
      /\ \A q \in Pending : q.mint \notin DOMAIN token
      /\ \A p, q \in Pending : p.mint = q.mint => p = q
  BY <1>1 DEF Pending, IInv, KeypairsSound
<1> HIDE DEF r
<1>5. /\ DOMAIN token' = DOMAIN token \cup {r.mint}
      /\ DOMAIN spl' = DOMAIN spl \cup {r.mint}
      /\ spl'[r.mint] = Finished
      /\ \A m \in DOMAIN spl : m # r.mint => spl'[m] = spl[m]
  BY <1>1 DEF Create
<1>6. WholeMints'
  BY <1>5 DEF IInv, WholeMints
<1>7. TypeOK'
  <2>1. DOMAIN spl' \subseteq Mints
    BY <1>3, <1>5 DEF IInv, TypeOK
  <2>2. Finished \in SplMint
    <3>1. TRUE \in BOOLEAN /\ FALSE \in BOOLEAN /\ 1 \in Nat
      OBVIOUS
    <3> QED
      BY <3>1, Zenon DEF Finished, SplMint
  <2>3. spl' \in [DOMAIN spl' -> SplMint]
    <3>1. spl \in [DOMAIN spl -> SplMint]
      BY DEF IInv, TypeOK
    <3>2. spl' \in [DOMAIN spl \cup {r.mint} -> SplMint]
      BY <1>1, <2>2, <3>1, CreateTyped
    <3> QED
      BY <1>5, <3>2
  <2> QED
    BY <1>1, <2>1, <2>3 DEF IInv, TypeOK
<1>8. CopiesSound'
  BY <1>1 DEF CopiesSound
<1>9. KeypairsSound'
  <2>1. ASSUME NEW q \in Pending'
        PROVE  q.mint \notin DOMAIN token'
    <3>1. q \in Pending /\ q # r /\ r \in Pending
      BY <1>2, <1>4
    <3>2. q.mint # r.mint /\ q.mint \notin DOMAIN token
      BY <1>4, <3>1
    <3> QED
      BY <1>5, <3>2
  <2>2. \A p, q \in Pending' : p.mint = q.mint => p = q
    BY <1>4
  <2> QED
    BY <1>1, <2>1, <2>2 DEF KeypairsSound
<1> QED
  BY <1>6, <1>7, <1>8, <1>9 DEF IInv

LEMMA OthersInv ==
  ASSUME IInv, Others
  PROVE  IInv'
<1>1. OthersFrame
  BY OthersFramed DEF IInv
<1>2. ~ Running /\ ~ Running'
  BY <1>1 DEF OthersFrame, Running
<1>3. TypeOK'
  BY <1>1, <1>2 DEF IInv, TypeOK, OthersFrame
<1>4. WholeMints' /\ CopiesSound'
  BY <1>1, <1>2 DEF IInv, WholeMints, CopiesSound, OthersFrame
<1>5. KeypairsSound'
  <2>1. Pending' = Pending
    BY <1>1, <1>2 DEF Pending, OthersFrame
  <2> QED
    BY <1>1, <1>2, <2>1 DEF IInv, KeypairsSound, OthersFrame
<1> QED
  BY <1>3, <1>4, <1>5 DEF IInv

LEMMA InitInv == Init => IInv
<1> SUFFICES ASSUME Init PROVE IInv
  OBVIOUS
<1>1. /\ coll = NoAccounts /\ nft = NoAccounts /\ token = NoAccounts
      /\ deposits = {} /\ spl = NoAccounts /\ ~ Running /\ flight = {}
      /\ script = [s \in Scripts |-> Between(0, 0, FALSE)]
  BY DEF Init, Registry!Init, Registry!NoAccounts, NoAccounts, Running
<1>2. Registry!TypeOK
  BY <1>1 DEF Registry!TypeOK, NoAccounts
<1>3. script \in [Scripts -> ScriptState]
  <2>1. 0 \in Nat /\ FALSE \in BOOLEAN
    OBVIOUS
  <2>2. Between(0, 0, FALSE) \in ScriptState
    BY <2>1, BetweenTyped
  <2> QED
    BY <1>1, <2>2
<1>4. DOMAIN spl = {} /\ DOMAIN token = {} /\ spl \in [DOMAIN spl -> SplMint]
  BY <1>1 DEF NoAccounts
<1>5. TypeOK
  BY <1>1, <1>2, <1>3, <1>4 DEF TypeOK
<1>6. WholeMints /\ CopiesSound
  BY <1>1, <1>4 DEF WholeMints, CopiesSound
<1>7. KeypairsSound
  BY <1>1 DEF KeypairsSound, Pending
<1> QED
  BY <1>5, <1>6, <1>7 DEF IInv

LEMMA AdvanceStepInv ==
  ASSUME IInv, Step(Advance)
  PROVE  IInv'
<1>1. Advance /\ UNCHANGED <<script, flight>>
  BY DEF Step
<1> QED
  BY <1>1, CreatePdaInv, CreateMintAccountInv, InitializeMintInv,
     CreateMetadataInv, CreateTokenAccountInv, MintToInv, RevokeAuthorityInv
     DEF Advance

LEMMA StepInv ==
  ASSUME IInv, [Next]_vars
  PROVE  IInv'
<1>1. CASE \E s \in Scripts : Read(s)
  <2>1. /\ UNCHANGED chain /\ flight' = flight
        /\ script' \in [Scripts -> ScriptState]
    BY <1>1, ReadEffect
  <2> QED
    BY <2>1, ScriptsInv
<1>2. CASE \E s \in Scripts : Submit(s)
  BY <1>2, SubmitInv
<1>3. CASE \E s \in Scripts : Confirm(s)
  <2>1. /\ UNCHANGED chain /\ flight' = flight
        /\ script' \in [Scripts -> ScriptState]
    BY <1>3, ConfirmEffect
  <2> QED
    BY <2>1, ScriptsInv
<1>4. CASE \E s \in Scripts : Fail(s)
  <2>1. /\ UNCHANGED chain /\ flight' = flight
        /\ script' \in [Scripts -> ScriptState]
    BY <1>4, FailEffect
  <2> QED
    BY <2>1, ScriptsInv
<1>5. CASE \E s \in Scripts : GiveUp(s)
  <2>1. /\ UNCHANGED chain /\ flight' = flight
        /\ script' \in [Scripts -> ScriptState]
    BY <1>5, GiveUpEffect
  <2> QED
    BY <2>1, ScriptsInv
<1>6. CASE \E r \in flight : Drop(r)
  <2>1. /\ UNCHANGED chain /\ flight' \subseteq flight
        /\ script' \in [Scripts -> ScriptState]
    BY <1>6 DEF Drop, IInv, TypeOK
  <2> QED
    BY <2>1, ScriptsInv
<1>7. CASE \E r \in flight : Start(r)
  BY <1>7, StartInv
<1>8. CASE Step(Advance)
  BY <1>8, AdvanceStepInv
<1>9. CASE Land
  BY <1>9, LandInv
<1>10. CASE Step(Abort)
  BY <1>10, AbortInv DEF Step
<1>11. CASE Others
  BY <1>11, OthersInv
<1>12. CASE UNCHANGED vars
  <2>1. /\ UNCHANGED chain /\ flight' \subseteq flight
        /\ script' \in [Scripts -> ScriptState]
    BY <1>12 DEF vars, chain, ledger, IInv, TypeOK
  <2> QED
    BY <2>1, ScriptsInv
<1> QED
  BY <1>1, <1>2, <1>3, <1>4, <1>5, <1>6, <1>7, <1>8, <1>9, <1>10, <1>11, <1>12
     DEF Next

\* In every reachable state a committed mint is a whole one, the copies of an
\* instruction are the ledger with its steps so far, and keypairs are new.
THEOREM ExecutionSound == Spec => []IInv
BY InitInv, StepInv, PTL DEF Spec

-----------------------------------------------------------------------------
(* The registry, where a mint is one step.                                 *)

\* No step but the last of a mint and those of others touches the ledger.
LEMMA LedgerStep ==
  ASSUME IInv, [Next]_vars
  PROVE  Land \/ Others \/ UNCHANGED ledger
<1>1. CASE \E s \in Scripts :
             Read(s) \/ Submit(s) \/ Confirm(s) \/ Fail(s) \/ GiveUp(s)
  <2>1. UNCHANGED chain
    BY <1>1 DEF Read, Submit, Confirm, Fail, GiveUp
  <2> QED
    BY <2>1 DEF chain
<1>2. CASE \E r \in flight : Drop(r) \/ Start(r)
  <2>1. UNCHANGED ledger
    BY <1>2 DEF Drop, chain, Start, Begin
  <2> QED
    BY <2>1
<1>3. CASE Step(Advance)
  BY <1>3 DEF Step, Advance, CreatePda, CreateMintAccount, InitializeMint,
              CreateMetadata, CreateTokenAccount, MintTo, RevokeAuthority, Take
<1>4. CASE Step(Abort)
  BY <1>4 DEF Step, Abort
<1>5. CASE UNCHANGED vars
  BY <1>5 DEF vars
<1> QED
  BY <1>1, <1>2, <1>3, <1>4, <1>5 DEF Next

LEMMA RegistryStep ==
  ASSUME IInv, [Next]_vars
  PROVE  [Registry!Next]_(Registry!vars)
<1>1. CASE Land
  <2> DEFINE r == exec.request
  <2>1. /\ r \in Request
        /\ Registry!MintNft(r.payer, r.collection, r.owner, r.kind, r.mint, r.len)
    BY <1>1, CountMints DEF Land
  <2> HIDE DEF r
  <2>2. /\ r.payer \in Keys /\ r.owner \in Keys /\ r.kind \in MintKinds
        /\ r.len \in Lens /\ r.collection \in Registry!CollPdas
    BY <2>1, RequestFields, ClientAssumption
  <2>3. Registry!AuthorityMints(r.collection)
    BY <2>1, <2>2, RequestFields DEF Registry!AuthorityMints
  <2> QED
    BY <2>2, <2>3 DEF Registry!Next
<1>2. CASE Others
  BY <1>2 DEF Others, Registry!Next
<1>3. CASE UNCHANGED ledger
  BY <1>3 DEF ledger, Registry!vars
<1> QED
  BY <1>1, <1>2, <1>3, LedgerStep

\* With all its steps, failures, retries and stale requests, a mint is one
\* step of the registry: whatever the registry promises holds for the scripts.
THEOREM MintIsOneStep == Spec => ImplementsRegistry
<1>1. Init => Registry!Init
  BY DEF Init
<1>2. IInv /\ [Next]_vars => [Registry!Next]_(Registry!vars)
  BY RegistryStep
<1> QED
  BY <1>1, <1>2, ExecutionSound, PTL DEF Spec, ImplementsRegistry, Registry!Spec

-----------------------------------------------------------------------------
(* Jobs and their requests.                                                *)

\* A request that still may take effect is for an index up to the counter and
\* for one below it once its job is done; unless a run of its job gave up, it
\* is what the script waits for.
RequestSound(r) ==
  LET s == script[r.script]
  IN  /\ Target \in DOMAIN coll
      /\ r.index <= coll[Target].minted_count
      /\ r.job <= s.job
      /\ r.job < s.job => r.index < coll[Target].minted_count
      /\ s.at # "idle" => r.index <= s.index
      /\ ~ s.gaveUp /\ r.job = s.job => s.at = "waiting" /\ s.mint = r.mint

\* A run has read an index up to the counter, and one below it when its mint
\* is there; its keypair is in its own request only; it has an NFT that no run
\* gave up on only while it waits to hear of it.
RunSound(s) ==
  /\ script[s].at # "idle" =>
       Target \in DOMAIN coll /\ script[s].index <= coll[Target].minted_count
  /\ script[s].at = "waiting" =>
       \A r \in Pending : r.mint = script[s].mint =>
         r.script = s /\ r.job = script[s].job
  /\ script[s].at = "waiting" /\ script[s].mint \in DOMAIN spl =>
       script[s].index < coll[Target].minted_count /\ script[s].got >= 1
  /\ ~ script[s].gaveUp /\ script[s].got > 0 =>
       /\ script[s].at = "waiting" /\ script[s].mint \in DOMAIN spl
       /\ script[s].got = 1

JobsSound ==
  /\ \A r \in Pending : RequestSound(r)
  /\ \A s \in Scripts : RunSound(s)

LEMMA CounterTyped ==
  ASSUME IInv, NEW c \in DOMAIN coll
  PROVE  coll[c].minted_count \in Nat
<1>1. coll[c] \in Registry!CollectionState
  BY DEF IInv, TypeOK, Registry!TypeOK
<1> QED
  BY <1>1, ClientAssumption DEF Registry!CollectionState

LEMMA PendingTyped ==
  ASSUME IInv
  PROVE  Pending \subseteq Request
<1>1. Running => exec.request \in Request
  BY DEF IInv, TypeOK, Execution
<1> QED
  BY <1>1 DEF Pending, IInv, TypeOK

\* The scripts do nothing, no request is new, and no counter falls.
LEMMA CalmStep ==
  ASSUME IInv, JobsSound, IInv', script' = script, Pending' \subseteq Pending,
         DOMAIN spl' = DOMAIN spl, DOMAIN coll \subseteq DOMAIN coll',
         \A c \in DOMAIN coll : coll'[c].minted_count >= coll[c].minted_count
  PROVE  JobsSound'
<1>1. Target \in DOMAIN coll =>
        /\ Target \in DOMAIN coll'
        /\ coll[Target].minted_count \in Nat
        /\ coll'[Target].minted_count \in Nat
        /\ coll'[Target].minted_count >= coll[Target].minted_count
  <2>1. coll' \in [DOMAIN coll' -> Registry!CollectionState]
    BY DEF IInv, TypeOK, Registry!TypeOK
  <2>2. Target \in DOMAIN coll' => coll'[Target].minted_count \in Nat
    BY <2>1, ClientAssumption DEF Registry!CollectionState
  <2> QED
    BY <2>2, CounterTyped
<1>2. ASSUME NEW r \in Pending'
      PROVE  RequestSound(r)'
  <2>1. RequestSound(r)
    BY <1>2 DEF JobsSound
  <2>2. r.index \in Nat
    BY <1>2, PendingTyped, RequestFields, ClientAssumption
  <2> QED
    BY <1>1, <2>1, <2>2 DEF RequestSound
<1>3. ASSUME NEW s \in Scripts
      PROVE  RunSound(s)'
  <2>1. RunSound(s)
    BY DEF JobsSound
  <2>2. script[s].index \in Nat
    BY ScriptFields, ClientAssumption DEF IInv
  <2> QED
    BY <1>1, <2>1, <2>2 DEF RunSound
<1> QED
  BY <1>2, <1>3 DEF JobsSound

LEMMA ReadJobs ==
  ASSUME IInv, JobsSound, IInv', NEW s \in Scripts, Read(s)
  PROVE  JobsSound'
<1>1. /\ Target \in DOMAIN coll
      /\ script[s].at = "idle"
      /\ script'[s].at = "read"
      /\ script'[s].index = coll[Target].minted_count
      /\ script'[s].job = script[s].job
      /\ script'[s].got = script[s].got
      /\ script'[s].gaveUp = script[s].gaveUp
      /\ \A t \in Scripts \ {s} : script'[t] = script[t]
      /\ UNCHANGED <<coll, spl, exec, flight>>
  BY ReadEffect DEF chain, ledger
<1>2. Pending' = Pending /\ coll[Target].minted_count \in Nat
  BY <1>1, CounterTyped DEF Pending, Running
<1>3. ASSUME NEW r \in Pending'
      PROVE  RequestSound(r)'
  <2>1. RequestSound(r) /\ r.script \in Scripts /\ r.index \in Nat
    BY <1>2, PendingTyped, RequestFields, ClientAssumption DEF JobsSound
  <2>2. CASE r.script = s
    BY <1>1, <1>2, <2>1, <2>2 DEF RequestSound
  <2>3. CASE r.script # s
    BY <1>1, <2>1, <2>3 DEF RequestSound
  <2> QED
    BY <2>2, <2>3
<1>4. ASSUME NEW t \in Scripts
      PROVE  RunSound(t)'
  <2>1. RunSound(t) /\ RunSound(s)
    BY DEF JobsSound
  <2>2. CASE t = s
    BY <1>1, <1>2, <2>1, <2>2 DEF RunSound
  <2>3. CASE t # s
    BY <1>1, <1>2, <2>1, <2>3 DEF RunSound
  <2> QED
    BY <2>2, <2>3
<1> QED
  BY <1>3, <1>4 DEF JobsSound

LEMMA SubmitJobs ==
  ASSUME IInv, JobsSound, IInv', NEW s \in Scripts, Submit(s)
  PROVE  JobsSound'
<1> DEFINE m == NewKeypair
<1>1. /\ script[s].at = "read"
      /\ Unused # {}
      /\ script'[s].at = "waiting"
      /\ script'[s].mint = m
      /\ script'[s].index = script[s].index
      /\ script'[s].job = script[s].job
      /\ script'[s].got = script[s].got
      /\ script'[s].gaveUp = script[s].gaveUp
      /\ \A t \in Scripts \ {s} : script'[t] = script[t]
      /\ UNCHANGED <<coll, spl, exec>>
  BY SubmitEffect DEF chain, ledger
<1>2. PICK q \in Request :
        /\ flight' = flight \cup {q}
        /\ q.script = s
        /\ q.mint = m
        /\ q.index = script[s].index
        /\ q.job = script[s].job
  BY SubmitEffect
<1>3. /\ \A r \in Pending : r.mint # m
      /\ \A t \in Scripts : script[t].mint # m
      /\ m \notin DOMAIN spl
  BY <1>1, KeypairNew DEF IInv, WholeMints
<1> HIDE DEF m
<1>4. Pending' = Pending \cup {q}
  BY <1>1, <1>2 DEF Pending, Running
<1>5. RunSound(s)
  BY DEF JobsSound
<1>6. /\ Target \in DOMAIN coll
      /\ script[s].index <= coll[Target].minted_count
      /\ coll[Target].minted_count \in Nat
      /\ script[s].index \in Nat /\ script[s].job \in Nat /\ script[s].got \in Nat
  BY <1>1, <1>5, CounterTyped, ScriptFields, ClientAssumption DEF RunSound, IInv
<1>7. ASSUME NEW r \in Pending'
      PROVE  RequestSound(r)'
  <2>1. CASE r = q
    BY <1>1, <1>2, <1>6, <2>1 DEF RequestSound
  <2>2. CASE r \in Pending
    <3>1. RequestSound(r) /\ r.script \in Scripts
      BY <2>2, PendingTyped, RequestFields DEF JobsSound
    <3>2. CASE r.script = s
      BY <1>1, <3>1, <3>2 DEF RequestSound
    <3>3. CASE r.script # s
      BY <1>1, <3>1, <3>3 DEF RequestSound
    <3> QED
      BY <3>2, <3>3
  <2> QED
    BY <1>4, <2>1, <2>2
<1>8. ASSUME NEW t \in Scripts
      PROVE  RunSound(t)'
  <2>1. RunSound(t)
    BY DEF JobsSound
  <2>2. CASE t = s
    BY <1>1, <1>2, <1>3, <1>4, <1>5, <1>6, <2>2 DEF RunSound
  <2>3. CASE t # s
    BY <1>1, <1>2, <1>3, <1>4, <2>1, <2>3 DEF RunSound
  <2> QED
    BY <2>2, <2>3
<1> QED
  BY <1>7, <1>8 DEF JobsSound

\* A run that comes to its end without its NFT.
LEMMA FailJobs ==
  ASSUME IInv, JobsSound, IInv', NEW s \in Scripts, Fail(s) \/ GiveUp(s)
  PROVE  JobsSound'
<1>1. /\ script[s].at = "waiting"
      /\ script'[s].at = "idle"
      /\ script'[s].job = script[s].job
      /\ script'[s].got = script[s].got
      /\ \A t \in Scripts \ {s} : script'[t] = script[t]
      /\ UNCHANGED <<coll, spl, exec, flight>>
  BY FailEffect, GiveUpEffect DEF chain, ledger, Waiting
<1>2. \/ script'[s].gaveUp
      \/ /\ script'[s].gaveUp = script[s].gaveUp
         /\ script[s].mint \notin DOMAIN spl
         /\ \A r \in Pending : r.mint # script[s].mint
  BY FailEffect, GiveUpEffect
<1>3. Pending' = Pending
  BY <1>1 DEF Pending, Running
<1>4. ASSUME NEW r \in Pending'
      PROVE  RequestSound(r)'
  <2>1. r \in Pending /\ RequestSound(r) /\ r.script \in Scripts
    BY <1>3, PendingTyped, RequestFields DEF JobsSound
  <2>2. CASE r.script = s
    BY <1>1, <1>2, <2>1, <2>2 DEF RequestSound
  <2>3. CASE r.script # s
    BY <1>1, <2>1, <2>3 DEF RequestSound
  <2> QED
    BY <2>2, <2>3
<1>5. ASSUME NEW t \in Scripts
      PROVE  RunSound(t)'
  <2>1. RunSound(t) /\ RunSound(s)
    BY DEF JobsSound
  <2>2. CASE t = s
    BY <1>1, <1>2, <1>3, <2>1, <2>2 DEF RunSound
  <2>3. CASE t # s
    BY <1>1, <1>3, <2>1, <2>3 DEF RunSound
  <2> QED
    BY <2>2, <2>3
<1> QED
  BY <1>4, <1>5 DEF JobsSound

\* When a job is done, the requests of its runs are too late.
LEMMA ConfirmJobs ==
  ASSUME IInv, JobsSound, IInv', NEW s \in Scripts, Confirm(s)
  PROVE  JobsSound'
<1>1. /\ script[s].at = "waiting"
      /\ script[s].mint \in DOMAIN spl
      /\ script'[s].at = "idle"
      /\ script'[s].job = script[s].job + 1
      /\ script'[s].got = 0
      /\ \A t \in Scripts \ {s} : script'[t] = script[t]
      /\ UNCHANGED <<coll, spl, exec, flight>>
  BY ConfirmEffect DEF chain, ledger, Waiting
<1>2. Pending' = Pending
  BY <1>1 DEF Pending, Running
<1>3. /\ script[s].index < coll[Target].minted_count
      /\ Target \in DOMAIN coll
      /\ coll[Target].minted_count \in Nat
      /\ script[s].index \in Nat /\ script[s].job \in Nat
  BY <1>1, CounterTyped, ScriptFields, ClientAssumption DEF JobsSound, RunSound, IInv
<1>4. ASSUME NEW r \in Pending'
      PROVE  RequestSound(r)'
  <2>1. /\ RequestSound(r) /\ r.script \in Scripts
        /\ r.index \in Nat /\ r.job \in Nat
    BY <1>2, PendingTyped, RequestFields, ClientAssumption DEF JobsSound
  <2>2. CASE r.script = s
    BY <1>1, <1>3, <2>1, <2>2 DEF RequestSound
  <2>3. CASE r.script # s
    BY <1>1, <2>1, <2>3 DEF RequestSound
  <2> QED
    BY <2>2, <2>3
<1>5. ASSUME NEW t \in Scripts
      PROVE  RunSound(t)'
  <2>1. RunSound(t)
    BY DEF JobsSound
  <2>2. CASE t = s
    BY <1>1, <2>2 DEF RunSound
  <2>3. CASE t # s
    BY <1>1, <1>2, <2>1, <2>3 DEF RunSound
  <2> QED
    BY <2>2, <2>3
<1> QED
  BY <1>4, <1>5 DEF JobsSound

\* The mint that lands is the one its script waits for, or one that a run gave
\* up, and it is the first of its keypair.
LEMMA LandJobs ==
  ASSUME IInv, JobsSound, IInv', Land
  PROVE  JobsSound'
<1> DEFINE r == exec.request
           s == r.script
           n == coll[Target].minted_count
<1>1. /\ r \in Request /\ r \in Pending /\ s \in Scripts
      /\ Running /\ ~ Running'
      /\ r.index = n /\ Target \in DOMAIN coll
      /\ DOMAIN coll' = DOMAIN coll
      /\ coll'[Target].minted_count = n + 1
      /\ spl' = Create(spl, r.mint, Finished)
      /\ script'[s].got = IF r.job = script[s].job THEN script[s].got + 1
                          ELSE script[s].got
      /\ script'[s].at = script[s].at /\ script'[s].mint = script[s].mint
      /\ script'[s].index = script[s].index /\ script'[s].job = script[s].job
      /\ script'[s].gaveUp = script[s].gaveUp
      /\ \A x \in Scripts \ {s} : script'[x] = script[x]
      /\ flight' = flight
  BY LandEffect
<1>2. n \in Nat
  BY <1>1, CounterTyped
<1>3. Pending' \subseteq Pending
  BY <1>1 DEF Pending
<1>4. /\ DOMAIN spl' = DOMAIN spl \cup {r.mint}
      /\ r.mint \notin DOMAIN spl
  <2>1. r.mint \notin DOMAIN spl
    BY <1>1 DEF IInv, KeypairsSound, WholeMints
  <2>2. DOMAIN spl' = DOMAIN spl \cup {r.mint}
    BY <1>1, Zenon DEF Create
  <2> QED
    BY <2>1, <2>2
<1>5. r.script = s
  OBVIOUS
<1> HIDE DEF r, s, n
<1>6. /\ RequestSound(r) /\ RunSound(s)
      /\ script[s].got \in Nat
  BY <1>1, ScriptFields DEF JobsSound, IInv
<1>7. ASSUME NEW q \in Pending'
      PROVE  RequestSound(q)'
  <2>1. RequestSound(q) /\ q.script \in Scripts /\ q.index \in Nat
    BY <1>3, PendingTyped, RequestFields, ClientAssumption DEF JobsSound
  <2>2. /\ script'[q.script].at = script[q.script].at
        /\ script'[q.script].mint = script[q.script].mint
        /\ script'[q.script].index = script[q.script].index
        /\ script'[q.script].job = script[q.script].job
        /\ script'[q.script].gaveUp = script[q.script].gaveUp
    BY <1>1, <2>1
  <2> QED
    BY <1>1, <1>2, <2>1, <2>2 DEF RequestSound, n
<1>8. ASSUME NEW t \in Scripts
      PROVE  RunSound(t)'
  <2>1. RunSound(t) /\ script[t].index \in Nat /\ script[t].got \in Nat
    BY ScriptFields, ClientAssumption DEF JobsSound, IInv
  <2>2. /\ script'[t].at = script[t].at
        /\ script'[t].mint = script[t].mint
        /\ script'[t].index = script[t].index
        /\ script'[t].job = script[t].job
        /\ script'[t].gaveUp = script[t].gaveUp
    BY <1>1
  <2>3. \/ script'[t].got = script[t].got
        \/ t = s /\ r.job = script[t].job /\ script'[t].got = script[t].got + 1
    BY <1>1
  <2>4. t = s /\ r.job = script[s].job => script'[t].got = script[t].got + 1
    BY <1>1
  <2>5. script[t].at # "idle" =>
          /\ Target \in DOMAIN coll'
          /\ script[t].index < coll'[Target].minted_count
          /\ script[t].index <= coll'[Target].minted_count
    BY <1>1, <1>2, <2>1 DEF RunSound, n
  <2>6. script[t].at = "waiting" =>
          \A q \in Pending' : q.mint = script[t].mint =>
            q.script = t /\ q.job = script[t].job
    BY <1>3, <2>1 DEF RunSound
  <2>7. ASSUME script[t].at = "waiting", script[t].mint \in DOMAIN spl'
        PROVE  script'[t].got >= 1
    <3>1. CASE script[t].mint \in DOMAIN spl
      BY <2>1, <2>3, <2>7, <3>1 DEF RunSound
    <3>2. CASE script[t].mint = r.mint
      <4>1. r.script = t /\ r.job = script[t].job
        BY <1>1, <2>1, <2>7, <3>2 DEF RunSound
      <4> QED
        BY <1>5, <2>1, <2>4, <4>1
    <3> QED
      BY <1>4, <2>7, <3>1, <3>2
  <2>8. ASSUME ~ script[t].gaveUp, script'[t].got > 0
        PROVE  /\ script[t].at = "waiting" /\ script[t].mint \in DOMAIN spl'
               /\ script'[t].got = 1
    <3>1. CASE script'[t].got = script[t].got
      BY <1>4, <2>1, <2>8, <3>1 DEF RunSound
    <3>2. CASE t = s /\ r.job = script[t].job /\ script'[t].got = script[t].got + 1
      <4>1. script[t].at = "waiting" /\ script[t].mint = r.mint
        BY <1>5, <1>6, <2>8, <3>2 DEF RequestSound
      <4>2. ~ script[t].got > 0
        BY <1>4, <2>1, <2>8, <4>1 DEF RunSound
      <4> QED
        BY <1>4, <2>1, <3>2, <4>1, <4>2
    <3> QED
      BY <2>3, <3>1, <3>2
  <2>9. /\ script'[t].at # "idle" =>
             Target \in DOMAIN coll' /\ script'[t].index <= coll'[Target].minted_count
        /\ script'[t].at = "waiting" /\ script'[t].mint \in DOMAIN spl' =>
             script'[t].index < coll'[Target].minted_count /\ script'[t].got >= 1
    BY <2>2, <2>5, <2>7
  <2>10. script'[t].at = "waiting" =>
           \A q \in Pending' : q.mint = script'[t].mint =>
             q.script = t /\ q.job = script'[t].job
    BY <2>2, <2>6
  <2>11. ~ script'[t].gaveUp /\ script'[t].got > 0 =>
           /\ script'[t].at = "waiting" /\ script'[t].mint \in DOMAIN spl'
           /\ script'[t].got = 1
    BY <2>2, <2>8
  <2> QED
    BY <2>9, <2>10, <2>11 DEF RunSound
<1> QED
  BY <1>7, <1>8 DEF JobsSound

LEMMA JobsInit == Init => JobsSound
<1> SUFFICES ASSUME Init PROVE JobsSound
  OBVIOUS
<1>1. /\ ~ Running /\ flight = {}
      /\ script = [s \in Scripts |-> Between(0, 0, FALSE)]
  BY DEF Init, Running
<1>2. Pending = {}
  BY <1>1 DEF Pending
<1>3. \A s \in Scripts : script[s].at = "idle" /\ script[s].got = 0
  BY <1>1 DEF Between
<1> QED
  BY <1>2, <1>3 DEF JobsSound, RunSound

LEMMA JobsStep ==
  ASSUME IInv, JobsSound, [Next]_vars
  PROVE  JobsSound'
<1>1. IInv'
  BY StepInv
<1>2. CASE \E s \in Scripts : Read(s)
  BY <1>1, <1>2, ReadJobs
<1>3. CASE \E s \in Scripts : Submit(s)
  BY <1>1, <1>3, SubmitJobs
<1>4. CASE \E s \in Scripts : Confirm(s)
  BY <1>1, <1>4, ConfirmJobs
<1>5. CASE \E s \in Scripts : Fail(s) \/ GiveUp(s)
  BY <1>1, <1>5, FailJobs
<1>6. CASE Land
  BY <1>1, <1>6, LandJobs
<1>7. CASE Others
  <2>1. OthersFrame
    BY <1>7, OthersFramed DEF IInv
  <2>2. /\ script' = script /\ Pending' \subseteq Pending
        /\ DOMAIN spl' = DOMAIN spl /\ DOMAIN coll \subseteq DOMAIN coll'
        /\ \A c \in DOMAIN coll : coll'[c].minted_count >= coll[c].minted_count
    BY <2>1 DEF OthersFrame, Pending, Running
  <2> QED
    BY <1>1, <2>2, CalmStep
<1>8. ASSUME UNCHANGED <<ledger, spl, script>>, Pending' \subseteq Pending
      PROVE  JobsSound'
  <2>1. /\ script' = script /\ DOMAIN spl' = DOMAIN spl
        /\ DOMAIN coll \subseteq DOMAIN coll' /\ coll' = coll
    BY <1>8 DEF ledger
  <2>2. \A c \in DOMAIN coll : coll'[c].minted_count >= coll[c].minted_count
    BY <2>1, CounterTyped
  <2> QED
    BY <1>1, <1>8, <2>1, <2>2, CalmStep
<1>9. CASE \E r \in flight : Drop(r)
  BY <1>8, <1>9 DEF Drop, chain, Pending, Running
<1>10. CASE \E r \in flight : Start(r)
  <2>1. PICK r \in flight : Start(r)
    BY <1>10
  <2>2. /\ exec'.request = r /\ flight' \subseteq flight
        /\ UNCHANGED <<ledger, spl, script>>
    BY <2>1 DEF Start, Begin
  <2>3. Pending' \subseteq Pending
    BY <2>2 DEF Pending
  <2> QED
    BY <1>8, <2>2, <2>3
<1>11. CASE Step(Advance)
  <2>1. UNCHANGED <<ledger, spl, script, flight>> /\ Running
    BY <1>11 DEF Step, Advance, CreatePda, CreateMintAccount, InitializeMint,
       CreateMetadata, CreateTokenAccount, MintTo, RevokeAuthority, Take, AtStep
  <2>2. exec'.request = exec.request
    <3>1. exec \in Fields(exec)
      BY <2>1, CopiesNow
    <3>2. exec'.request = exec.request
      BY <1>11, <3>1
         DEF Fields, Step, Advance, CreatePda, CreateMintAccount, InitializeMint,
             CreateMetadata, CreateTokenAccount, MintTo, RevokeAuthority, Take
    <3> QED
      BY <3>2
  <2>3. Pending' \subseteq Pending
    BY <2>1, <2>2 DEF Pending
  <2> QED
    BY <1>8, <2>1, <2>3
<1>12. CASE Step(Abort)
  <2>1. ~ Running' /\ UNCHANGED <<ledger, spl, script, flight>>
    BY <1>12 DEF Step, Abort, Running
  <2> QED
    BY <1>8, <2>1 DEF Pending
<1>13. CASE UNCHANGED vars
  BY <1>8, <1>13 DEF vars, Pending, Running
<1> QED
  BY <1>2, <1>3, <1>4, <1>5, <1>6, <1>7, <1>9, <1>10, <1>11, <1>12, <1>13 DEF Next

LEMMA JobsInvariant == Spec => [](IInv /\ JobsSound)
<1>1. Init => IInv /\ JobsSound
  BY InitInv, JobsInit
<1>2. IInv /\ JobsSound /\ [Next]_vars => (IInv /\ JobsSound)'
  BY StepInv, JobsStep
<1> QED
  BY <1>1, <1>2, PTL DEF Spec

\* An instruction that runs is for the job its script is at: when a job is
\* done, the counter has passed the index of every request that was given up.
THEOREM NothingLate == Spec => []NothingLandsLate
<1>1. IInv /\ JobsSound => NothingLandsLate
  <2> SUFFICES ASSUME IInv, JobsSound, Running
               PROVE  exec.request.job = script[exec.request.script].job
    BY DEF NothingLandsLate
  <2> DEFINE r == exec.request
  <2>1. r \in Pending /\ Admitted(r)
    BY DEF Pending, IInv, CopiesSound
  <2> HIDE DEF r
  <2>2. RequestSound(r) /\ r \in Request
    BY <2>1, PendingTyped DEF JobsSound
  <2>3. /\ r.collection = Target /\ r.job \in Nat /\ r.index \in Nat
        /\ script[r.script].job \in Nat
    BY <2>2, RequestFields, ScriptFields, ClientAssumption DEF IInv
  <2>4. r.index = coll[Target].minted_count
    BY <2>1, <2>3 DEF Admitted, Registry!NextPda
  <2>5. r.job = script[r.script].job
    BY <2>2, <2>3, <2>4 DEF RequestSound
  <2> QED
    BY <2>5 DEF r
<1> QED
  BY <1>1, JobsInvariant, PTL

\* A job ends only when it got its NFT, and one that got a second NFT had a
\* run that gave up waiting.
THEOREM OneForAJob == Spec => OneNftForAJob
<1>1. ASSUME IInv, JobsSound, [Next]_vars, NEW s \in Scripts,
             script'[s].job # script[s].job
      PROVE  script[s].got >= 1 /\ (script[s].got > 1 => script[s].gaveUp)
  <2>1. Confirm(s)
    <3>1. ASSUME NEW t \in Scripts, Read(t) \/ Submit(t) \/ Fail(t) \/ GiveUp(t)
          PROVE  FALSE
      BY <1>1, <3>1, ReadEffect, SubmitEffect, FailEffect, GiveUpEffect
    <3>2. ASSUME NEW t \in Scripts, Confirm(t)
          PROVE  t = s
      BY <1>1, <3>2, ConfirmEffect
    <3>3. ~ Land
      BY <1>1, LandEffect
    <3>4. script' # script
      BY <1>1
    <3>5. ~ Others /\ ~ Step(Advance) /\ ~ Step(Abort) /\ ~ UNCHANGED vars
      BY <3>4 DEF Others, Step, vars
    <3>6. ~ \E r \in flight : Drop(r) \/ Start(r)
      BY <3>4 DEF Drop, Start
    <3> QED
      BY <1>1, <3>1, <3>2, <3>3, <3>5, <3>6 DEF Next
  <2>2. RunSound(s) /\ script[s].got \in Nat
    BY <1>1, ScriptFields DEF JobsSound, IInv
  <2>3. script[s].at = "waiting" /\ script[s].mint \in DOMAIN spl
    BY <1>1, <2>1, ConfirmEffect DEF Waiting
  <2> QED
    BY <2>2, <2>3 DEF RunSound
<1>2. IInv /\ JobsSound /\ [Next]_vars =>
        [\A s \in Scripts : script'[s].job # script[s].job =>
           /\ script[s].got >= 1
           /\ script[s].got > 1 => script[s].gaveUp]_vars
  BY <1>1
<1> QED
  BY <1>2, JobsInvariant, PTL DEF Spec, OneNftForAJob
=============================================================================
