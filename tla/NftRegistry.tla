---------------------------- MODULE NftRegistry -----------------------------
(***************************************************************************)
(* The registry of the on-chain program: which collections and NFT records *)
(* exist, who owns them, and the SPL token behind each record.  One action *)
(* is one instruction that commits; an instruction that returns an error   *)
(* is rolled back by the runtime and leaves every account as it was.       *)
(*                                                                         *)
(* Accounts are named by what their address is derived from: a collection  *)
(* by <<creator, collection_id>>, an NFT by <<collection, mint_index>>.    *)
(* Most handlers compare the other accounts they are given neither with    *)
(* the record nor with each other; OwnAccounts is about those.             *)
(* That an account may read as both a collection and a record, without     *)
(* which no clone commits, is left to CloneTreasury.                       *)
(***************************************************************************)
EXTENDS NftTypes

CONSTANTS
  Keys,          \* wallet public keys: authorities, owners, senders
  Creators,      \* the keys that initialise collections
  CollectionIds, \* values of collection_id
  Mints,         \* keys of SPL mints
  MintKinds,     \* the kinds asked for in MintNft and AutoMint
  MaxSupply,     \* bound on total_supply
  Lens,          \* encoded lengths of an NFT record
  MetadataUpdates,
                 \* whether Metaplex carries out the UpdateV1 of an UpdateNft;
                 \* the code names neither its mint nor its payer: FALSE as built
  OwnAccounts,   \* whether callers give a handler the accounts that belong
                 \* together: a record with its own mint, token and
                 \* collection, the new owner's wallet, a mint key nobody
                 \* used.  FALSE as built, where no handler compares them
  NoHolder       \* in place of the holder of a burned token

ASSUME CreatorsAssumption == Creators \subseteq Keys
ASSUME KindsAssumption == MintKinds \subseteq NftKind
ASSUME SupplyAssumption == MaxSupply \in Nat
ASSUME LensAssumption == Lens \subseteq Nat
ASSUME MetadataAssumption == MetadataUpdates \in BOOLEAN
ASSUME AccountsAssumption == OwnAccounts \in BOOLEAN
ASSUME NoHolderAssumption == NoHolder \notin Keys

CollPdas == Creators \X CollectionIds
Indexes == 0 .. MaxSupply - 1
NftPdas == CollPdas \X Indexes

VARIABLES
  coll,     \* collection accounts: CollPdas, those initialised -> CollectionState
  nft,      \* NFT accounts: NftPdas, those that exist -> NftState
  token,    \* SPL mints created -> the key whose ATA holds the one token
  deposits  \* NFT addresses that hold lamports beyond the record's rent

vars == <<coll, nft, token, deposits>>

CollectionState ==
  [authority: Keys, total_supply: 0 .. MaxSupply, minted_count: 0 .. MaxSupply]

\* room is the size the account was created with, len the length of the
\* encoding last written into it.
NftState ==
  [kind: NftKind, mint: Mints, owner: Keys, fee_recipient: Keys,
   can_fraction: BOOLEAN, len: Lens, room: Lens]

-----------------------------------------------------------------------------
(* What the handlers ask of the accounts they are given.                   *)

ReadableFault(a) == a \in DOMAIN nft /\ nft[a].len <= nft[a].room

\* NftState::try_from_slice succeeds: it fails on an account that does not
\* exist, and on one with bytes left over behind the encoding.
Readable(a) == a \in DOMAIN nft /\ nft[a].len = nft[a].room

\* serialize into the account: it fails on an encoding longer than the account.
Fits(a, len) == len <= nft[a].room

VacantFault(a) == a \notin DOMAIN nft

\* create_pda_account refuses an address that holds data or lamports.
Vacant(a) == a \notin DOMAIN nft /\ a \notin deposits

NextPda(c) == <<c, coll[c].minted_count>>

HasRoom(c) == coll[c].minted_count < coll[c].total_supply

\* No SPL mint and no record has the key m.
Fresh(m) == m \notin DOMAIN token /\ \A a \in DOMAIN nft : nft[a].mint # m

\* A mint key a caller may name for a new record.
MayName(m) == OwnAccounts => Fresh(m)

SpendFault(a, to) == UNCHANGED token

\* The token program moves one token of the record's owner to another wallet,
\* or burns it.  Which token is the caller's choice; it may be one of another
\* program's making.
Spend(a, to) ==
  \/ ~ OwnAccounts /\ UNCHANGED token
  \/ \E m \in DOMAIN token :
       /\ OwnAccounts => m = nft[a].mint
       /\ token[m] = nft[a].owner
       /\ token' = [token EXCEPT ![m] = to]

\* The account given as the trigger of an auto-mint in collection c reads as
\* an AddressV6 record with a text of this length at least.  It need be
\* neither of that collection nor of this program.
Triggers(c, len) ==
  \/ ~ OwnAccounts
  \/ \E trigger \in DOMAIN nft :
       /\ trigger[1] = c
       /\ Readable(trigger)
       /\ nft[trigger].kind = "AddressV6"
       /\ len <= nft[trigger].len

\* The recipient of fees is chosen when the record is created.
FeeRecipientAtMint(payer, c, kind) ==
  IF kind = "AddressV5" THEN payer ELSE coll[c].authority

IssueRecordFault(c, state) ==
  /\ c \in DOMAIN coll
  /\ HasRoom(c)
  /\ Vacant(NextPda(c))
  /\ nft' = Create(nft, NextPda(c), state)
  /\ UNCHANGED coll

\* Create the NFT account with the collection's next index and count it.
IssueRecord(c, state) ==
  /\ c \in DOMAIN coll
  /\ HasRoom(c)
  /\ Vacant(NextPda(c))
  /\ nft' = Create(nft, NextPda(c), state)
  /\ coll' = [coll EXCEPT ![c].minted_count = @ + 1]

-----------------------------------------------------------------------------
(* The program's instructions.                                             *)

InitializeCollection(k, id, supply) ==
  /\ <<k, id>> \notin DOMAIN coll
  /\ coll' = Create(coll, <<k, id>>,
               [authority |-> k, total_supply |-> supply, minted_count |-> 0])
  /\ UNCHANGED <<nft, token, deposits>>

\* The mint key signs, and its account is created.
MintNft(payer, c, owner, kind, m, len) ==
  /\ m \notin DOMAIN token
  /\ MayName(m)
  /\ IssueRecord(c, [kind |-> kind, mint |-> m, owner |-> owner,
                     fee_recipient |-> FeeRecipientAtMint(payer, c, kind),
                     can_fraction |-> (kind = "AddressV4Fraction"),
                     len |-> len, room |-> len])
  /\ coll[c].authority = payer
  /\ token' = Create(token, m, owner)
  /\ UNCHANGED deposits

\* The new record copies the trigger's text, not its list of children, and
\* names a mint key that need not sign, and for which no SPL mint is created.
AutoMint(sender, c, kind, m, len) ==
  /\ Triggers(c, len)
  /\ MayName(m)
  /\ IssueRecord(c, [kind |-> kind, mint |-> m, owner |-> sender,
                     fee_recipient |-> sender, can_fraction |-> FALSE,
                     len |-> len, room |-> len])
  /\ UNCHANGED <<token, deposits>>

TransferFault(a, new_owner, to) ==
  /\ Readable(a)
  /\ Spend(a, to)
  /\ nft' = [nft EXCEPT ![a].owner = new_owner]
  /\ UNCHANGED <<coll, deposits>>

\* Transfer of a record that is not handed over to process_clone_nft (see
\* CloneTreasury).  The new owner is an argument, the wallet that gets the
\* token an account.
Transfer(a, new_owner, to) ==
  /\ Readable(a)
  /\ nft[a].kind \notin {"SBT"} \cup CloneKinds
  /\ OwnAccounts => to = new_owner
  /\ Spend(a, to)
  /\ nft' = [nft EXCEPT ![a].owner = new_owner]
  /\ UNCHANGED <<coll, deposits>>

BurnNftFault(a) ==
  /\ Readable(a)
  /\ nft[a].kind # "SBT"
  /\ Spend(a, NoHolder)
  /\ nft' = Purge(nft, a)
  /\ coll' = [coll EXCEPT ![a[1]].minted_count = @ - 1]
  /\ deposits' = deposits \ {a}

\* The account loses all its lamports to the owner and so ceases to exist.
BurnNft(a) ==
  /\ Readable(a)
  /\ nft[a].kind # "SBT"
  /\ nft[a].kind \in StorageKinds => a \notin deposits
  /\ Spend(a, NoHolder)
  /\ nft' = Purge(nft, a)
  /\ deposits' = deposits \ {a}
  /\ UNCHANGED coll

\* A record is read, changed, and written back with length `len`.
Rewrite(a, len) ==
  /\ Readable(a)
  /\ Fits(a, len)
  /\ nft' = [nft EXCEPT ![a].len = len]
  /\ UNCHANGED <<coll, token, deposits>>

\* The handler asks for the authority of an account that reads as a collection,
\* any such account.  A new text (name, symbol, uri) changes the length, and
\* Metaplex is told; a new target or fee changes neither.
UpdateNft(authority, a, len) ==
  /\ OwnAccounts => coll[a[1]].authority = authority
  /\ len # nft[a].len => MetadataUpdates
  /\ Rewrite(a, len)

\* The owner writes another list of children.
UpdateFractions(a, len) ==
  /\ nft[a].kind = "AddressV4Fraction"
  /\ nft[a].can_fraction
  /\ Rewrite(a, len)

TransferCollection(authority, c, new_authority) ==
  /\ c \in DOMAIN coll
  /\ coll[c].authority = authority
  /\ coll' = [coll EXCEPT ![c].authority = new_authority]
  /\ UNCHANGED <<nft, token, deposits>>

\* This and Withdraw take all the lamports beyond the record's rent.
ProxyForward(a) ==
  /\ Readable(a)
  /\ nft[a].kind \in ForwardKinds
  /\ a \in deposits
  /\ deposits' = deposits \ {a}
  /\ UNCHANGED <<coll, nft, token>>

Withdraw(a) ==
  /\ Readable(a)
  /\ nft[a].kind \in WithdrawKinds
  /\ a \in deposits
  /\ deposits' = deposits \ {a}
  /\ UNCHANGED <<coll, nft, token>>

\* The owner of a pool takes a share of these lamports, or all of them.
ClaimParentShare(a) ==
  /\ Readable(a)
  /\ nft[a].kind = "AddressV4Fraction"
  /\ a \in deposits
  /\ deposits' \in {deposits, deposits \ {a}}
  /\ UNCHANGED <<coll, nft, token>>

-----------------------------------------------------------------------------
(* What others do on the same ledger, without the program.                 *)

\* Anyone pays lamports to an NFT's address, before, during or after the
\* time a record lives there.
Deposit(a) ==
  /\ deposits' = deposits \cup {a}
  /\ UNCHANGED <<coll, nft, token>>

\* The holder sends the SPL token to another wallet with the token program.
WalletTransfer(m, to) ==
  /\ token[m] # NoHolder
  /\ token' = [token EXCEPT ![m] = to]
  /\ UNCHANGED <<coll, nft, deposits>>

-----------------------------------------------------------------------------
Init ==
  /\ coll = NoAccounts
  /\ nft = NoAccounts
  /\ token = NoAccounts
  /\ deposits = {}

AuthorityMints(c) ==
  \E payer, owner \in Keys, kind \in MintKinds, m \in Mints, len \in Lens :
    MintNft(payer, c, owner, kind, m, len)

SenderMints(c) ==
  \E sender \in Keys, kind \in MintKinds, m \in Mints, len \in Lens :
    AutoMint(sender, c, kind, m, len)

\* All but the mints of a collection's authority.
Others ==
  \/ \E k \in Creators, id \in CollectionIds, supply \in 0 .. MaxSupply :
       InitializeCollection(k, id, supply)
  \/ \E c \in CollPdas : SenderMints(c)
  \/ \E a \in DOMAIN nft, new_owner, to \in Keys : Transfer(a, new_owner, to)
  \/ \E a \in DOMAIN nft : BurnNft(a)
  \/ \E k \in Keys, a \in DOMAIN nft, len \in Lens : UpdateNft(k, a, len)
  \/ \E a \in DOMAIN nft, len \in Lens : UpdateFractions(a, len)
  \/ \E k, new \in Keys, c \in CollPdas : TransferCollection(k, c, new)
  \/ \E a \in DOMAIN nft : ProxyForward(a)
  \/ \E a \in DOMAIN nft : Withdraw(a)
  \/ \E a \in DOMAIN nft : ClaimParentShare(a)
  \/ \E a \in NftPdas : Deposit(a)
  \/ \E m \in DOMAIN token, to \in Keys : WalletTransfer(m, to)

Next == (\E c \in CollPdas : AuthorityMints(c)) \/ Others

Spec == Init /\ [][Next]_vars

\* The authority of a collection goes on minting while it can.
FairSpec == Spec /\ \A c \in CollPdas : WF_vars(AuthorityMints(c))
-----------------------------------------------------------------------------
(* Type correctness.                                                       *)

\* Every account holds what the code writes into an account of its type, and
\* no encoding is longer than the account it was written into.
TypeOK ==
  /\ DOMAIN coll \subseteq CollPdas
  /\ coll \in [DOMAIN coll -> CollectionState]
  /\ DOMAIN nft \subseteq NftPdas
  /\ nft \in [DOMAIN nft -> NftState]
  /\ \A a \in DOMAIN nft : nft[a].len <= nft[a].room
  /\ DOMAIN token \subseteq Mints
  /\ token \in [DOMAIN token -> Keys \cup {NoHolder}]
  /\ deposits \subseteq NftPdas

-----------------------------------------------------------------------------
(* Safety.                                                                 *)

\* A collection never counts more NFTs than its total_supply, and a record
\* lives only at an index the counter has passed (mint, auto-mint and burn
\* together keep it so: a burn frees no index).
CounterCoversRecords ==
  /\ \A c \in DOMAIN coll : coll[c].minted_count <= coll[c].total_supply
  /\ \A a \in DOMAIN nft :
       a[1] \in DOMAIN coll /\ a[2] < coll[a[1]].minted_count

\* The inductive invariant.
IInv == TypeOK /\ CounterCoversRecords

\* Two records never name the same SPL mint.
MintsDistinct ==
  \A a, b \in DOMAIN nft : nft[a].mint = nft[b].mint => a = b

\* A token in some wallet has a record, and the token of a record was not
\* burned.
TokensMatchRecords ==
  /\ \A m \in DOMAIN token :
       token[m] # NoHolder => \E a \in DOMAIN nft : nft[a].mint = m
  /\ \A a \in DOMAIN nft :
       nft[a].mint \in DOMAIN token => token[nft[a].mint] # NoHolder

\* Where callers send the accounts that belong together, records and tokens
\* live and die together, also when tokens move in wallets and auto-mints
\* name keys without a token.  (The handlers alone do not see to it.)
RecordsMatchTokens == OwnAccounts => MintsDistinct /\ TokensMatchRecords

\* An address as IssueOrder sees it: gone once the counter has passed its
\* index and no account is there.
StatusOf(a) ==
  IF a \in DOMAIN nft THEN "live"
  ELSE IF a[1] \in DOMAIN coll /\ a[2] < coll[a[1]].minted_count THEN "gone"
  ELSE "free"

Order == INSTANCE IssueOrder
           WITH Collections <- CollPdas, status <- [a \in NftPdas |-> StatusOf(a)]

\* Addresses are issued in index order, once each, and never again after a
\* burn, whatever mints, auto-mints, burns and authority changes interleave.
IssuedInOrder == Order!Spec

-----------------------------------------------------------------------------
(* What a step may never do.                                               *)

\* A record of kind SBT keeps its account and its owner for ever.
SbtBound ==
  [][\A a \in DOMAIN nft : nft[a].kind = "SBT" =>
       a \in DOMAIN nft' /\ nft'[a].owner = nft[a].owner]_vars

\* A record that was shortened in place is out of every handler's reach: it
\* is never written or removed again, and lamports paid to it stay there.
ShortenedIsFrozen ==
  [][\A a \in DOMAIN nft : nft[a].len < nft[a].room =>
       /\ a \in DOMAIN nft' /\ nft'[a] = nft[a]
       /\ a \in deposits => a \in deposits']_vars

\* Lamports at the address the collection would issue next.
Blocked(c) ==
  c \in DOMAIN coll /\ HasRoom(c) /\ NextPda(c) \in deposits

\* A collection whose next address was paid before it was issued issues
\* nothing any more: nobody can take the lamports out of the way.
BlockedForGood ==
  [][\A c \in CollPdas : Blocked(c) =>
       Blocked(c)' /\ coll'[c].minted_count = coll[c].minted_count]_vars

-----------------------------------------------------------------------------
(* Liveness.                                                               *)

\* A collection whose authority goes on minting is filled, unless someone
\* paid its next address too early.
FilledOrBlocked ==
  \A c \in CollPdas :
    (c \in DOMAIN coll) ~> (c \in DOMAIN coll /\ (~HasRoom(c) \/ Blocked(c)))

=============================================================================
