# Verification of the QR Mint NFT program

TLA+ models, TLC runs and TLAPS proofs for the Solana program in `collection/`
and its TypeScript client in `src/`. File names below are relative to the
repository; `proccessor.rs` is `collection/src/proccessor.rs`, which holds
every handler.

1. [The system](#1-the-system)
2. [Modules and how they correspond to the code](#2-modules)
3. [Runs](#3-runs)
4. [Proofs](#4-proofs)
5. [What the code does not do as it says](#5-divergences)
6. [Not modelled](#6-not-modelled)

## 1. The system

A collection is an account derived from `("collection", creator, id)`; an NFT
is an account derived from `("nft", collection, mint_index)`, its *address*,
plus an SPL mint with one token. Some kinds of NFT do something with lamports
sent to the address: forward them, store them, or share them as a pool.

The program is one dispatch over fifteen instructions. An instruction runs
alone on the accounts it is given and is atomic: if the handler, or a program
it calls, returns an error, the runtime rolls back everything. What makes the
program hard is therefore not what happens inside an instruction but the order
of instructions: of the collection's authority, of owners, of children's owners
and of payers, none of whom wait for another, and of wallets that use the
system program and the token program directly.

| component | state | operations | what makes it correct |
|---|---|---|---|
| collections, issue of addresses | `CollectionState`: authority, total_supply, minted_count | InitializeCollection, MintNft, AutoMint, TransferCollection | an index is issued in order, once, never again after a burn; the supply is kept |
| ownership | `owner` in the record; the SPL token in a wallet | MintNft, Transfer, BurnNft; token program | a record has its token as long as it lives; the record of an SBT stays |
| record encoding | an account exactly as long as the record first written | every handler that writes a record | a record that can be written can be read again |
| money of an address | lamports, `total_received`, `total_forwarded`, fee fields | ProxyForward, Withdraw, WithdrawTokens, UpdateNft, BurnNft | nothing is lost, the rent stays, the fee is bounded |
| pools (AddressV4Fraction) | list of children, `pending_rewards`, `total_forwarded` of parent and child | SplitFraction, UpdateFractions, ClaimParentShare, ClaimFractionShare, ProxyForward | everybody gets the share, nobody more, in any order of claims |
| clone rewards, treasury | `pending_rewards` of clones, lamports of the collection | Transfer of a clone, AutoMint, ClaimCloneRewards | a reward is credited for a clone, and paid once |
| steps of a mint | mint, metadata, token account, authority | the eight steps of MintNft | one token, and none after it; all of a mint or nothing |
| client serializer | none | `serializeInstruction` | what it encodes is what the program decodes |
| mint client | the counter as read, its keypair | read, submit, confirm, give up | one NFT for each mint asked for |
| collection client | none | one request | its request is understood |
| deployment script, build files | files | - | - |

Components interact through accounts only: the counter of a collection
determines the address of the next NFT; a transfer or a burn needs a token of
the record's owner beside the record; lamports at an address that was not
issued yet stand in the way of its issue; the lamports of a record decide
whether it may be burned; one handler's counter is another's input. The client
is on the far side of a network: what it read of the counter may be old when
its request arrives, and a request it gave up may still arrive.

## 2. Modules

`NftTypes` has the vocabulary: the kinds, the groups of kinds the handlers
match on, and how an account table gains and loses an account.

**Reading the modules.** One action is one instruction *that commits*; an early
return or a failing call of the code is a guard. An account that no handler
compares with anything is the caller's choice: mints and token accounts, the
trigger of an auto-mint, the collection of an update, the treasury of a claim.
An operator `XFault` is a slip in `X` (a dropped check, a forgotten counter);
no specification uses it, it is there to be put in the place of `X` and to see
a property fail.

The program marks no account with its type: whether an account is a record or
a collection is decided by what its bytes decode as. NftRegistry, NftVault,
FractionPool and MintClient are about accounts that read as what they were
created as. CloneTreasury is not: there every account may read as both, because
without such accounts no clone commits (section 5).

### NftRegistry, and the abstract IssueOrder

State: `coll` and `nft`, the accounts of the program (functions whose domains
are the accounts that exist); `token`, the SPL mints that exist with the wallet
that holds the one token; `deposits`, the addresses with lamports beyond the
rent. A record keeps the fields that decide something here, its encoded length
`len` and `room`, the length it was created with.

Actions: `InitializeCollection`, `MintNft`, `AutoMint`, `Transfer`, `BurnNft`,
`UpdateNft`, `UpdateFractions`, `TransferCollection`, `ProxyForward`,
`Withdraw`, `ClaimParentShare` (of the last three only what they leave at the
address), and two of others on the same ledger: `Deposit` (anyone pays lamports
to an address, issued or not) and `WalletTransfer` (the holder moves the token
with the token program).

- `Readable` is `try_from_slice`: borsh refuses bytes left over, so that an
  account longer than its record cannot be read. `Fits` is `serialize` into an
  account: it cannot grow.
- `Vacant` is the check of `create_pda_account`.
- `MintNft` needs a mint key whose account does not exist (it is created, and
  the key signs). `AutoMint` records any key. `Triggers`: the trigger need not
  be of the collection in which the new record is issued.
- `Spend`: a Transfer or a BurnNft moves or burns one token of the owner's, of
  any mint; a token of another program's making is no token of this model
  (`UNCHANGED token`). The new owner that a Transfer writes and the wallet that
  gets the token are two arguments.
- `UpdateNft` needs no authority that matters: any account that reads as a
  collection will do, and everyone may make one.
- The constant `OwnAccounts` is `FALSE` as built. With `TRUE` callers send what
  belongs together: a record with its own mint, token, trigger and collection,
  the new owner's wallet, a mint key that nobody used. `RegistryMatched` asks
  what holds for such callers.
- A Transfer of the clone kinds is in `CloneTreasury`.
- The constant `MetadataUpdates` says whether the Metaplex call of an UpdateNft
  that changes name, symbol, uri or seller fee goes through. The code sets
  neither mint nor payer in `UpdateV1Builder`, whose `instruction()` panics
  without them, and passes three accounts: `FALSE` as built. `RegistryMatched`
  sets it to `TRUE`, for a program that names them.
- `AutoMint` copies the trigger's text and not its list of children, so the new
  record is no longer than the trigger's. The price it takes is in
  `CloneTreasury`.

`IssueOrder` says what a collection promises of its addresses without a
counter: an address is free, live or gone; it is issued only after all lower
ones and never again. The refinement maps an address to "gone" when the counter
passed its index and no account is there.

### NftVault, and the abstract Escrow

One NFT's address with its record, the wallets around it and every lamport.
Actions: `MintNft`, `ProxyForward`, `Withdraw`, `WithdrawTokens`, `UpdateNft`
(target and fee), `Transfer`, `BurnNft`, `Deposit`, `DepositTokens`.
`Available` is the balance less the rent; `Overflows` is the `checked_mul` of
the fee; counters saturate at `U64Max`, a constant that the runs make small.
Pools are left to `FractionPool`. A Transfer or a BurnNft needs a token of any
mint, and an UpdateNft the authority of any collection, so here they need
nothing of either. A record that is its own proxy
target or fee recipient is left out: its targets are wallets.

`Escrow` is the promise to payers: what is paid in is held until a release pays
all of it out and counts it; a closed address releases nothing more.

### FractionPool

The records of kind AddressV4Fraction as pools. Actions: `MintNft`,
`SplitFraction`, `ProxyForward`, `ClaimParentShare`, `ClaimFractionShare`,
`UpdateFractions`, `BurnNft`, `Deposit`. `TotalPool`, `Entitled`, `Claimable`
and `ChildClaimable` are the computations of the two claims. `paid`, `drawn`
and `gained` are history variables: no handler keeps them, they say what really
happened, and the invariant compares the code's counters with them.

The constant `Realloc` says whether a handler resizes the account it writes.
None does: `FALSE` as built, and then a split never commits. With `TRUE` the
model is the program its authors describe, and the run shows that its
computation of shares is right.

### CloneTreasury

Several collections with their accounts as treasuries, and the NFTs of all of
them. Actions: `InitializeCollection`, `MintNft`, `AutoMint` with what the fee
leaves of the price, `CloneNft` (`process_clone_nft`), `ClaimFromCollection`
and `ClaimFromRecord` (ClaimCloneRewards), `BurnNft`, `Deposit`.

- `CloneNft` clones any account in any collection: the code compares neither
  `coll_pda` with the record nor the record with anything but its owner.
- A claim names any account of the program as the treasury, another
  collection's or a record's. It keeps nothing of the rent back; the runtime
  removes an account left with nothing, and the collection may then be
  initialised again and counts from 0, while its old NFTs are still there
  (`inits`).
- A record may be burned whatever its kind, its copies or its rewards: its
  owner needs some token, not its own.
- `Part` and `Credit` wrap at `U64`, generations at `U8`, as release builds do.
- The second write to an account fails: borsh writes into the slice the
  account's data is borrowed as, and the runtime's `RefCell` keeps the rest of
  it. So `CloneNft` wants the copied account, the first generation and the
  collection to be three.
- Accounts that read as both types: `Crafted` are the records that a
  collection's account may read as when it is cloned. `HandledAsRecord` is
  what the handlers of records may do to a collection's account,
  `HandledAsCollection` a record's account used as a collection. Whether keys
  and texts can be found for every one of these readings is left open: the
  model takes all of them as possible, which is more than the code can do, and
  what holds here holds for fewer.
- `due`, `settled`, `slack`, `inits` and `stray` are history variables. `slack`
  is what clones may have left uncredited, `stray` the NFTs whose line starts
  at an account that is no record.

### MintExecution

One MintNft step by step. `Admitted` are the checks before the first step;
`CreatePda`, `CreateMintAccount`, `InitializeMint`, `CreateMetadata`,
`CreateTokenAccount`, `MintTo`, `RevokeAuthority` and `Count` are the eight
steps of `process_mint_nft` (`proccessor.rs:247-368`), in `exec`'s working
copies of the accounts. Each step has the precondition of the program it calls.
`Count` is the last and replaces the ledger by the copies; `Abort`, possible at
every step, drops them. That no other instruction on the collection comes in
between is the runtime's account locking: a mint writes the collection's
account. `spl` has what the registry leaves out of a mint: authority, number of
tokens made, metadata, token account.

### MintClient

Composes MintExecution, all other instructions of NftRegistry and what wallets
do without the program (`Others`; all of its `Next` but the authority's mints)
and operators who run `mintNfts.ts`. A run is `Read` (fetch the account, take
`minted_count`), `Submit` (a new keypair, the address of the index that was
read), and one of `Confirm`, `Fail`, `GiveUp`. All operators use the one key of
`wallet.json`. Between sending and execution a request is in `flight`, in no
order; `Drop` loses it. A request is never executed twice: the runtime refuses
a signature it knows, and the keypair's account would exist.

`job`, `got` and `gaveUp` are history: the NFT an operator wants is a *job*,
for which the script is run until a run confirms. `NewKeypair` takes the first
keypair that nobody made; no definition tells keypairs apart otherwise.

Every behaviour of MintClient is one of NftRegistry (`ImplementsRegistry`, no
mapping needed but the names): a mint with steps, failures and stale requests
is the one-step mint that the properties of NftRegistry (as built) are proved
of. So these hold for the composition.

### InstructionWire

`Enum`, `Layout` and `KindOrder` are the program's side (`instruction.rs`,
`state.rs`, by Borsh's rules); `ClientTag`, `ClientKind` and `ClientLayout` the
tables and cases of `serializer.ts`. `Encode` and `Decode` work on real bytes,
because what happens behind a wrong tag depends on them. A behaviour is one
request from `Serialize` to `Process`, which ends in one instruction or, with
bytes that are too few or left over, in none.

`Filled` is what the serializer does to an AutoMint of an unknown kind: it
writes the number of `Default`. The assumptions on the requests are what it
enforces: `Serializable` says that the variant has a tag and that every field
holds what can be written of its type (`IsA`: Node throws for a number its
buffer has no room for, `PublicKey` for a key that is none). A request of the
scripts is also `Whole`: it has the fields of its variant and no others. A text
is its bytes. `Buffer.from` makes UTF-8 of every text, so the decoder's check
of it is left out; no wrong tag leads to bytes being read as a text.

### MC modules

`MCNftRegistry`, `MCNftVault`, `MCFractionPool`, `MCCloneTreasury`,
`MCMintClient` and `MCInstructionWire` give TLC model values, sets of kinds,
lists and requests, and symmetry sets. Symmetry is used for values that no
definition tells apart (mint keypairs, wallets, pool addresses, collections),
and never in a run of a liveness property.

## 3. Runs

`tlc -config <run>.cfg <module>`; most take seconds, RegistrySafety and
ScriptsFill up to a minute, TreasuryRewards two or three. `CHECK_DEADLOCK
FALSE` everywhere: with the bounds on mints, payments or supply the system may
stop, and a request is answered once.

| run | shows |
|---|---|
| RegistrySafety | with accounts of the callers' choice: `IInv` (counter and records in step), `IssuedInOrder` (implements IssueOrder), `BlockedForGood`, `SbtBound`, `ShortenedIsFrozen`; liveness `FilledOrBlocked` |
| RegistryMatched | with the accounts that belong together, and metadata updates carried out: `RecordsMatchTokens` |
| VaultForward | `IInv`, `KeepsPromise` (implements Escrow), `TargetGetsHalf`, `TooMuchStays` |
| VaultLimits | `IInv`, `KeepsPromise` at the limits of counters and fees, with the storing kinds; liveness `ForwardDrains` |
| PoolAsBuilt | `IInv`, `NobodyIsAChild`, `SharesHonoured` with accounts of fixed size |
| PoolRoomy | `IInv`, `SharesHonoured` with accounts that are resized |
| TreasuryRewards | two collections, accounts that read as both types: `IInv` (the rent is kept, no index issued twice), `RewardsAccounted` (no reward is pending or settled twice, none missing but for rounding and wrapping), `FamiliesSound` (generations, ancestors and clone counts agree), `NoRewardFromNothing` |
| ScriptsFill | one operator with two requests in flight, among all other instructions: `IInv`, `NothingLandsLate`, `OneNftForAJob`, `ImplementsRegistry`; liveness `ScriptsFill` |
| WireRequests | `ScriptsUnderstood` (the two scripts' requests arrive as asked for), `MisreadsKnown` (which of the other requests run another handler) |

`NothingLandsLate` deserves a word. The script names the address of the index
it read, so all runs for one job compete for addresses that were next when they
were read. When one is confirmed the counter has passed the indexes of the runs
given up before it, and the check of the address refuses them. A run that was
given up may still land *before* the next is confirmed; then the job gets two
NFTs, which `OneNftForAJob` allows in this case only.

The three runs that end in a violation are in section 5.

**Bounds.** Two wallets suffice for owner against stranger and for old against
new authority; VaultForward has three so that target, fee recipient and a
bystander differ. Two indexes give an address with an issued one before it, and
a burned one before the next is issued; one collection, since only the counter
ties addresses together. `Mints` bounds the number of mints: with as many as
indexes, every index can be used, and burned. (The theorems of section 4 need
none of these bounds.) Two lengths tell a record that fits from one that was
shortened. Payments of 1 and 3 make the fee of 50 percent round; `U64Max =
19999` is passed by a balance of 4 at 5000 basis points and by two payments of
10001. `MaxPaid` bounds payments, which nothing else does. Two pool addresses
are a parent and a child, in either role; the lists hold no child, one, two,
and one with too large a share, and shares of 3000 and 5000 of a few lamports
round down. Two collections give a clone in one of a record of the other, and a
claim from the other's treasury; four indexes in all hold an original, its
copy, a copy of that and one more, and `U8 = 2` makes the third wrap. `U64 =
256` holds the products and sums of rewards of 2, not 80 times 200 nor the sum
of two 200s. `MaxInits` is 1: a collection that a claim has emptied does not
come back in the run, as with two the states are too many; the theorems are for
any `MaxInits`. The run has the kind CloneV2 only, whose originals are credited
as those of a Clone are. Two requests in flight are one that was given up and
its successor; auto-mints make the counter stale as a second operator would,
and the theorems are for any number of operators. Two keypairs never run out
for good: before the supply of two is used up one NFT is there at most, and the
keypair of a request that is lost or refused is free again once its run has
ended. The fields of the requests on the wire have every type, optional ones
with and without a value; texts up to `MaxText = 24` long fill a key.

**Fairness.** Safety needs none. `FilledOrBlocked` assumes that the authority
of a collection goes on asking for mints (`WF` of `AuthorityMints`), that is
what the mint script is run for; nothing is assumed of anyone else. Each mint
needs a key without an SPL mint, and TLC's instance has as many as there are
indexes: a mint uses up one of each, and AutoMint, which may name any key, uses
up an index only. So they do not run out first. `ForwardDrains` assumes that
the owner of a forwarding NFT goes on sending ProxyForward (`WF` of
`ProxyForward`); the program has no crank of its own. Weak fairness is enough
in both: once such an instruction can commit, only what the property names can
disable it for good. `ScriptsFill` assumes that the operator runs the script
again and that every run ends (`WF` of `Read`, `Submit` and `Return`; the
client's own timeouts see to the last); that an instruction ends (`WF`) and a
request does not stay in flight for ever (`WF` of `Drop`: it expires with its
blockhash); that the network does not lose every request that could be executed
(`SF` of `Start`, strong because giving up and losing requests disables it
again and again); and that from some time on a step of a mint fails only
because its address is blocked, that is, the wallet has the lamports and the
called programs work.

**Each property has a mutant**, listed in `PROJECT.json`: with the slip in
place TLC finds the property violated.

## 4. Proofs

`tlapm <module>.tla`. All theorems hold for every value of the constants that
satisfies the named assumptions of the modules: any number of wallets,
collections, indexes, lists and payments, any width of the counters. Where a
sum over all pools or all records is stated, there are finitely many of them
(`PoolPdasAssumption`, `TreasuryNamesAssumption`).

| module | theorem | states |
|---|---|---|
| NftRegistryProofs | `RegistryInvariant` | `Spec => []IInv` |
| | `RegistryRecordsMatchTokens` | `Spec => []RecordsMatchTokens` |
| NftRegistryStepProofs | `RegistryIssuesInOrder` | NftRegistry implements IssueOrder |
| | `RegistrySbtBound`, `RegistryBlockedForGood`, `RegistryShortenedIsFrozen` | the action properties of the runs |
| NftVaultProofs | `VaultInvariant` | `Spec => []IInv` |
| | `VaultKeepsPromise` | NftVault implements Escrow |
| | `HalfToTarget`, `OversizedStays` | `TargetGetsHalf`, `TooMuchStays` |
| FractionPoolProofs | `PoolInvariant` | `Spec => []IInv` |
| | `PoolNobodyIsAChild` | with accounts of fixed size no child is ever made or paid |
| | `PoolSharesHonoured` | `Spec => SharesHonoured` |
| CloneTreasuryProofs | `TreasurySound` | `Spec => []IInv` |
| | `FamiliesAgree`, `RewardsKept` | `Spec => []FamiliesSound`, `Spec => []RewardsAccounted` |
| | `RewardsBounded` | `Spec => NoRewardFromNothing` |
| MintClientProofs | `ExecutionSound` | `Spec => []IInv` |
| | `MintIsOneStep` | MintClient implements NftRegistry |
| | `NothingLate`, `OneForAJob` | `NothingLandsLate`, `OneNftForAJob` |
| InstructionWireProofs | `ScriptsArrive` | `Spec => []ScriptsUnderstood` |
| | `MisreadsBounded` | `Spec => []MisreadsKnown` |
| SumTheorems | `SumRemove`, `SumChange`, ... | what the sums of the other proofs rest on |

*SumTheorems.* The models add up over children and records with
`SumFunctionOnSet`, which takes one chosen element after the other. The lemmas
say that the order does not matter: a sum loses what a removed element had and
follows a change of one element. An
induction theorem of the library cannot be used here, so they go over subsets
as a set: one that contains every subset whose proper subsets it contains
contains them all (`SubsetInduction`, from the well-foundedness of the subset
order on a finite set). That a sum exists at all, as a function on the subsets
that meets the recursive equation, is shown first (`SumsExist`).

*NftRegistry.* `IInv` is inductive as it stands: the types and
`CounterCoversRecords` carry each other, whatever accounts the callers give.
That an address is issued once needs that records lie below the counter. The
step properties follow from `IInv` action by action. `RecordsMatchTokens` is
inductive next to `IInv` where `OwnAccounts` is TRUE, with its two halves
together: a burn closes one record and burns one token, and a second record
with that mint (`MintsDistinct`) would be left behind.

*NftVault.* `PaidAccounted` says that payments equal what is available plus the
counter while the counter has not saturated; it needs `RentKept`, without which
"available" would be negative, and the equality of the two counters. The
refinement then maps Deposit to PayIn, ProxyForward and Withdraw to Release and
BurnNft to Close, all others to stutters.

The step properties need to know which step takes lamports from an address at
all (`Spenders`: forwards, withdrawals and burns), and that the fee, rounded,
is at most half (`FeeBound`).

*FractionPool.* The invariant is proved address by address (`SoundAt`). A claim
by a child writes two records; that they are different ones needs the part of
`RecordsSound` that no record is its own parent, which holds because a split
needs a vacant child and a readable parent. `PoolNobodyIsAChild` rests on
`NoSplit`: the list with one child more is longer than the account, since a
readable record fills it.

`PoolSharesHonoured` has two halves. `EnoughForAll`: in a pool with even books
(`EvenBooks`: every payout was a claim, nobody was paid more than the present
part) the parts of the owner and of the children on the list, each rounded
down, come to no more than what was ever there, because the children are
different entries of a list that gives away 10000 at most (`SumOfNamed`,
`SumOfParts`); take off what was paid, and the rest is still there. `EvenStep`:
a step that keeps the terms keeps the books even. What was ever there never
gets less and whoever claims is then paid up exactly (`Fair`, one lemma for
each action); what would break it, a forward, a longer list or a claim by p's
owner against p's own parent, is what `SameTerms` excludes.

*CloneTreasury.* Every step does one of three things to the records
(`StepKinds`): it puts a record that is no copy at a new index (`PlainIssue`),
it clones (`Cloning`), or it adds no record and changes only pending rewards
(`Shrinking`). `RewardsBounded` is arithmetic: `20 * r` and `80 * r` wrapped
are no more than the products, so that divided by 100 they come to no more than
`r`; and a sum that wraps is a loss. Of the invariant it needs `Books`.

`FamiliesSound` is not inductive. A burn takes members of a family away at any
time, which the property allows; what would break it is a new record at the
address of one that is gone, which its copies still name. `NoneReissued`
excludes it: every index that a record has or names is below the count of its
collection or of one that is gone for good (`Used`). A second initialisation
counts from 0, hence both only up to then. `Lineage` (who looks like a copy
names an original) gives the copy of a copy the family of its parent. That
`clone_count` is never too low counts the records with one source: a clone adds
one to one of these sets (`OneNewCopy`), a burn adds to none.

`RewardsKept` adds up what is pending (`PendingIn`): a clone credits one or two
records, by no more than the reward together (`known <= due`), and by no less
than the reward minus what the same step adds to `slack` (`CloneTotal`); a
claim moves an amount from pending to settled, and so does whatever takes a
record away. It needs the types only, not the families.

*MintClient.* Three parts of `IInv` carry `MintIsOneStep`. `CopiesSound` says
what the working copies are at each step in terms of the ledger, so that at
`Count` they are exactly what NftRegistry's MintNft computes; it includes that
the checks made at the beginning are still true, which needs the locking.
`KeypairsSound` says that no request and no instruction share a keypair, so
that the mint an instruction creates is not there yet. `WholeMints` is what a
commit leaves. For the jobs, `IInv` is strengthened by `JobsSound`.
`RequestSound`: a request of a job that is done names an index the counter has
passed, and one of the present job none above the index the present run has
read. `RunSound`: once the mint of a waiting run is there, the counter has
passed its index and the job has an NFT; without a run given up it has one only
then, and one only.

*InstructionWire.* The invariant is short (`Relayed`: what the program took is
what it decodes of the request's own bytes); the work is in `Decode` and
`Encode`. Writers and readers go over bytes, shares and fields with recursive
functions, whose existence is shown first (`ShiftsExist`, `UpperExists`,
`FlatExists`, `ReadsExist`), by induction over the numbers: a set that has 0
and every successor of its members has them all (`Induction`, from the
well-foundedness of `<`; here too a set takes the place of a predicate). Then
reading undoes writing, each time with any bytes behind what is read: a number
that fits (`NumberOfBytes`, going down from the highest byte), each type
(`TypeBack`), a field with or without a value (`FieldBack`) and all fields of a
layout (`FieldsBack`). What makes a sequence of fields readable is
`FlattenRest`: in front of every field stands exactly that field and what is
left behind it. The list of shares is read by position, 34 bytes each
(`SharesBack`).

`ScriptsArrive` adds that the two sides agree on the tag and the layout of the
two variants. For `MisreadsBounded` it is the other way round: of the ten wrong
tags four lead to a variant without fields while there are bytes left
(`LeftOver`), two to one that starts with a length while there are none
(`FirstRefused`), and four are the known pairs.

**Only model-checked:** the liveness properties `FilledOrBlocked`,
`ForwardDrains` and `ScriptsFill`, which need fairness and ENABLED, and the
three counterexamples of section 5.

## 5. Divergences

Three runs that TLC must find violated; each checks what a comment or a message
of the code says. The quotes and lines are in `PROJECT.json`.

| run | the code says | the code does |
|---|---|---|
| VaultEmptyStorage | a storage is burned when it is empty | the burn looks at lamports, and SPL tokens left at the address of an AddressV3j are out of reach |
| PoolOwnerMayClaim | the parent's share is all that is not given to children | the claim is refused after a forward, which counts as if it were still there |
| WireLibraryArrives | the client's order must be that of the enum | the client lacks three variants, so that ten of its tags name other instructions; it writes an amount for withdrawals that take none, and no new owner for a Transfer |

`OwnerMayClaim` uses ENABLED: in a state that meets every condition the comment
names, the instruction commits. `MisreadsKnown` says how far the wrong tags
reach: most requests are refused for their bytes; four variants run another
handler, and the two scripts of the repository use only the tags that are
right.

Seen while modelling. Most are a single assignment or a missing one, about
which a run could only repeat the code:

- `state.rs:76-78` says who receives the fee, by kind, as if it followed the
  NFT; `proccessor.rs:201` sets it at the mint, to the authority or the payer
  of that time, for ever.
- "SBT (Soul Bound Token) — нельзя передавать никому никогда"
  (`proccessor.rs:1335`): its token moves in a wallet all the same. `SbtBound`
  is about the record.
- The mint and the token accounts of a Transfer and of a BurnNft are compared
  neither with the record's mint nor with each other (`proccessor.rs:1313`,
  `1398`), and the new owner that a Transfer writes not with the wallet that
  gets the token. Record and token stay in step only where callers see to it
  (`RecordsMatchTokens`, and the constant `OwnAccounts`).
- `UpdateNft` (`proccessor.rs:1498`) and the clone handler (`1195`) do not
  compare the collection with the record's, nor does `ClaimCloneRewards` its
  treasury (`916`), nor `AutoMint` its trigger with the collection (`1032`).
- "Forward lamports from NFT PDA to proxy target / fractions."
  (`instruction.rs:42`): to the target only (`proccessor.rs:644`).
- `SplitFraction` never commits: it writes one child more into an account that
  has no room for it (`proccessor.rs:502`; `NobodyIsAChild`).
- Clones ("Оригинал остаётся у owner, новый NFT минтится для recipient",
  `proccessor.rs:1169`) are asked for with Transfer, and `process_transfer`
  hands its accounts over in its own order (`proccessor.rs:1340`): what it has
  decoded as a record is decoded as a collection next, and the other way round.
  With accounts that read as what they were created as no clone ever commits,
  and nothing takes the money of a treasury out again, though the comment says
  "Остаток → collection PDA (treasury для clone rewards и т.д.)"
  (`proccessor.rs:1053`).
- "Gen0 аккаунт не передан — кладём весь reward родителю"
  (`proccessor.rs:1280`) is a case that never happens: Transfer has read ten
  accounts before, so the seventh is always there.
- The serializer writes fields for "TransferNft" and "CloneNft", which have no
  tag.
- `UpdateNft` accepts the collection's authority only (`proccessor.rs:1501`);
  the comment above it says owner or authority.
- `AutoMint` creates no SPL mint for the key it records (`proccessor.rs:1077`);
  the comment at 1003 says the sender receives a new NFT.
- A child on a list that `MintNft` or `UpdateFractions` wrote has no
  `parent_nft`, so its claim is refused (`NobodyIsAChild` says no claim ever
  succeeds), and a list of another length than the minted one cannot be set
  without losing the record (`ShortenedIsFrozen`).
- An `UpdateNft` that changes text aborts (the constant `MetadataUpdates`).

## 6. Not modelled

- The deployment script (CLI calls and one file) and the build files.
- What a metadata account holds, log messages, the wording of errors.
- Borsh beyond what InstructionWire has; texts on the wire are bytes.
- Reads of the client that lag behind the ledger: `Read` returns the counter of
  some moment, and the time to `Submit` is unbounded, so a late answer is an
  early read. Only a run that reads an older counter than one of its operator's
  earlier runs is left out.
- Accounts that read as both types, outside CloneTreasury: what an instruction
  does to the registry, a vault or a pool when its account was created as
  something else.
- Which bytes make an account read as both types: CloneTreasury takes every
  reading as possible.
- In NftVault and FractionPool the accounts of a forward or a claim are those
  the handlers check.
- What UpdateFractions should do to claims already counted
  (`proccessor.rs:986`): the code states no intent, and `SharesHonoured` speaks
  of the time between changes of the list.
- SplitFraction's own calls: they are those of MintNft, before a last step that
  fails; FractionPool has their effect.
