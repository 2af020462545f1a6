--------------------------- MODULE CloneTreasury ----------------------------
(***************************************************************************)
(* The rewards of Clone and CloneV2 NFTs: a reward is first only a number  *)
(* in a record (pending_rewards_lamports) and becomes money when the       *)
(* record's owner claims it from a treasury, the account of a collection.  *)
(*                                                                         *)
(* A collection is named by its address, an NFT by its collection and      *)
(* mint_index.  The handlers compare neither a collection with the record  *)
(* they are given nor the token that is burned with the record, so every   *)
(* combination of accounts is a step.  Every instruction on a record is    *)
(* its owner's: who that is does not matter here.  That an address may be  *)
(* blocked by a payment is NftRegistry's subject.                          *)
(*                                                                         *)
(* An account carries no mark of its type: one created as a collection may *)
(* read as a record, and the other way round, if its creator chose keys    *)
(* and texts to that end.  A clone even asks for it: process_transfer      *)
(* decodes the accounts the other way round before it hands them over to   *)
(* process_clone_nft.  Here any account may read as both.                  *)
(***************************************************************************)
EXTENDS NftTypes, Integers, FiniteSetsExt

CONSTANTS
  Collections, \* addresses of the accounts that are used as collections
  Supply,      \* total_supply of each
  MintKinds,   \* the kinds asked for in MintNft and AutoMint
  Rewards,     \* the values of clone_reward_lamports
  Payments,    \* the amounts paid to a collection's address at a time
  MaxTreasury, \* bound on the lamports at a collection's address
  MaxInits,    \* bound on how often an address becomes a collection
  Rent,        \* rent.minimum_balance of a collection's account
  U64,         \* 2^64, at which additions and products wrap
  U8,          \* 2^8, at which generations wrap
  Crafted,     \* the records that collections' accounts may read as
  None         \* Option::None; also: no account

Indexes == 0 .. Supply - 1
NftPdas == Collections \X Indexes

CollectionState == [minted_count: 0 .. Supply, clone_reward: 0 .. U64 - 1]

NftState ==
  [kind: NftKind, original_nft: NftPdas \cup Collections \cup {None},
   parent_nft: NftPdas \cup Collections \cup {None},
   generation: 0 .. U8 - 1, clone_count: Nat, pending_rewards: 0 .. U64 - 1]

ASSUME TreasuryKindsAssumption == MintKinds \subseteq NftKind
ASSUME TreasuryNumbersAssumption ==
  /\ Supply \in Nat /\ Rent \in Nat \ {0} /\ U64 \in Nat \ {0} /\ U8 \in Nat \ {0}
  /\ Rewards \subseteq 0 .. U64 - 1 /\ Payments \subseteq Nat
  /\ MaxTreasury \in Nat /\ MaxInits \in Nat
ASSUME TreasuryNamesAssumption ==
  /\ IsFiniteSet(Collections)
  /\ NftPdas \cap Collections = {}
  /\ None \notin NftPdas \cup Collections \cup CollectionState
ASSUME TreasuryCraftedAssumption == Crafted \subseteq NftState

VARIABLES
  coll,        \* the collections' records, None where there is none
  treasury,    \* the lamports at the collections' addresses
  nft,         \* NFT accounts: NftPdas, those that exist -> NftState
  due,         \* history: the rewards of all clones made
  settled,     \* history: rewards of records that were claimed, or were
               \* pending when the record ceased to exist
  slack,       \* history: what clones may have left uncredited
  inits,       \* history: how often an address became a collection
  stray        \* history: NFTs whose line starts at an account that is none

vars == <<coll, treasury, nft, due, settled, slack, inits, stray>>

-----------------------------------------------------------------------------
(* What the handlers compute.                                              *)

Exists(c) == coll[c] # None

NextPda(c) == <<c, coll[c].minted_count>>

\* A record that is no copy of another.
NewRecord(kind) ==
  [kind |-> kind, original_nft |-> None, parent_nft |-> None, generation |-> 0,
   clone_count |-> 0, pending_rewards |-> 0]

CopyOfFault(i, o) ==
  [NewRecord(o.kind) EXCEPT
     !.generation = (o.generation + 1) % U8,
     !.original_nft = i,
     !.parent_nft = IF o.generation = 0 THEN None ELSE i]

\* A copy of the account i, which reads as the record o.
CopyOf(i, o) ==
  [NewRecord(o.kind) EXCEPT
     !.generation = (o.generation + 1) % U8,
     !.original_nft = IF o.generation = 0 \/ o.original_nft = None
                      THEN i ELSE o.original_nft,
     !.parent_nft = IF o.generation = 0 THEN None ELSE i]

\* Whether the reward for a clone of o is split with the first generation.
TwoLevels(o) == o.kind = "CloneV2" /\ o.generation >= 1

\* The product wraps before it is divided.
Part(c, percent) == ((coll[c].clone_reward * percent) % U64) \div 100

\* What is credited to the record o that is cloned.  The seventh account,
\* which gets the rest of a split, is always there: Transfer has read ten.
OriginalPart(c, o) == IF TwoLevels(o) THEN Part(c, 20) ELSE coll[c].clone_reward

\* The accounts credited when i, which reads as o, is cloned.
Credited(i, o) == IF TwoLevels(o) THEN {i, o.original_nft} ELSE {i}

\* What of the reward may reach no record: a lamport of a split, as both parts
\* round down; all of it if the products wrap, or an account is no record.
MayMiss(c, i, o) ==
  IF ~ Credited(i, o) \subseteq DOMAIN nft THEN coll[c].clone_reward
  ELSE IF ~ TwoLevels(o) THEN 0
  ELSE IF 80 * coll[c].clone_reward < U64 THEN 1
  ELSE coll[c].clone_reward

\* The record r with n lamports more to claim.
Credit(r, n) == [r EXCEPT !.pending_rewards = (@ + n) % U64]

\* The collections' balances after n lamports went from one account to another.
Paid(from, to, n) ==
  [c \in Collections |->
     treasury[c] - (IF c = from THEN n ELSE 0) + (IF c = to THEN n ELSE 0)]

-----------------------------------------------------------------------------
(* The program's instructions.                                             *)

InitializeCollection(c, reward) ==
  /\ ~ Exists(c)
  /\ treasury[c] = 0
  /\ inits[c] < MaxInits
  /\ coll' = [coll EXCEPT ![c] = [minted_count |-> 0, clone_reward |-> reward]]
  /\ treasury' = [treasury EXCEPT ![c] = Rent]
  /\ inits' = [inits EXCEPT ![c] = @ + 1]
  /\ UNCHANGED <<nft, due, settled, slack, stray>>

IssueFault(c, records, r) ==
  /\ Exists(c)
  /\ coll[c].minted_count < Supply
  /\ NextPda(c) \notin DOMAIN nft
  /\ nft' = Create(records, NextPda(c), r)
  /\ UNCHANGED coll

\* Put a record at the collection's next index and count it.
Issue(c, records, r) ==
  /\ Exists(c)
  /\ coll[c].minted_count < Supply
  /\ NextPda(c) \notin DOMAIN nft
  /\ nft' = Create(records, NextPda(c), r)
  /\ coll' = [coll EXCEPT ![c].minted_count = @ + 1]

MintNft(c, kind) ==
  /\ Issue(c, nft, NewRecord(kind))
  /\ UNCHANGED <<treasury, due, settled, slack, inits, stray>>

\* The treasury gets what the trigger's fee leaves of the price; any account
\* that reads as an AddressV6 record is a trigger.
AutoMint(c, kind, toTreasury) ==
  /\ treasury[c] + toTreasury <= MaxTreasury
  /\ Issue(c, nft, NewRecord(kind))
  /\ treasury' = [treasury EXCEPT ![c] = @ + toTreasury]
  /\ UNCHANGED <<due, settled, slack, inits, stray>>

RewardedFault(c, i, o) ==
  [a \in DOMAIN nft |->
     IF a = i
     THEN [Credit(nft[a], coll[c].clone_reward) EXCEPT !.clone_count = @ + 1]
     ELSE IF a \in Credited(i, o) THEN Credit(nft[a], Part(c, 80)) ELSE nft[a]]

\* The records after i, which reads as o, was cloned in collection c.
Rewarded(c, i, o) ==
  [a \in DOMAIN nft |->
     IF a = i
     THEN [Credit(nft[a], OriginalPart(c, o)) EXCEPT !.clone_count = @ + 1]
     ELSE IF a \in Credited(i, o) THEN Credit(nft[a], Part(c, 80)) ELSE nft[a]]

\* The account i stays where it is and a copy of it is made at the collection's
\* next index.  The three accounts written back are three: a second write to
\* one account finds its data used up and fails.  What is written to one that
\* is no record changes it as HandledAsRecord does.
CloneNft(c, i, o) ==
  /\ o.kind \in CloneKinds
  /\ Credited(i, o) \subseteq (DOMAIN nft \cup Collections) \ {c}
  /\ TwoLevels(o) => o.original_nft # i
  /\ Issue(c, Rewarded(c, i, o), CopyOf(i, o))
  /\ due' = due + coll[c].clone_reward
  /\ slack' = slack + MayMiss(c, i, o)
  /\ stray' = IF i \in DOMAIN nft \ stray THEN stray ELSE stray \cup {NextPda(c)}
  /\ UNCHANGED <<treasury, settled, inits>>

ClaimFromCollectionFault(i, c, to) ==
  LET n == nft[i].pending_rewards
  IN  /\ nft[i].kind \in CloneKinds
      /\ n > 0
      /\ Exists(c) /\ n <= treasury[c]
      /\ treasury' = Paid(c, to, n)
      /\ treasury'[c] = 0 \/ treasury'[c] >= Rent
      /\ \A x \in Collections : treasury'[x] <= MaxTreasury
      /\ coll' = [coll EXCEPT ![c] = IF treasury'[c] = 0 THEN None ELSE @]
      /\ settled' = settled + n
      /\ UNCHANGED <<nft, due, slack, inits, stray>>

\* ClaimCloneRewards with a collection's account as the treasury, any
\* collection's: the rent is not kept back, and the runtime refuses a balance
\* below it, but for none, when it removes the account.
ClaimFromCollection(i, c, to) ==
  LET n == nft[i].pending_rewards
  IN  /\ nft[i].kind \in CloneKinds
      /\ n > 0
      /\ Exists(c) /\ n <= treasury[c]
      /\ treasury' = Paid(c, to, n)
      /\ treasury'[c] = 0 \/ treasury'[c] >= Rent
      /\ \A x \in Collections : treasury'[x] <= MaxTreasury
      /\ coll' = [coll EXCEPT ![c] = IF treasury'[c] = 0 THEN None ELSE @]
      /\ nft' = [nft EXCEPT ![i].pending_rewards = 0]
      /\ settled' = settled + n
      /\ UNCHANGED <<due, slack, inits, stray>>

\* ClaimCloneRewards with the record j's account as the treasury; its lamports
\* are not counted here, it may or may not be emptied.
ClaimFromRecord(i, j, to, emptied) ==
  LET n == nft[i].pending_rewards
      claimed == [nft EXCEPT ![i].pending_rewards = 0]
  IN  /\ nft[i].kind \in CloneKinds
      /\ n > 0
      /\ treasury' = Paid(j, to, n)
      /\ \A x \in Collections : treasury'[x] <= MaxTreasury
      /\ nft' = IF emptied THEN Purge(claimed, j) ELSE claimed
      /\ settled' = settled + n + (IF emptied THEN claimed[j].pending_rewards ELSE 0)
      /\ UNCHANGED <<coll, due, slack, inits, stray>>

\* The record i goes with what is pending in it.
Remove(i) ==
  /\ nft' = Purge(nft, i)
  /\ settled' = settled + nft[i].pending_rewards
  /\ UNCHANGED <<coll, treasury, due, slack, inits, stray>>

\* What is pending is not looked at.
BurnNft(i) == nft[i].kind # "SBT" /\ Remove(i)

\* Anyone sends lamports to a collection's address.
Deposit(c, n) ==
  /\ treasury[c] + n <= MaxTreasury
  /\ treasury' = [treasury EXCEPT ![c] = @ + n]
  /\ UNCHANGED <<coll, nft, due, settled, slack, inits, stray>>

-----------------------------------------------------------------------------
(* What the instructions do with accounts that read as both types.         *)

\* A handler takes a collection's account for a record and moves its lamports
\* or writes its fields; the count lies in the record's mint, which none does.
HandledAsRecord(c, reward, left) ==
  /\ Exists(c)
  /\ left = 0 \/ left >= Rent
  /\ treasury' = [treasury EXCEPT ![c] = left]
  /\ coll' = [coll EXCEPT ![c] =
                IF left = 0 THEN None ELSE [@ EXCEPT !.clone_reward = reward]]
  /\ UNCHANGED <<nft, due, settled, slack, inits, stray>>

\* A record's account is used as a collection, from then on under a name of
\* its own; its mint key gives the count.
HandledAsCollection(c, count, reward, lamports) ==
  /\ ~ Exists(c)
  /\ inits[c] < MaxInits
  /\ coll' = [coll EXCEPT ![c] = [minted_count |-> count, clone_reward |-> reward]]
  /\ treasury' = [treasury EXCEPT ![c] = lamports]
  /\ inits' = [inits EXCEPT ![c] = @ + 1]
  /\ UNCHANGED <<nft, due, settled, slack, stray>>

\* A claim for a collection's account takes the last lamport of the record i.
EmptiedByClaim(i) == Remove(i)

-----------------------------------------------------------------------------
Init ==
  /\ coll = [c \in Collections |-> None]
  /\ treasury = [c \in Collections |-> 0]
  /\ nft = NoAccounts
  /\ due = 0
  /\ settled = 0
  /\ slack = 0
  /\ inits = [c \in Collections |-> 0]
  /\ stray = {}

Next ==
  \/ \E c \in Collections, reward \in Rewards : InitializeCollection(c, reward)
  \/ \E c \in Collections, kind \in MintKinds : MintNft(c, kind)
  \/ \E c \in Collections, kind \in MintKinds, n \in Payments : AutoMint(c, kind, n)
  \/ \E c \in Collections, i \in DOMAIN nft : CloneNft(c, i, nft[i])
  \/ \E c \in Collections, x \in Collections, o \in Crafted :
       Exists(x) /\ CloneNft(c, x, o)
  \/ \E i \in DOMAIN nft, c \in Collections, to \in Collections \cup {None} :
       ClaimFromCollection(i, c, to)
  \/ \E i \in DOMAIN nft, j \in DOMAIN nft, to \in Collections \cup {None},
        emptied \in BOOLEAN : ClaimFromRecord(i, j, to, emptied)
  \/ \E i \in DOMAIN nft : BurnNft(i)
  \/ \E c \in Collections, n \in Payments : Deposit(c, n)
  \/ \E c \in Collections, reward \in Rewards :
       \E left \in 0 .. treasury[c] : HandledAsRecord(c, reward, left)
  \/ \E c \in Collections, count \in 0 .. Supply, reward \in Rewards,
        lamports \in Rent .. MaxTreasury :
       HandledAsCollection(c, count, reward, lamports)
  \/ \E i \in DOMAIN nft : EmptiedByClaim(i)

Spec == Init /\ [][Next]_vars

-----------------------------------------------------------------------------
(* Type correctness.                                                       *)

TypeOK ==
  /\ coll \in [Collections -> CollectionState \cup {None}]
  /\ treasury \in [Collections -> Nat]
  /\ DOMAIN nft \subseteq NftPdas
  /\ nft \in [DOMAIN nft -> NftState]
  /\ due \in Nat /\ settled \in Nat /\ slack \in Nat
  /\ inits \in [Collections -> Nat]
  /\ stray \subseteq NftPdas

-----------------------------------------------------------------------------
(* Safety.                                                                 *)

\* A collection that exists keeps its rent, whatever is claimed from it.
RentKept == \A c \in Collections : Exists(c) => treasury[c] >= Rent /\ inits[c] > 0

Books == TypeOK /\ RentKept

\* An address lost its collection, to a claim or a burn, and has one again.
Reborn == \E c \in Collections : inits[c] > 1

\* No NFT will be issued at the address a any more.
Used(a) ==
  /\ a \in NftPdas
  /\ inits[a[1]] > 0
  /\ Exists(a[1]) => a[2] < coll[a[1]].minted_count

Ancestors(a) == {nft[a].original_nft, nft[a].parent_nft} \ {None}

\* Until an address is a collection's for the second time no index is issued
\* twice: neither that of an NFT that exists, nor that of one that is gone but
\* still named as an ancestor.
NoneReissued ==
  ~ Reborn => \A a \in DOMAIN nft :
                /\ Used(a)
                /\ a \notin stray => \A b \in Ancestors(a) : Used(b)

\* A record that looks like a copy names an original.
Lineage ==
  \A a \in DOMAIN nft :
    nft[a].generation # 0 \/ nft[a].parent_nft # None => nft[a].original_nft # None

\* The inductive invariant.
IInv == Books /\ NoneReissued /\ Lineage

\* What the owners of all records may claim.
Pending == SumFunction([a \in DOMAIN nft |-> nft[a].pending_rewards])

\* Of the rewards of all clones made, each lamport is pending in a record or
\* settled, and at most once in all; and none is missing but for what the
\* rounding, the wrapping or an account that is no record may have cost.
RewardsAccounted ==
  LET known == Pending + settled
  IN  /\ known <= due
      /\ due < U64 => due <= known + slack

\* The account a copy was made from.
SourceOf(a) ==
  IF nft[a].parent_nft # None THEN nft[a].parent_nft ELSE nft[a].original_nft

Kin == DOMAIN nft \ stray

\* The records of a family agree, whichever of its members were burned, until
\* an address is a collection's for the second time: original_nft names a
\* record of the same kind and of generation 0 (or one that is gone),
\* parent_nft the record copied, one generation down (also past the 255th) and
\* of the same original; clone_count counts the copies that exist, and those
\* that are gone.
FamiliesSound ==
  ~ Reborn =>
    \A a \in Kin :
      /\ nft[a].original_nft \in DOMAIN nft =>
           LET o == nft[nft[a].original_nft]
           IN  o.generation = 0 /\ o.kind = nft[a].kind
      /\ nft[a].parent_nft \in DOMAIN nft =>
           LET p == nft[nft[a].parent_nft]
           IN  /\ nft[a].generation = (p.generation + 1) % U8
               /\ nft[a].original_nft = p.original_nft
      /\ Cardinality({b \in Kin : SourceOf(b) = a}) <= nft[a].clone_count

-----------------------------------------------------------------------------
(* What a step may never do.                                               *)

\* What the step credits to record a.
Gain(a) == nft'[a].pending_rewards - nft[a].pending_rewards

\* A reward is credited only as an index of a collection is used, to two
\* records at most, and with no more than that collection's reward together,
\* also when the products or a record's sum wrap.
NoRewardFromNothing ==
  [][\A a, b \in DOMAIN nft \cap DOMAIN nft' :
       Gain(a) > 0 =>
         \E c \in Collections :
           /\ Exists(c)
           /\ coll'[c] = [coll[c] EXCEPT !.minted_count = @ + 1]
           /\ Gain(a) <= coll[c].clone_reward
           /\ (a # b /\ Gain(b) > 0) => Gain(a) + Gain(b) <= coll[c].clone_reward]_vars

=============================================================================
