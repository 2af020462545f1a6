------------------------ MODULE CloneTreasuryProofs -------------------------
(***************************************************************************)
(* Theorems about CloneTreasury, for every set of collections, supply,     *)
(* reward and rent, every width of the two integers that wrap, and         *)
(* whatever accounts read as both types.                                   *)
(***************************************************************************)
EXTENDS CloneTreasury, SumTheorems, TLAPS

-----------------------------------------------------------------------------
(* Arithmetic.                                                             *)

LEMMA ModFacts ==
  ASSUME NEW a \in Nat, NEW m \in Nat \ {0}
  PROVE  /\ a % m \in 0 .. m - 1
         /\ a % m <= a
OBVIOUS

LEMMA NoWrap ==
  ASSUME NEW a \in Nat, NEW m \in Nat \ {0}, a < m
  PROVE  a % m = a
OBVIOUS

LEMMA SplitFacts ==
  ASSUME NEW r \in Nat, NEW m \in Nat \ {0}
  PROVE  /\ ((r * 20) % m) \div 100 \in Nat
         /\ ((r * 80) % m) \div 100 \in Nat
         /\ ((r * 20) % m) \div 100 + ((r * 80) % m) \div 100 <= r
<1>1. \A a \in Nat : a % m \in Nat /\ a % m <= a
  BY ModFacts
<1>2. \A x, y \in Nat : x <= r * 20 /\ y <= r * 80 =>
        x \div 100 \in Nat /\ y \div 100 \in Nat /\ x \div 100 + y \div 100 <= r
  OBVIOUS
<1>3. r * 20 \in Nat /\ r * 80 \in Nat
  OBVIOUS
<1> QED
  BY <1>1, <1>2, <1>3

\* The two parts of a reward are no more than the reward, wrapped or not.
LEMMA PartsFacts ==
  ASSUME TypeOK, NEW c \in Collections, Exists(c)
  PROVE  /\ coll[c] \in CollectionState
         /\ coll[c].clone_reward \in Nat
         /\ coll[c].minted_count \in Nat
         /\ Part(c, 20) \in Nat /\ Part(c, 80) \in Nat
         /\ Part(c, 20) + Part(c, 80) <= coll[c].clone_reward
<1>1. coll[c] \in CollectionState
  BY DEF TypeOK, Exists
<1>2. /\ coll[c].clone_reward \in Nat /\ U64 \in Nat \ {0}
      /\ coll[c].minted_count \in Nat
  BY <1>1, TreasuryNumbersAssumption DEF CollectionState
<1> QED
  BY <1>1, <1>2, SplitFacts DEF Part

\* A reward whose products fit loses a lamport at most in its two parts.
LEMMA PartsExact ==
  ASSUME TypeOK, NEW c \in Collections, Exists(c), 80 * coll[c].clone_reward < U64
  PROVE  Part(c, 20) + Part(c, 80) >= coll[c].clone_reward - 1
<1> DEFINE r == coll[c].clone_reward
<1>1. r \in Nat /\ U64 \in Nat \ {0} /\ 80 * r < U64
  BY PartsFacts, TreasuryNumbersAssumption
<1> HIDE DEF r
<1>2. r * 20 \in Nat /\ r * 80 \in Nat /\ r * 20 < U64 /\ r * 80 < U64
  BY <1>1
<1>3. (r * 20) % U64 = r * 20 /\ (r * 80) % U64 = r * 80
  BY <1>1, <1>2, NoWrap
<1>4. (r * 20) \div 100 + (r * 80) \div 100 >= r - 1
  BY <1>1
<1> QED
  BY <1>3, <1>4 DEF Part, r

\* What is credited to the record that is cloned.
LEMMA OriginalPartFacts ==
  ASSUME TypeOK, NEW c \in Collections, Exists(c), NEW o
  PROVE  /\ OriginalPart(c, o) \in Nat
         /\ OriginalPart(c, o) <= coll[c].clone_reward
         /\ TwoLevels(o) => OriginalPart(c, o) + Part(c, 80) <= coll[c].clone_reward
BY PartsFacts DEF OriginalPart

-----------------------------------------------------------------------------
(* Addresses and records.                                                  *)

LEMMA AddressFacts ==
  ASSUME NEW a \in NftPdas
  PROVE  /\ a[1] \in Collections /\ a[2] \in Nat
         /\ a = <<a[1], a[2]>>
         /\ a # None /\ a \notin Collections
BY TreasuryNumbersAssumption, TreasuryNamesAssumption DEF NftPdas, Indexes

LEMMA RecordFacts ==
  ASSUME TypeOK, NEW a \in DOMAIN nft
  PROVE  /\ a \in NftPdas /\ nft[a] \in NftState
         /\ nft[a].original_nft \in NftPdas \cup Collections \cup {None}
         /\ nft[a].parent_nft \in NftPdas \cup Collections \cup {None}
         /\ nft[a].generation \in Nat
         /\ nft[a].clone_count \in Nat
         /\ nft[a].pending_rewards \in Nat
BY TreasuryNumbersAssumption DEF TypeOK, NftState

LEMMA FinitelyMany ==
  ASSUME TypeOK
  PROVE  IsFiniteSet(DOMAIN nft)
<1>1. IsFiniteSet(Indexes)
  BY TreasuryNumbersAssumption, FS_Interval DEF Indexes
<1>2. IsFiniteSet(NftPdas)
  BY <1>1, TreasuryNamesAssumption, FS_Product DEF NftPdas
<1> QED
  BY <1>2, FS_Subset DEF TypeOK

\* The record s is of the same family as r, at the same place in it.
SameKin(r, s) ==
  /\ r.kind = s.kind /\ r.generation = s.generation
  /\ r.original_nft = s.original_nft /\ r.parent_nft = s.parent_nft

LEMMA NewRecordFacts ==
  ASSUME NEW kind \in NftKind
  PROVE  /\ NewRecord(kind) \in NftState
         /\ NewRecord(kind).pending_rewards = 0
         /\ NewRecord(kind).clone_count = 0
         /\ NewRecord(kind).generation = 0
         /\ NewRecord(kind).original_nft = None
         /\ NewRecord(kind).parent_nft = None
BY TreasuryNumbersAssumption DEF NewRecord, NftState

LEMMA CopyFacts ==
  ASSUME NEW i \in NftPdas \cup Collections, NEW o \in NftState
  PROVE  /\ CopyOf(i, o) \in NftState
         /\ CopyOf(i, o).pending_rewards = 0
         /\ CopyOf(i, o).clone_count = 0
         /\ CopyOf(i, o).kind = o.kind
         /\ CopyOf(i, o).generation = (o.generation + 1) % U8
         /\ CopyOf(i, o).original_nft
              = IF o.generation = 0 \/ o.original_nft = None THEN i ELSE o.original_nft
         /\ CopyOf(i, o).parent_nft = IF o.generation = 0 THEN None ELSE i
<1> DEFINE n == NewRecord(o.kind)
           h == o.generation + 1
           g == h % U8
           original == IF o.generation = 0 \/ o.original_nft = None
                       THEN i ELSE o.original_nft
           parent == IF o.generation = 0 THEN None ELSE i
           n1 == [n EXCEPT !.generation = g]
           n2 == [n1 EXCEPT !.original_nft = original]
           n3 == [n2 EXCEPT !.parent_nft = parent]
<1>1. /\ o.kind \in NftKind
      /\ o.original_nft \in NftPdas \cup Collections \cup {None}
      /\ h \in Nat /\ U8 \in Nat \ {0}
  BY TreasuryNumbersAssumption DEF NftState
<1>2. /\ original \in NftPdas \cup Collections \cup {None}
      /\ parent \in NftPdas \cup Collections \cup {None}
  BY <1>1
<1>3. CopyOf(i, o) = n3
  BY SMT DEF CopyOf
<1>4. /\ n \in NftState /\ n.pending_rewards = 0 /\ n.clone_count = 0
      /\ n.kind = o.kind
  BY <1>1, NewRecordFacts DEF NewRecord
<1>5. g \in 0 .. U8 - 1
  <2> HIDE DEF h
  <2> QED
    BY <1>1, ModFacts
<1> HIDE DEF original, parent, n, g
<1>6. /\ n1 \in NftState /\ n1.pending_rewards = 0 /\ n1.clone_count = 0
      /\ n1.kind = o.kind /\ n1.generation = g
  BY <1>4, <1>5 DEF NftState
<1> HIDE DEF n1
<1>7. /\ n2 \in NftState /\ n2.pending_rewards = 0 /\ n2.clone_count = 0
      /\ n2.kind = o.kind /\ n2.generation = g /\ n2.original_nft = original
  BY <1>2, <1>6 DEF NftState
<1> HIDE DEF n2
<1>8. /\ n3 \in NftState /\ n3.pending_rewards = 0 /\ n3.clone_count = 0
      /\ n3.kind = o.kind /\ n3.generation = g /\ n3.original_nft = original
      /\ n3.parent_nft = parent
  BY <1>2, <1>7 DEF NftState
<1> QED
  BY <1>3, <1>8 DEF g, original, parent

\* A credit changes the amount only, by at most what is credited, and by all
\* of it if the sum does not wrap.
LEMMA CreditFacts ==
  ASSUME NEW r \in NftState, NEW n \in Nat
  PROVE  /\ Credit(r, n) \in NftState
         /\ SameKin(Credit(r, n), r)
         /\ Credit(r, n).clone_count = r.clone_count
         /\ r.pending_rewards \in Nat
         /\ Credit(r, n).pending_rewards \in Nat
         /\ Credit(r, n).pending_rewards <= r.pending_rewards + n
         /\ r.pending_rewards + n < U64 =>
              Credit(r, n).pending_rewards = r.pending_rewards + n
<1>1. r.pending_rewards \in Nat /\ U64 \in Nat \ {0}
  BY TreasuryNumbersAssumption DEF NftState
<1>2. r.pending_rewards + n \in Nat
  BY <1>1
<1>3. /\ (r.pending_rewards + n) % U64 \in 0 .. U64 - 1
      /\ (r.pending_rewards + n) % U64 <= r.pending_rewards + n
      /\ r.pending_rewards + n < U64 =>
           (r.pending_rewards + n) % U64 = r.pending_rewards + n
  BY <1>1, <1>2, ModFacts, NoWrap
<1>4. /\ Credit(r, n) \in NftState
      /\ SameKin(Credit(r, n), r)
      /\ Credit(r, n).clone_count = r.clone_count
      /\ Credit(r, n).pending_rewards = (r.pending_rewards + n) % U64
  BY <1>3 DEF Credit, NftState, SameKin
<1> QED
  BY <1>1, <1>3, <1>4

-----------------------------------------------------------------------------
(* A new record.                                                           *)

\* The next record is put at an address where there is none.
LEMMA IssueFacts ==
  ASSUME TypeOK, NEW c \in Collections,
         NEW records \in [DOMAIN nft -> NftState], NEW r \in NftState,
         Issue(c, records, r)
  PROVE  /\ Exists(c)
         /\ coll' = [coll EXCEPT ![c].minted_count = @ + 1]
         /\ coll' \in [Collections -> CollectionState \cup {None}]
         /\ coll'[c] \in CollectionState /\ coll'[c] # None
         /\ NextPda(c) \in NftPdas
         /\ NextPda(c) \notin DOMAIN nft
         /\ DOMAIN nft' = DOMAIN nft \cup {NextPda(c)}
         /\ nft' \in [DOMAIN nft' -> NftState]
         /\ nft'[NextPda(c)] = r
         /\ \A a \in DOMAIN nft : nft'[a] = records[a]
<1>1. /\ Exists(c) /\ coll[c] \in CollectionState
      /\ coll[c].minted_count < Supply
      /\ NextPda(c) \notin DOMAIN nft
      /\ nft' = Create(records, NextPda(c), r)
      /\ coll' = [coll EXCEPT ![c].minted_count = @ + 1]
  BY PartsFacts DEF Issue
<1>2. /\ coll[c].minted_count \in Indexes
      /\ [coll[c] EXCEPT !.minted_count = @ + 1] \in CollectionState
  BY <1>1, TreasuryNumbersAssumption DEF CollectionState, Indexes
<1>3. /\ coll' \in [Collections -> CollectionState \cup {None}]
      /\ coll'[c] \in CollectionState /\ coll'[c] # None
  BY <1>1, <1>2, TreasuryNamesAssumption DEF TypeOK
<1>4. NextPda(c) \in NftPdas
  BY <1>2 DEF NextPda, NftPdas
<1>5. /\ DOMAIN nft' = DOMAIN nft \cup {NextPda(c)}
      /\ nft'[NextPda(c)] = r
      /\ \A a \in DOMAIN nft : nft'[a] = records[a]
      /\ nft' \in [DOMAIN nft' -> NftState]
  BY <1>1 DEF Create
<1> QED
  BY <1>1, <1>3, <1>4, <1>5

\* The collections after the next record.
LEMMA IssueCounts ==
  ASSUME TypeOK, NEW c \in Collections, Exists(c),
         coll' = [coll EXCEPT ![c].minted_count = @ + 1]
  PROVE  /\ coll'[c] = [coll[c] EXCEPT !.minted_count = @ + 1]
         /\ coll'[c].minted_count = coll[c].minted_count + 1
         /\ \A x \in Collections \ {c} : coll'[x] = coll[x]
<1>1. coll[c] \in CollectionState /\ coll \in [Collections -> CollectionState \cup {None}]
  BY PartsFacts DEF TypeOK
<1>2. /\ coll'[c] = [coll[c] EXCEPT !.minted_count = @ + 1]
      /\ \A x \in Collections \ {c} : coll'[x] = coll[x]
  BY <1>1
<1>3. coll'[c].minted_count = coll[c].minted_count + 1
  BY <1>1, <1>2 DEF CollectionState
<1> QED
  BY <1>2, <1>3

\* What a clone does to the records that exist.
LEMMA RewardedFacts ==
  ASSUME TypeOK, NEW c \in Collections, Exists(c), NEW i, NEW o
  PROVE  /\ Rewarded(c, i, o) \in [DOMAIN nft -> NftState]
         /\ \A a \in DOMAIN nft :
              /\ SameKin(Rewarded(c, i, o)[a], nft[a])
              /\ Rewarded(c, i, o)[a].clone_count
                   = IF a = i THEN nft[a].clone_count + 1 ELSE nft[a].clone_count
              /\ Rewarded(c, i, o)[a].pending_rewards
                   = IF a = i THEN Credit(nft[a], OriginalPart(c, o)).pending_rewards
                     ELSE IF a \in Credited(i, o)
                     THEN Credit(nft[a], Part(c, 80)).pending_rewards
                     ELSE nft[a].pending_rewards
<1> DEFINE F(a) == IF a = i
                   THEN [Credit(nft[a], OriginalPart(c, o)) EXCEPT !.clone_count = @ + 1]
                   ELSE IF a \in Credited(i, o) THEN Credit(nft[a], Part(c, 80)) ELSE nft[a]
<1>1. OriginalPart(c, o) \in Nat /\ Part(c, 80) \in Nat
  BY OriginalPartFacts, PartsFacts
<1>2. ASSUME NEW a \in DOMAIN nft
      PROVE  /\ F(a) \in NftState
             /\ SameKin(F(a), nft[a])
             /\ F(a).clone_count
                  = IF a = i THEN nft[a].clone_count + 1 ELSE nft[a].clone_count
             /\ F(a).pending_rewards
                  = IF a = i THEN Credit(nft[a], OriginalPart(c, o)).pending_rewards
                    ELSE IF a \in Credited(i, o)
                    THEN Credit(nft[a], Part(c, 80)).pending_rewards
                    ELSE nft[a].pending_rewards
  <2>1. nft[a] \in NftState
    BY RecordFacts
  <2>2. CASE a = i
    <3> DEFINE d == Credit(nft[a], OriginalPart(c, o))
    <3>1. d \in NftState /\ SameKin(d, nft[a]) /\ d.clone_count = nft[a].clone_count
      BY <1>1, <2>1, CreditFacts
    <3>2. F(a) = [d EXCEPT !.clone_count = @ + 1]
      BY <2>2
    <3> HIDE DEF d, F
    <3>3. /\ F(a) \in NftState /\ SameKin(F(a), d)
          /\ F(a).clone_count = d.clone_count + 1
          /\ F(a).pending_rewards = d.pending_rewards
      BY <3>1, <3>2 DEF NftState, SameKin
    <3> QED
      BY <2>2, <3>1, <3>3 DEF SameKin, d
  <2>3. CASE a # i /\ a \in Credited(i, o)
    <3>1. F(a) = Credit(nft[a], Part(c, 80))
      BY <2>3
    <3>2. /\ Credit(nft[a], Part(c, 80)) \in NftState
          /\ SameKin(Credit(nft[a], Part(c, 80)), nft[a])
          /\ Credit(nft[a], Part(c, 80)).clone_count = nft[a].clone_count
      BY <1>1, <2>1, CreditFacts
    <3> HIDE DEF F
    <3> QED
      BY <2>3, <3>1, <3>2
  <2>4. CASE a # i /\ a \notin Credited(i, o)
    BY <2>1, <2>4 DEF SameKin
  <2> QED
    BY <2>2, <2>3, <2>4
<1>3. Rewarded(c, i, o) = [a \in DOMAIN nft |-> F(a)]
  BY DEF Rewarded
<1> HIDE DEF F
<1> QED
  BY <1>2, <1>3

-----------------------------------------------------------------------------
(* The steps, by what they do to the records.                              *)

\* A new record that is no copy.
PlainIssue ==
  /\ \E c \in Collections, kind \in NftKind : Issue(c, nft, NewRecord(kind))
  /\ UNCHANGED <<due, settled, slack, inits, stray>>

\* A clone of a record, or of an account that is none.
Cloning ==
  \E c \in Collections, i \in DOMAIN nft \cup Collections, o \in NftState :
    /\ i \in DOMAIN nft => o = nft[i]
    /\ CloneNft(c, i, o)

\* What becomes of the record of a collection in any other step.
Passing(c) ==
  \/ /\ inits'[c] = inits[c]
     /\ \/ coll'[c] = None
        \/ coll[c] # None /\ coll'[c].minted_count = coll[c].minted_count
  \/ inits'[c] = inits[c] + 1

\* A step without a new record: one may go, another is paid out, but no family
\* changes.
Shrinking ==
  /\ DOMAIN nft' \subseteq DOMAIN nft
  /\ \A a \in DOMAIN nft' :
       /\ SameKin(nft'[a], nft[a])
       /\ nft'[a].clone_count = nft[a].clone_count
       /\ nft'[a].pending_rewards = nft[a].pending_rewards \/ nft'[a].pending_rewards = 0
  /\ \A c \in Collections : Passing(c)
  /\ UNCHANGED <<due, slack, stray>>

LEMMA SameRecords == nft' = nft =>
  /\ DOMAIN nft' \subseteq DOMAIN nft
  /\ \A a \in DOMAIN nft' :
       /\ SameKin(nft'[a], nft[a])
       /\ nft'[a].clone_count = nft[a].clone_count
       /\ nft'[a].pending_rewards = nft[a].pending_rewards \/ nft'[a].pending_rewards = 0
BY DEF SameKin

\* The records after the claim of i.
LEMMA ClaimedRecords ==
  ASSUME TypeOK, NEW i \in DOMAIN nft
  PROVE  LET claimed == [nft EXCEPT ![i].pending_rewards = 0]
         IN  /\ claimed \in [DOMAIN nft -> NftState]
             /\ claimed[i].pending_rewards = 0
             /\ \A a \in DOMAIN nft \ {i} : claimed[a] = nft[a]
             /\ \A a \in DOMAIN nft :
                  /\ SameKin(claimed[a], nft[a])
                  /\ claimed[a].clone_count = nft[a].clone_count
                  /\ claimed[a].pending_rewards = nft[a].pending_rewards
                       \/ claimed[a].pending_rewards = 0
<1> DEFINE claimed == [nft EXCEPT ![i].pending_rewards = 0]
<1>1. nft \in [DOMAIN nft -> NftState] /\ 0 \in 0 .. U64 - 1
  BY TreasuryNumbersAssumption DEF TypeOK
<1>2. claimed \in [DOMAIN nft -> NftState]
  BY <1>1 DEF NftState
<1>3. /\ claimed[i].pending_rewards = 0
      /\ \A a \in DOMAIN nft \ {i} : claimed[a] = nft[a]
  BY <1>1 DEF NftState
<1>4. SameKin(claimed[i], nft[i]) /\ claimed[i].clone_count = nft[i].clone_count
  BY <1>1 DEF NftState, SameKin
<1>5. ASSUME NEW a \in DOMAIN nft
      PROVE  /\ SameKin(claimed[a], nft[a])
             /\ claimed[a].clone_count = nft[a].clone_count
             /\ claimed[a].pending_rewards = nft[a].pending_rewards
                  \/ claimed[a].pending_rewards = 0
  <2> HIDE DEF claimed
  <2>1. CASE a = i
    BY <1>3, <1>4, <2>1
  <2>2. CASE a # i
    BY <1>3, <2>2 DEF SameKin
  <2> QED
    BY <2>1, <2>2
<1> QED
  BY <1>2, <1>3, <1>5

LEMMA PurgeFacts ==
  ASSUME NEW f, NEW j
  PROVE  /\ DOMAIN Purge(f, j) = DOMAIN f \ {j}
         /\ \A a \in DOMAIN f \ {j} : Purge(f, j)[a] = f[a]
         /\ f \in [DOMAIN f -> NftState] =>
              Purge(f, j) \in [DOMAIN f \ {j} -> NftState]
BY DEF Purge, Restrict

LEMMA StepKinds ==
  ASSUME TypeOK, [Next]_vars
  PROVE  PlainIssue \/ Cloning \/ Shrinking
<1>1. /\ nft \in [DOMAIN nft -> NftState]
      /\ inits \in [Collections -> Nat]
      /\ coll \in [Collections -> CollectionState \cup {None}]
  BY DEF TypeOK
<1>2. ASSUME coll' = coll, inits' = inits
      PROVE  \A c \in Collections : Passing(c)
  BY <1>2 DEF Passing
<1>3. ASSUME NEW c \in Collections, NEW reward \in Rewards, InitializeCollection(c, reward)
      PROVE  Shrinking
  <2>1. /\ inits' = [inits EXCEPT ![c] = @ + 1]
        /\ \E r : coll' = [coll EXCEPT ![c] = r]
        /\ UNCHANGED <<nft, due, settled, slack, stray>>
    BY <1>3 DEF InitializeCollection
  <2>2. \A x \in Collections : Passing(x)
    BY <1>1, <2>1 DEF Passing
  <2> QED
    BY <2>1, <2>2, SameRecords DEF Shrinking
<1>4. ASSUME NEW c \in Collections, NEW count \in 0 .. Supply, NEW reward \in Rewards,
             NEW lamports \in Rent .. MaxTreasury,
             HandledAsCollection(c, count, reward, lamports)
      PROVE  Shrinking
  <2>1. /\ inits' = [inits EXCEPT ![c] = @ + 1]
        /\ \E r : coll' = [coll EXCEPT ![c] = r]
        /\ UNCHANGED <<nft, due, settled, slack, stray>>
    BY <1>4 DEF HandledAsCollection
  <2>2. \A x \in Collections : Passing(x)
    BY <1>1, <2>1 DEF Passing
  <2> QED
    BY <2>1, <2>2, SameRecords DEF Shrinking
<1>5. ASSUME NEW c \in Collections, NEW reward \in Rewards,
             NEW left \in 0 .. treasury[c], HandledAsRecord(c, reward, left)
      PROVE  Shrinking
  <2>1. /\ Exists(c)
        /\ coll' = [coll EXCEPT ![c] =
                      IF left = 0 THEN None ELSE [@ EXCEPT !.clone_reward = reward]]
        /\ UNCHANGED <<nft, due, settled, slack, inits, stray>>
    BY <1>5 DEF HandledAsRecord
  <2>2. \A x \in Collections \ {c} : Passing(x)
    BY <1>1, <2>1 DEF Passing
  <2>3. Passing(c)
    <3>1. coll[c] \in CollectionState /\ coll[c] # None
      BY <2>1, PartsFacts DEF Exists
    <3>2. coll'[c] = IF left = 0 THEN None ELSE [coll[c] EXCEPT !.clone_reward = reward]
      BY <1>1, <2>1
    <3> QED
      BY <2>1, <3>1, <3>2 DEF Passing, CollectionState
  <2> QED
    BY <2>1, <2>2, <2>3, SameRecords DEF Shrinking
<1>6. ASSUME NEW c \in Collections, NEW kind \in MintKinds,
             MintNft(c, kind) \/ \E n \in Payments : AutoMint(c, kind, n)
      PROVE  PlainIssue
  BY <1>6, TreasuryKindsAssumption DEF MintNft, AutoMint, PlainIssue
<1>7. ASSUME NEW c \in Collections, NEW i \in DOMAIN nft, CloneNft(c, i, nft[i])
      PROVE  Cloning
  BY <1>1, <1>7 DEF Cloning
<1>8. ASSUME NEW c \in Collections, NEW x \in Collections, NEW o \in Crafted,
             CloneNft(c, x, o)
      PROVE  Cloning
  <2>1. o \in NftState /\ x \notin DOMAIN nft
    BY TreasuryCraftedAssumption, TreasuryNamesAssumption DEF TypeOK
  <2> QED
    BY <1>8, <2>1 DEF Cloning
<1>9. ASSUME NEW i \in DOMAIN nft, NEW c \in Collections, NEW to,
             ClaimFromCollection(i, c, to)
      PROVE  Shrinking
  <2>1. /\ nft' = [nft EXCEPT ![i].pending_rewards = 0]
        /\ \E r : r \in {None, coll[c]} /\ coll' = [coll EXCEPT ![c] = r]
        /\ Exists(c)
        /\ UNCHANGED <<due, slack, inits, stray>>
    BY <1>9 DEF ClaimFromCollection
  <2>2. \A x \in Collections : Passing(x)
    <3>1. \A x \in Collections : coll'[x] = coll[x] \/ coll'[x] = None
      BY <1>1, <2>1
    <3> QED
      BY <2>1, <3>1 DEF Passing
  <2>3. /\ DOMAIN nft' = DOMAIN nft
        /\ \A a \in DOMAIN nft :
             /\ SameKin(nft'[a], nft[a])
             /\ nft'[a].clone_count = nft[a].clone_count
             /\ nft'[a].pending_rewards = nft[a].pending_rewards
                  \/ nft'[a].pending_rewards = 0
    BY <2>1, ClaimedRecords
  <2> QED
    BY <2>1, <2>2, <2>3 DEF Shrinking
<1>10. ASSUME NEW i \in DOMAIN nft, NEW j \in DOMAIN nft, NEW to,
              NEW emptied \in BOOLEAN, ClaimFromRecord(i, j, to, emptied)
       PROVE  Shrinking
  <2> DEFINE claimed == [nft EXCEPT ![i].pending_rewards = 0]
  <2>1. /\ nft' = claimed \/ nft' = Purge(claimed, j)
        /\ UNCHANGED <<coll, due, slack, inits, stray>>
    BY <1>10 DEF ClaimFromRecord
  <2>2. /\ claimed \in [DOMAIN nft -> NftState]
        /\ \A a \in DOMAIN nft :
             /\ SameKin(claimed[a], nft[a])
             /\ claimed[a].clone_count = nft[a].clone_count
             /\ claimed[a].pending_rewards = nft[a].pending_rewards
                  \/ claimed[a].pending_rewards = 0
    BY ClaimedRecords
  <2> HIDE DEF claimed
  <2>3. /\ DOMAIN nft' \subseteq DOMAIN nft
        /\ \A a \in DOMAIN nft' : nft'[a] = claimed[a]
    <3>1. /\ DOMAIN Purge(claimed, j) = DOMAIN nft \ {j}
          /\ \A a \in DOMAIN nft \ {j} : Purge(claimed, j)[a] = claimed[a]
      <4>1. DOMAIN claimed = DOMAIN nft
        BY <2>2
      <4>2. /\ DOMAIN Purge(claimed, j) = DOMAIN claimed \ {j}
            /\ \A a \in DOMAIN claimed \ {j} : Purge(claimed, j)[a] = claimed[a]
        BY PurgeFacts
      <4> QED
        BY <4>1, <4>2
    <3>2. DOMAIN claimed = DOMAIN nft
      BY <2>2
    <3>3. CASE nft' = claimed
      BY <3>2, <3>3
    <3>4. CASE nft' = Purge(claimed, j)
      BY <3>1, <3>4
    <3> QED
      BY <2>1, <3>3, <3>4
  <2>4. \A c \in Collections : Passing(c)
    BY <1>2, <2>1
  <2> QED
    BY <2>1, <2>2, <2>3, <2>4 DEF Shrinking
<1>11. ASSUME NEW i \in DOMAIN nft, Remove(i)
       PROVE  Shrinking
  <2>1. /\ nft' = Purge(nft, i)
        /\ UNCHANGED <<coll, due, slack, inits, stray>>
    BY <1>11 DEF Remove
  <2>2. /\ DOMAIN nft' \subseteq DOMAIN nft
        /\ \A a \in DOMAIN nft' : nft'[a] = nft[a]
    <3>1. /\ DOMAIN Purge(nft, i) = DOMAIN nft \ {i}
          /\ \A a \in DOMAIN nft \ {i} : Purge(nft, i)[a] = nft[a]
      BY PurgeFacts
    <3> QED
      BY <2>1, <3>1
  <2>3. \A c \in Collections : Passing(c)
    BY <1>2, <2>1
  <2> QED
    BY <2>1, <2>2, <2>3 DEF Shrinking, SameKin
<1>12. ASSUME UNCHANGED <<coll, nft, due, slack, inits, stray>>
       PROVE  Shrinking
  <2>1. \A c \in Collections : Passing(c)
    BY <1>2, <1>12
  <2> QED
    BY <1>12, <2>1, SameRecords DEF Shrinking
<1>13. CASE \E c \in Collections, n \in Payments : Deposit(c, n)
  BY <1>12, <1>13 DEF Deposit
<1>14. CASE UNCHANGED vars
  BY <1>12, <1>14 DEF vars
<1>15. CASE \E i \in DOMAIN nft : BurnNft(i) \/ EmptiedByClaim(i)
  BY <1>11, <1>15 DEF BurnNft, EmptiedByClaim
<1> QED
  BY <1>3, <1>4, <1>5, <1>6, <1>7, <1>8, <1>9, <1>10, <1>13, <1>14, <1>15 DEF Next

-----------------------------------------------------------------------------
(* The books: types, and the rent.                                         *)

CollectionsOK ==
  /\ coll \in [Collections -> CollectionState \cup {None}]
  /\ treasury \in [Collections -> Nat]
  /\ inits \in [Collections -> Nat]
  /\ RentKept

RecordsOK ==
  /\ DOMAIN nft \subseteq NftPdas
  /\ nft \in [DOMAIN nft -> NftState]
  /\ due \in Nat /\ settled \in Nat /\ slack \in Nat
  /\ stray \subseteq NftPdas

LEMMA BooksParts == Books <=> CollectionsOK /\ RecordsOK
BY DEF Books, TypeOK, CollectionsOK, RecordsOK

LEMMA BooksNext == CollectionsOK' /\ RecordsOK' => Books'
BY DEF Books, TypeOK, CollectionsOK, RecordsOK

LEMMA InitBooks == Init => Books
<1> SUFFICES ASSUME Init PROVE Books
  OBVIOUS
<1>1. CollectionsOK
  BY DEF Init, CollectionsOK, RentKept, Exists
<1>2. RecordsOK
  BY DEF Init, RecordsOK, NoAccounts
<1> QED
  BY <1>1, <1>2, BooksParts

\* One collection's account and balance change.
LEMMA OneCollection ==
  ASSUME CollectionsOK, NEW c \in Collections,
         NEW r \in CollectionState \cup {None}, NEW l \in Nat, NEW n \in Nat,
         coll' = [coll EXCEPT ![c] = r], treasury' = [treasury EXCEPT ![c] = l],
         inits' = [inits EXCEPT ![c] = n],
         r # None => l >= Rent /\ n > 0
  PROVE  CollectionsOK'
BY DEF CollectionsOK, RentKept, Exists

LEMMA NoCollection ==
  ASSUME CollectionsOK, UNCHANGED <<coll, treasury, inits>>
  PROVE  CollectionsOK'
BY DEF CollectionsOK, RentKept, Exists

LEMMA SettledRecords ==
  ASSUME RecordsOK, NEW n \in Nat, settled' = settled + n,
         DOMAIN nft' \subseteq DOMAIN nft, nft' \in [DOMAIN nft' -> NftState],
         UNCHANGED <<due, slack, stray>>
  PROVE  RecordsOK'
BY DEF RecordsOK

LEMMA NoRecord ==
  ASSUME RecordsOK, UNCHANGED <<nft, due, settled, slack, stray>>
  PROVE  RecordsOK'
BY DEF RecordsOK

\* A collection's account is created, or a record's is used as one.
LEMMA InitializeBooks ==
  ASSUME Books, NEW c \in Collections, NEW count \in 0 .. Supply, NEW reward \in Rewards,
         NEW lamports \in Nat, lamports >= Rent,
         coll' = [coll EXCEPT ![c] = [minted_count |-> count, clone_reward |-> reward]],
         treasury' = [treasury EXCEPT ![c] = lamports],
         inits' = [inits EXCEPT ![c] = @ + 1],
         UNCHANGED <<nft, due, settled, slack, stray>>
  PROVE  Books'
<1> DEFINE r == [minted_count |-> count, clone_reward |-> reward]
           n == inits[c] + 1
<1>1. CollectionsOK /\ RecordsOK
  BY BooksParts
<1>2. r \in CollectionState
  BY TreasuryNumbersAssumption DEF CollectionState
<1>3. n \in Nat /\ n > 0
  BY <1>1 DEF CollectionsOK
<1>4. coll' = [coll EXCEPT ![c] = r] /\ inits' = [inits EXCEPT ![c] = n]
  OBVIOUS
<1> HIDE DEF r, n
<1>5. CollectionsOK'
  BY <1>1, <1>2, <1>3, <1>4, OneCollection
<1>6. RecordsOK'
  BY <1>1, NoRecord
<1> QED
  BY <1>5, <1>6, BooksNext

LEMMA HandledBooks ==
  ASSUME Books, NEW c \in Collections, NEW reward \in Rewards,
         NEW left \in 0 .. treasury[c], HandledAsRecord(c, reward, left)
  PROVE  Books'
<1> DEFINE r == IF left = 0 THEN None ELSE [coll[c] EXCEPT !.clone_reward = reward]
<1>1. CollectionsOK /\ RecordsOK
  BY BooksParts
<1>2. /\ coll[c] \in CollectionState /\ inits[c] > 0 /\ inits[c] \in Nat
      /\ treasury[c] \in Nat /\ left \in Nat
      /\ left = 0 \/ left >= Rent
      /\ coll' = [coll EXCEPT ![c] = r] /\ treasury' = [treasury EXCEPT ![c] = left]
      /\ inits' = inits
      /\ UNCHANGED <<nft, due, settled, slack, stray>>
  BY <1>1 DEF HandledAsRecord, CollectionsOK, RentKept, Exists
<1>3. r \in CollectionState \cup {None} /\ (r # None => left # 0)
  BY <1>2, TreasuryNumbersAssumption DEF CollectionState
<1> HIDE DEF r
<1>4. inits' = [inits EXCEPT ![c] = inits[c]]
  BY <1>1, <1>2 DEF CollectionsOK
<1>5. CollectionsOK'
  BY <1>1, <1>2, <1>3, <1>4, OneCollection
<1>6. RecordsOK'
  BY <1>1, <1>2, NoRecord
<1> QED
  BY <1>5, <1>6, BooksNext

\* The balance of a collection grows, and an index is used or not.
LEMMA GrowingBalance ==
  ASSUME CollectionsOK, NEW c \in Collections, Exists(c), NEW n \in Nat,
         coll' = coll \/ coll' = [coll EXCEPT ![c].minted_count = @ + 1],
         coll' \in [Collections -> CollectionState \cup {None}],
         treasury' = [treasury EXCEPT ![c] = @ + n], inits' = inits
  PROVE  CollectionsOK'
<1>1. \A x \in Collections : coll'[x] # None => coll[x] # None
  BY DEF CollectionsOK, Exists
<1>2. \A x \in Collections : treasury'[x] \in Nat /\ treasury'[x] >= treasury[x]
  BY DEF CollectionsOK
<1>3. treasury' \in [Collections -> Nat]
  BY <1>2 DEF CollectionsOK
<1>4. Rent \in Nat
  BY TreasuryNumbersAssumption
<1>5. RentKept'
  BY <1>1, <1>2, <1>4 DEF CollectionsOK, RentKept, Exists
<1> QED
  BY <1>3, <1>5 DEF CollectionsOK

LEMMA DepositBooks ==
  ASSUME Books, NEW c \in Collections, NEW n \in Payments, Deposit(c, n)
  PROVE  Books'
<1>1. CollectionsOK /\ RecordsOK /\ n \in Nat
  BY BooksParts, TreasuryNumbersAssumption
<1>2. /\ treasury' = [treasury EXCEPT ![c] = @ + n] /\ coll' = coll /\ inits' = inits
      /\ UNCHANGED <<nft, due, settled, slack, stray>>
  BY DEF Deposit
<1>3. \A x \in Collections : treasury'[x] \in Nat /\ treasury'[x] >= treasury[x]
  BY <1>1, <1>2 DEF CollectionsOK
<1>4. treasury' \in [Collections -> Nat]
  BY <1>1, <1>2, <1>3 DEF CollectionsOK
<1>5. RentKept'
  BY <1>1, <1>2, <1>3, TreasuryNumbersAssumption DEF CollectionsOK, RentKept, Exists
<1>6. CollectionsOK' /\ RecordsOK'
  BY <1>1, <1>2, <1>4, <1>5, NoRecord DEF CollectionsOK
<1> QED
  BY <1>6, BooksNext

LEMMA IssuedRecords ==
  ASSUME Books, NEW c \in Collections, NEW records \in [DOMAIN nft -> NftState],
         NEW r \in NftState, Issue(c, records, r),
         due' \in Nat, slack' \in Nat, settled' = settled,
         stray' \subseteq stray \cup {NextPda(c)}
  PROVE  RecordsOK'
<1>1. TypeOK /\ RecordsOK
  BY BooksParts DEF Books
<1>2. /\ NextPda(c) \in NftPdas
      /\ DOMAIN nft' = DOMAIN nft \cup {NextPda(c)}
      /\ nft' \in [DOMAIN nft' -> NftState]
  BY <1>1, IssueFacts
<1> QED
  BY <1>1, <1>2 DEF RecordsOK

LEMMA MintBooks ==
  ASSUME Books, NEW c \in Collections, NEW kind \in NftKind, NEW n \in Nat,
         Issue(c, nft, NewRecord(kind)), treasury' = [treasury EXCEPT ![c] = @ + n],
         UNCHANGED <<due, settled, slack, inits, stray>>
  PROVE  Books'
<1>1. /\ CollectionsOK /\ RecordsOK /\ TypeOK
      /\ nft \in [DOMAIN nft -> NftState] /\ NewRecord(kind) \in NftState
  BY BooksParts, NewRecordFacts DEF Books, TypeOK
<1>2. /\ Exists(c) /\ coll' = [coll EXCEPT ![c].minted_count = @ + 1]
      /\ coll' \in [Collections -> CollectionState \cup {None}]
  BY <1>1, IssueFacts
<1>3. CollectionsOK'
  BY <1>1, <1>2, GrowingBalance
<1>4. RecordsOK'
  BY <1>1, IssuedRecords DEF RecordsOK
<1> QED
  BY <1>3, <1>4, BooksNext

LEMMA MissFacts ==
  ASSUME TypeOK, NEW c \in Collections, Exists(c), NEW i, NEW o
  PROVE  MayMiss(c, i, o) \in Nat
BY PartsFacts DEF MayMiss

LEMMA CloneBooks ==
  ASSUME Books, NEW c \in Collections, NEW i \in NftPdas \cup Collections,
         NEW o \in NftState, CloneNft(c, i, o)
  PROVE  Books'
<1>1. CollectionsOK /\ RecordsOK /\ TypeOK
  BY BooksParts DEF Books
<1>2. /\ Issue(c, Rewarded(c, i, o), CopyOf(i, o))
      /\ due' = due + coll[c].clone_reward
      /\ slack' = slack + MayMiss(c, i, o)
      /\ stray' \subseteq stray \cup {NextPda(c)}
      /\ UNCHANGED <<treasury, settled, inits>>
  BY DEF CloneNft
<1>3. /\ Exists(c) /\ CopyOf(i, o) \in NftState
      /\ Rewarded(c, i, o) \in [DOMAIN nft -> NftState]
  BY <1>1, <1>2, CopyFacts, RewardedFacts DEF Issue
<1>4. /\ coll' = [coll EXCEPT ![c].minted_count = @ + 1]
      /\ coll' \in [Collections -> CollectionState \cup {None}]
  BY <1>1, <1>2, <1>3, IssueFacts
<1>5. due' \in Nat /\ slack' \in Nat
  BY <1>1, <1>2, <1>3, PartsFacts, MissFacts DEF RecordsOK
<1>6. treasury' = [treasury EXCEPT ![c] = @ + 0]
  BY <1>1, <1>2 DEF CollectionsOK
<1>7. CollectionsOK'
  BY <1>1, <1>2, <1>3, <1>4, <1>6, GrowingBalance
<1>8. RecordsOK'
  BY <1>1, <1>2, <1>3, <1>5, IssuedRecords
<1> QED
  BY <1>7, <1>8, BooksNext

\* What is paid from one collection never comes from another.
LEMMA PaidFacts ==
  ASSUME CollectionsOK, NEW from, NEW to, NEW n \in Nat,
         from \in Collections => n <= treasury[from]
  PROVE  /\ Paid(from, to, n) \in [Collections -> Nat]
         /\ \A c \in Collections : c # from => Paid(from, to, n)[c] >= treasury[c]
<1>1. ASSUME NEW c \in Collections
      PROVE  /\ Paid(from, to, n)[c] \in Nat
             /\ c # from => Paid(from, to, n)[c] >= treasury[c]
  <2>1. treasury[c] \in Nat
    BY DEF CollectionsOK
  <2>2. Paid(from, to, n)[c]
          = treasury[c] - (IF c = from THEN n ELSE 0) + (IF c = to THEN n ELSE 0)
    BY DEF Paid
  <2> QED
    BY <2>1, <2>2
<1> QED
  BY <1>1 DEF Paid

LEMMA ClaimFromCollectionBooks ==
  ASSUME Books, NEW i \in DOMAIN nft, NEW c \in Collections, NEW to,
         ClaimFromCollection(i, c, to)
  PROVE  Books'
<1> DEFINE n == nft[i].pending_rewards
           r == IF treasury'[c] = 0 THEN None ELSE coll[c]
<1>1. CollectionsOK /\ RecordsOK /\ TypeOK /\ n \in Nat
  BY BooksParts, RecordFacts DEF Books
<1>2. /\ Exists(c) /\ n <= treasury[c] /\ treasury' = Paid(c, to, n)
      /\ treasury'[c] = 0 \/ treasury'[c] >= Rent
      /\ coll' = [coll EXCEPT ![c] = r]
      /\ nft' = [nft EXCEPT ![i].pending_rewards = 0]
      /\ settled' = settled + n
      /\ UNCHANGED <<due, slack, inits, stray>>
  BY DEF ClaimFromCollection
<1> HIDE DEF n
<1>3. /\ treasury' \in [Collections -> Nat]
      /\ \A x \in Collections : x # c => treasury'[x] >= treasury[x]
  BY <1>1, <1>2, PaidFacts
<1>4. coll' \in [Collections -> CollectionState \cup {None}]
  BY <1>1, <1>2 DEF CollectionsOK
<1>5. RentKept'
  <2> SUFFICES ASSUME NEW x \in Collections, coll'[x] # None
               PROVE  treasury'[x] >= Rent /\ inits'[x] > 0
    BY DEF RentKept, Exists
  <2>1. coll[x] # None
    BY <1>1, <1>2 DEF CollectionsOK, Exists
  <2>2. treasury[x] >= Rent /\ inits'[x] > 0 /\ treasury[x] \in Nat /\ Rent \in Nat
    BY <1>1, <1>2, <2>1, TreasuryNumbersAssumption DEF CollectionsOK, RentKept, Exists
  <2>3. treasury'[x] \in Nat
    BY <1>3
  <2>4. CASE x = c
    BY <1>1, <1>2, <2>2, <2>4 DEF CollectionsOK
  <2>5. CASE x # c
    BY <1>3, <2>2, <2>3, <2>5
  <2> QED
    BY <2>4, <2>5
<1>6. CollectionsOK'
  BY <1>1, <1>2, <1>3, <1>4, <1>5 DEF CollectionsOK
<1>7. nft' \in [DOMAIN nft -> NftState]
  BY <1>1, <1>2, ClaimedRecords
<1>8. RecordsOK'
  BY <1>1, <1>2, <1>7, SettledRecords
<1> QED
  BY <1>6, <1>8, BooksNext

LEMMA ClaimFromRecordBooks ==
  ASSUME Books, NEW i \in DOMAIN nft, NEW j \in DOMAIN nft, NEW to,
         NEW emptied \in BOOLEAN, ClaimFromRecord(i, j, to, emptied)
  PROVE  Books'
<1> DEFINE n == nft[i].pending_rewards
           claimed == [nft EXCEPT ![i].pending_rewards = 0]
           gone == IF emptied THEN claimed[j].pending_rewards ELSE 0
<1>1. CollectionsOK /\ RecordsOK /\ TypeOK /\ n \in Nat /\ j \notin Collections
  BY BooksParts, RecordFacts, AddressFacts DEF Books
<1>2. claimed \in [DOMAIN nft -> NftState]
  BY <1>1, ClaimedRecords
<1>3. gone \in Nat
  <2>1. claimed[j] \in NftState
    BY <1>2
  <2>2. claimed[j].pending_rewards \in Nat
    BY <2>1, TreasuryNumbersAssumption DEF NftState
  <2> QED
    BY <2>2
<1>4. /\ treasury' = Paid(j, to, n)
      /\ nft' = claimed \/ nft' = Purge(claimed, j)
      /\ settled' = settled + n + gone
      /\ UNCHANGED <<coll, due, slack, inits, stray>>
  BY DEF ClaimFromRecord
<1> HIDE DEF n, claimed, gone
<1>5. /\ treasury' \in [Collections -> Nat]
      /\ \A x \in Collections : treasury'[x] >= treasury[x]
  BY <1>1, <1>4, PaidFacts
<1>6. RentKept'
  BY <1>1, <1>4, <1>5, TreasuryNumbersAssumption DEF CollectionsOK, RentKept, Exists
<1>7. CollectionsOK'
  BY <1>1, <1>4, <1>5, <1>6 DEF CollectionsOK
<1>8. DOMAIN nft' \subseteq DOMAIN nft /\ nft' \in [DOMAIN nft' -> NftState]
  <2>1. DOMAIN claimed = DOMAIN nft
    BY <1>2
  <2>2. /\ DOMAIN Purge(claimed, j) = DOMAIN claimed \ {j}
        /\ claimed \in [DOMAIN claimed -> NftState] =>
             Purge(claimed, j) \in [DOMAIN claimed \ {j} -> NftState]
    BY PurgeFacts
  <2> QED
    BY <1>2, <1>4, <2>1, <2>2
<1>9. n + gone \in Nat /\ settled' = settled + (n + gone)
  BY <1>1, <1>3, <1>4 DEF RecordsOK
<1>10. RecordsOK'
  BY <1>1, <1>4, <1>8, <1>9, SettledRecords
<1> QED
  BY <1>7, <1>10, BooksNext

LEMMA RemoveBooks ==
  ASSUME Books, NEW i \in DOMAIN nft, Remove(i)
  PROVE  Books'
<1>1. CollectionsOK /\ RecordsOK /\ TypeOK /\ nft[i].pending_rewards \in Nat
  BY BooksParts, RecordFacts DEF Books
<1>2. /\ nft' = Purge(nft, i) /\ settled' = settled + nft[i].pending_rewards
      /\ UNCHANGED <<coll, treasury, due, slack, inits, stray>>
  BY DEF Remove
<1>3. /\ DOMAIN Purge(nft, i) = DOMAIN nft \ {i}
      /\ nft \in [DOMAIN nft -> NftState] =>
           Purge(nft, i) \in [DOMAIN nft \ {i} -> NftState]
  BY PurgeFacts
<1>4. DOMAIN nft' \subseteq DOMAIN nft /\ nft' \in [DOMAIN nft' -> NftState]
  BY <1>1, <1>2, <1>3 DEF RecordsOK
<1>5. CollectionsOK' /\ RecordsOK'
  BY <1>1, <1>2, <1>4, NoCollection, SettledRecords
<1> QED
  BY <1>5, BooksNext

LEMMA StepBooks == Books /\ [Next]_vars => Books'
<1> SUFFICES ASSUME Books, [Next]_vars PROVE Books'
  OBVIOUS
<1>1. ASSUME NEW c \in Collections, NEW reward \in Rewards, InitializeCollection(c, reward)
      PROVE  Books'
  <2>1. 0 \in 0 .. Supply /\ Rent \in Nat /\ Rent >= Rent
    BY TreasuryNumbersAssumption
  <2> QED
    BY <1>1, <2>1, InitializeBooks DEF InitializeCollection
<1>2. ASSUME NEW c \in Collections, NEW count \in 0 .. Supply, NEW reward \in Rewards,
             NEW lamports \in Rent .. MaxTreasury,
             HandledAsCollection(c, count, reward, lamports)
      PROVE  Books'
  <2>1. lamports \in Nat /\ lamports >= Rent
    BY TreasuryNumbersAssumption
  <2> QED
    BY <1>2, <2>1, InitializeBooks DEF HandledAsCollection
<1>3. ASSUME NEW c \in Collections, NEW kind \in MintKinds, MintNft(c, kind)
      PROVE  Books'
  <2>1. treasury' = [treasury EXCEPT ![c] = @ + 0] /\ kind \in NftKind
    BY <1>3, TreasuryKindsAssumption DEF MintNft, Books, TypeOK
  <2> QED
    BY <1>3, <2>1, MintBooks DEF MintNft
<1>4. ASSUME NEW c \in Collections, NEW kind \in MintKinds, NEW n \in Payments,
             AutoMint(c, kind, n)
      PROVE  Books'
  <2>1. n \in Nat /\ kind \in NftKind
    BY TreasuryKindsAssumption, TreasuryNumbersAssumption
  <2> QED
    BY <1>4, <2>1, MintBooks DEF AutoMint
<1>5. ASSUME NEW c \in Collections, NEW i \in DOMAIN nft, CloneNft(c, i, nft[i])
      PROVE  Books'
  BY <1>5, CloneBooks, RecordFacts DEF Books
<1>6. ASSUME NEW c \in Collections, NEW x \in Collections, NEW o \in Crafted,
             CloneNft(c, x, o)
      PROVE  Books'
  BY <1>6, CloneBooks, TreasuryCraftedAssumption
<1>7. CASE \E i \in DOMAIN nft : BurnNft(i) \/ EmptiedByClaim(i)
  BY <1>7, RemoveBooks DEF BurnNft, EmptiedByClaim
<1>8. CASE UNCHANGED vars
  <2>1. CollectionsOK /\ RecordsOK
    BY BooksParts
  <2>2. CollectionsOK' /\ RecordsOK'
    BY <1>8, <2>1, NoCollection, NoRecord DEF vars
  <2> QED
    BY <2>2, BooksNext
<1> QED
  BY <1>1, <1>2, <1>3, <1>4, <1>5, <1>6, <1>7, <1>8, ClaimFromCollectionBooks,
     ClaimFromRecordBooks, HandledBooks, DepositBooks DEF Next

-----------------------------------------------------------------------------
(* Addresses are not used twice, and copies name an original.              *)

\* The next index of c is used: the records that exist keep their place in
\* their families, and their counts.
PutsNext(c) ==
  /\ Exists(c)
  /\ coll' = [coll EXCEPT ![c].minted_count = @ + 1]
  /\ NextPda(c) \in NftPdas \ DOMAIN nft
  /\ DOMAIN nft' = DOMAIN nft \cup {NextPda(c)}
  /\ \A a \in DOMAIN nft : SameKin(nft'[a], nft[a])
  /\ stray \subseteq stray'
  /\ inits' = inits

LEMMA PlainFacts ==
  ASSUME TypeOK, NEW c \in Collections, NEW kind \in NftKind,
         Issue(c, nft, NewRecord(kind)),
         UNCHANGED <<due, settled, slack, inits, stray>>
  PROVE  /\ PutsNext(c)
         /\ \A a \in DOMAIN nft : nft'[a] = nft[a]
         /\ nft'[NextPda(c)] = NewRecord(kind)
<1>1. nft \in [DOMAIN nft -> NftState] /\ NewRecord(kind) \in NftState
  BY NewRecordFacts DEF TypeOK
<1>2. /\ Exists(c)
      /\ coll' = [coll EXCEPT ![c].minted_count = @ + 1]
      /\ NextPda(c) \in NftPdas /\ NextPda(c) \notin DOMAIN nft
      /\ DOMAIN nft' = DOMAIN nft \cup {NextPda(c)}
      /\ nft'[NextPda(c)] = NewRecord(kind)
      /\ \A a \in DOMAIN nft : nft'[a] = nft[a]
  BY <1>1, IssueFacts
<1> QED
  BY <1>2 DEF PutsNext, SameKin

LEMMA CloneFacts ==
  ASSUME TypeOK, NEW c \in Collections, NEW i \in NftPdas \cup Collections,
         NEW o \in NftState, CloneNft(c, i, o)
  PROVE  /\ PutsNext(c)
         /\ \A a \in DOMAIN nft : nft'[a] = Rewarded(c, i, o)[a]
         /\ nft'[NextPda(c)] = CopyOf(i, o)
<1>1. /\ Issue(c, Rewarded(c, i, o), CopyOf(i, o))
      /\ stray' = IF i \in DOMAIN nft \ stray THEN stray ELSE stray \cup {NextPda(c)}
      /\ inits' = inits
  BY DEF CloneNft
<1>2. /\ Exists(c) /\ CopyOf(i, o) \in NftState
      /\ Rewarded(c, i, o) \in [DOMAIN nft -> NftState]
      /\ \A a \in DOMAIN nft : SameKin(Rewarded(c, i, o)[a], nft[a])
  BY <1>1, CopyFacts, RewardedFacts DEF Issue
<1>3. /\ coll' = [coll EXCEPT ![c].minted_count = @ + 1]
      /\ NextPda(c) \in NftPdas /\ NextPda(c) \notin DOMAIN nft
      /\ DOMAIN nft' = DOMAIN nft \cup {NextPda(c)}
      /\ nft'[NextPda(c)] = CopyOf(i, o)
      /\ \A a \in DOMAIN nft : nft'[a] = Rewarded(c, i, o)[a]
  BY <1>1, <1>2, IssueFacts
<1>4. stray \subseteq stray'
  BY <1>1
<1>5. \A a \in DOMAIN nft : SameKin(nft'[a], nft[a])
  BY <1>2, <1>3
<1> QED
  BY <1>1, <1>2, <1>3, <1>4, <1>5 DEF PutsNext

\* The kinds of step, seen from the addresses.
LEMMA StepAddresses ==
  ASSUME TypeOK, [Next]_vars
  PROVE  Shrinking \/ \E c \in Collections : PutsNext(c)
<1>1. CASE PlainIssue
  BY <1>1, PlainFacts DEF PlainIssue
<1>2. CASE Cloning
  <2>1. PICK c \in Collections, i \in DOMAIN nft \cup Collections, o \in NftState :
          CloneNft(c, i, o)
    BY <1>2 DEF Cloning
  <2>2. i \in NftPdas \cup Collections
    BY DEF TypeOK
  <2> QED
    BY <2>1, <2>2, CloneFacts
<1> QED
  BY <1>1, <1>2, StepKinds

LEMMA StillFirst ==
  ASSUME Books, [Next]_vars, ~ Reborn'
  PROVE  ~ Reborn
<1> SUFFICES ASSUME NEW c \in Collections PROVE ~ inits[c] > 1
  BY DEF Reborn
<1>1. TypeOK /\ inits[c] \in Nat /\ ~ inits'[c] > 1
  BY DEF Books, TypeOK, Reborn
<1>2. inits'[c] = inits[c] \/ inits'[c] = inits[c] + 1
  BY <1>1, StepAddresses DEF Shrinking, Passing, PutsNext
<1> QED
  BY <1>1, <1>2

LEMMA UsedKept ==
  ASSUME Books, [Next]_vars, ~ Reborn', NEW a, Used(a)
  PROVE  Used(a)'
<1> DEFINE c == a[1]
<1>1. TypeOK /\ Books'
  BY StepBooks DEF Books
<1>2. /\ a \in NftPdas /\ c \in Collections /\ a[2] \in Nat
      /\ inits[c] > 0 /\ inits[c] \in Nat
      /\ coll[c] # None => a[2] < coll[c].minted_count
  BY <1>1, AddressFacts DEF Used, Exists, TypeOK
<1>3. ~ inits'[c] > 1
  BY <1>2 DEF Reborn
<1>4. CASE Shrinking
  <2>1. Passing(c)
    BY <1>2, <1>4 DEF Shrinking
  <2>2. /\ inits'[c] = inits[c]
        /\ coll'[c] = None \/ (coll[c] # None /\ coll'[c].minted_count = coll[c].minted_count)
    BY <1>2, <1>3, <2>1 DEF Passing
  <2> QED
    BY <1>2, <2>2 DEF Used, Exists
<1>5. ASSUME NEW x \in Collections, PutsNext(x)
      PROVE  Used(a)'
  <2>1. /\ Exists(x) /\ coll' = [coll EXCEPT ![x].minted_count = @ + 1]
        /\ inits' = inits
    BY <1>5 DEF PutsNext
  <2>2. /\ coll'[x].minted_count = coll[x].minted_count + 1
        /\ coll[x].minted_count \in Nat
        /\ \A y \in Collections \ {x} : coll'[y] = coll[y]
    BY <1>1, <2>1, IssueCounts, PartsFacts
  <2>3. CASE c = x
    BY <1>2, <2>1, <2>2, <2>3 DEF Used, Exists
  <2>4. CASE c # x
    BY <1>2, <2>1, <2>2, <2>4 DEF Used, Exists
  <2> QED
    BY <2>3, <2>4
<1> QED
  BY <1>1, <1>4, <1>5, StepAddresses

\* The address of the next index is no used one, but is from then on.
LEMMA NextUsed ==
  ASSUME Books, NEW c \in Collections, PutsNext(c), NEW n, n = NextPda(c)
  PROVE  ~ Used(n) /\ Used(n)'
<1>1. /\ TypeOK /\ Exists(c) /\ NextPda(c) \in NftPdas /\ inits[c] > 0
      /\ coll' = [coll EXCEPT ![c].minted_count = @ + 1] /\ inits' = inits
  BY DEF PutsNext, Books, RentKept
<1>2. /\ coll'[c].minted_count = coll[c].minted_count + 1
      /\ coll[c].minted_count \in Nat
  BY <1>1, IssueCounts, PartsFacts
<1>3. n[1] = c /\ n[2] = coll[c].minted_count /\ n \in NftPdas
  BY <1>1 DEF NextPda
<1>4. ~ Used(n)
  BY <1>1, <1>2, <1>3 DEF Used
<1>5. inits'[c] > 0 /\ n[2] < coll'[c].minted_count
  BY <1>1, <1>2, <1>3
<1>6. Used(n)'
  BY <1>3, <1>5 DEF Used
<1> QED
  BY <1>4, <1>6

LEMMA SameAncestors ==
  ASSUME NEW a, SameKin(nft'[a], nft[a])
  PROVE  Ancestors(a)' = Ancestors(a) /\ SourceOf(a)' = SourceOf(a)
BY DEF SameKin, Ancestors, SourceOf

LEMMA NoneReissuedStep ==
  ASSUME IInv, [Next]_vars
  PROVE  NoneReissued'
<1> SUFFICES ASSUME ~ Reborn', NEW a \in DOMAIN nft'
             PROVE  Used(a)' /\ (a \notin stray' => \A b \in Ancestors(a)' : Used(b)')
  BY DEF NoneReissued
<1>1. TypeOK /\ Books /\ ~ Reborn
  BY StillFirst DEF IInv, Books
<1>2. \A b : Used(b) => Used(b)'
  BY <1>1, UsedKept
<1>3. \A x \in DOMAIN nft : Used(x) /\ (x \notin stray => \A b \in Ancestors(x) : Used(b))
  BY <1>1 DEF IInv, NoneReissued
<1>4. ASSUME a \in DOMAIN nft, SameKin(nft'[a], nft[a]), stray \subseteq stray'
      PROVE  Used(a)' /\ (a \notin stray' => \A b \in Ancestors(a)' : Used(b)')
  BY <1>2, <1>3, <1>4, SameAncestors
<1>5. CASE Shrinking
  BY <1>4, <1>5 DEF Shrinking
<1>6. CASE PlainIssue
  <2>1. PICK c \in Collections, kind \in NftKind :
          /\ Issue(c, nft, NewRecord(kind))
          /\ UNCHANGED <<due, settled, slack, inits, stray>>
    BY <1>6 DEF PlainIssue
  <2>2. PutsNext(c) /\ nft'[NextPda(c)] = NewRecord(kind)
    BY <1>1, <2>1, PlainFacts
  <2>3. CASE a = NextPda(c)
    <3>1. Ancestors(a)' = {}
      BY <2>2, <2>3, NewRecordFacts DEF Ancestors
    <3> QED
      BY <1>1, <2>2, <2>3, <3>1, NextUsed
  <2>4. CASE a # NextPda(c)
    BY <1>4, <2>2, <2>4 DEF PutsNext
  <2> QED
    BY <2>3, <2>4
<1>7. CASE Cloning
  <2>1. PICK c \in Collections, i \in DOMAIN nft \cup Collections, o \in NftState :
          /\ i \in DOMAIN nft => o = nft[i]
          /\ CloneNft(c, i, o)
    BY <1>7 DEF Cloning
  <2>2. PutsNext(c) /\ nft'[NextPda(c)] = CopyOf(i, o) /\ i \in NftPdas \cup Collections
    BY <1>1, <2>1, CloneFacts DEF TypeOK
  <2>3. CASE a = NextPda(c)
    <3>1. ASSUME a \notin stray', NEW b \in Ancestors(a)'
          PROVE  Used(b)'
      <4>1. i \in DOMAIN nft /\ i \notin stray /\ o = nft[i]
        BY <2>1, <2>3, <3>1 DEF CloneNft
      <4>2. b \in {i, o.original_nft} /\ b # None
        BY <2>2, <2>3, <3>1, CopyFacts DEF Ancestors
      <4>3. b = i \/ b \in Ancestors(i)
        BY <4>1, <4>2 DEF Ancestors
      <4> QED
        BY <1>2, <1>3, <4>1, <4>3
    <3> QED
      BY <1>1, <2>2, <2>3, <3>1, NextUsed
  <2>4. CASE a # NextPda(c)
    BY <1>4, <2>2, <2>4 DEF PutsNext
  <2> QED
    BY <2>3, <2>4
<1> QED
  BY <1>1, <1>5, <1>6, <1>7, StepKinds

\* A copy names an original.
LEMMA CopyLineage ==
  ASSUME NEW i \in NftPdas \cup Collections, NEW o \in NftState
  PROVE  CopyOf(i, o).original_nft # None
<1>1. i # None
  BY TreasuryNamesAssumption
<1> QED
  BY <1>1, CopyFacts

LEMMA LineageStep ==
  ASSUME IInv, [Next]_vars
  PROVE  Lineage'
<1> DEFINE Named(r) == r.generation # 0 \/ r.parent_nft # None => r.original_nft # None
<1> SUFFICES ASSUME NEW a \in DOMAIN nft' PROVE Named(nft'[a])
  BY DEF Lineage
<1>1. TypeOK /\ \A x \in DOMAIN nft : Named(nft[x])
  BY DEF IInv, Books, Lineage
<1>2. ASSUME a \in DOMAIN nft, SameKin(nft'[a], nft[a])
      PROVE  Named(nft'[a])
  BY <1>1, <1>2 DEF SameKin
<1>3. CASE Shrinking
  BY <1>2, <1>3 DEF Shrinking
<1>4. CASE PlainIssue
  <2>1. PICK c \in Collections, kind \in NftKind :
          PutsNext(c) /\ nft'[NextPda(c)] = NewRecord(kind)
    BY <1>1, <1>4, PlainFacts DEF PlainIssue
  <2>2. CASE a = NextPda(c)
    BY <2>1, <2>2, NewRecordFacts
  <2>3. CASE a # NextPda(c)
    BY <1>2, <2>1, <2>3 DEF PutsNext
  <2> QED
    BY <2>2, <2>3
<1>5. CASE Cloning
  <2>1. PICK c \in Collections, i \in DOMAIN nft \cup Collections, o \in NftState :
          CloneNft(c, i, o)
    BY <1>5 DEF Cloning
  <2>2. i \in NftPdas \cup Collections
    BY <1>1 DEF TypeOK
  <2>3. PutsNext(c) /\ nft'[NextPda(c)] = CopyOf(i, o)
    BY <1>1, <2>1, <2>2, CloneFacts
  <2>4. CASE a = NextPda(c)
    BY <2>2, <2>3, <2>4, CopyLineage
  <2>5. CASE a # NextPda(c)
    BY <1>2, <2>3, <2>5 DEF PutsNext
  <2> QED
    BY <2>4, <2>5
<1> QED
  BY <1>1, <1>3, <1>4, <1>5, StepKinds

LEMMA InitInv == Init => IInv
<1> SUFFICES ASSUME Init PROVE IInv
  OBVIOUS
<1>1. Books
  BY InitBooks
<1>2. NoneReissued /\ Lineage
  BY DEF Init, NoneReissued, Lineage, NoAccounts
<1> QED
  BY <1>1, <1>2 DEF IInv

LEMMA StepInv == IInv /\ [Next]_vars => IInv'
<1> SUFFICES ASSUME IInv, [Next]_vars PROVE IInv'
  OBVIOUS
<1>1. Books'
  BY StepBooks DEF IInv
<1>2. NoneReissued' /\ Lineage'
  BY NoneReissuedStep, LineageStep
<1> QED
  BY <1>1, <1>2 DEF IInv

\* Whichever accounts read as both types, and whichever records were burned,
\* claimed or removed: what is stored has its type, a collection keeps its
\* rent, and until an address is a collection's for the second time no index
\* is issued twice, not even that of a burned ancestor of a record that exists
\* (Issue, ClaimFromCollection, HandledAsRecord).
THEOREM TreasurySound == Spec => []IInv
BY InitInv, StepInv, PTL DEF Spec

-----------------------------------------------------------------------------
(* What is credited.                                                       *)

\* What NoRewardFromNothing says of one step.
Fair ==
  \A a, b \in DOMAIN nft \cap DOMAIN nft' :
    Gain(a) > 0 =>
      \E c \in Collections :
        /\ Exists(c)
        /\ coll'[c] = [coll[c] EXCEPT !.minted_count = @ + 1]
        /\ Gain(a) <= coll[c].clone_reward
        /\ (a # b /\ Gain(b) > 0) => Gain(a) + Gain(b) <= coll[c].clone_reward

\* A step that leaves every record less to claim, or the same.
LEMMA NoGain ==
  ASSUME TypeOK,
         \A a \in DOMAIN nft \cap DOMAIN nft' :
           nft'[a].pending_rewards = nft[a].pending_rewards \/ nft'[a].pending_rewards = 0
  PROVE  Fair
<1>1. \A a \in DOMAIN nft \cap DOMAIN nft' : nft[a].pending_rewards \in Nat
  BY RecordFacts
<1>2. \A a \in DOMAIN nft \cap DOMAIN nft' : ~ (Gain(a) > 0)
  BY <1>1 DEF Gain
<1> QED
  BY <1>2 DEF Fair

LEMMA CloneFair ==
  ASSUME TypeOK, NEW c \in Collections, NEW i \in NftPdas \cup Collections,
         NEW o \in NftState, CloneNft(c, i, o)
  PROVE  Fair
<1> DEFINE op == OriginalPart(c, o)
           pp == Part(c, 80)
           reward == coll[c].clone_reward
<1>1. /\ Exists(c) /\ coll'[c] = [coll[c] EXCEPT !.minted_count = @ + 1]
      /\ DOMAIN nft \subseteq DOMAIN nft'
      /\ \A a \in DOMAIN nft : nft'[a] = Rewarded(c, i, o)[a]
  <2>1. /\ Exists(c) /\ coll' = [coll EXCEPT ![c].minted_count = @ + 1]
        /\ DOMAIN nft' = DOMAIN nft \cup {NextPda(c)}
        /\ \A a \in DOMAIN nft : nft'[a] = Rewarded(c, i, o)[a]
    BY CloneFacts DEF PutsNext
  <2>2. coll'[c] = [coll[c] EXCEPT !.minted_count = @ + 1]
    BY <2>1, IssueCounts
  <2> QED
    BY <2>1, <2>2
<1>2. /\ reward \in Nat
      /\ op \in Nat /\ op <= reward
      /\ pp \in Nat /\ pp <= reward
      /\ TwoLevels(o) => op + pp <= reward
  BY <1>1, PartsFacts, OriginalPartFacts
<1> HIDE DEF op, pp, reward
<1>3. ASSUME NEW a \in DOMAIN nft
      PROVE  /\ Gain(a) \in Int
             /\ a = i => Gain(a) <= op
             /\ a # i => Gain(a) <= 0 \/ (a = o.original_nft /\ TwoLevels(o) /\ Gain(a) <= pp)
  <2>1. nft[a] \in NftState /\ nft[a].pending_rewards \in Nat
    BY RecordFacts
  <2>2. /\ Credit(nft[a], op).pending_rewards \in Nat
        /\ Credit(nft[a], op).pending_rewards <= nft[a].pending_rewards + op
        /\ Credit(nft[a], pp).pending_rewards \in Nat
        /\ Credit(nft[a], pp).pending_rewards <= nft[a].pending_rewards + pp
    BY <1>2, <2>1, CreditFacts
  <2>3. nft'[a].pending_rewards
          = IF a = i THEN Credit(nft[a], op).pending_rewards
            ELSE IF a \in Credited(i, o) THEN Credit(nft[a], pp).pending_rewards
            ELSE nft[a].pending_rewards
    BY <1>1, RewardedFacts DEF op, pp
  <2>4. CASE a = i
    BY <1>2, <2>1, <2>2, <2>3, <2>4 DEF Gain
  <2>5. CASE a # i /\ a \in Credited(i, o)
    <3>1. a = o.original_nft /\ TwoLevels(o)
      BY <2>5 DEF Credited
    <3> QED
      BY <1>2, <2>1, <2>2, <2>3, <2>5, <3>1 DEF Gain
  <2>6. CASE a # i /\ a \notin Credited(i, o)
    BY <2>1, <2>3, <2>6 DEF Gain
  <2> QED
    BY <2>4, <2>5, <2>6
<1>4. ASSUME NEW a \in DOMAIN nft, NEW b \in DOMAIN nft, Gain(a) > 0
      PROVE  /\ Gain(a) <= reward
             /\ (a # b /\ Gain(b) > 0) => Gain(a) + Gain(b) <= reward
  <2>1. Gain(a) <= reward
    BY <1>2, <1>3, <1>4
  <2>2. ASSUME a # b, Gain(b) > 0
        PROVE  Gain(a) + Gain(b) <= reward
    <3>1. CASE a = i
      BY <1>2, <1>3, <1>4, <2>2, <3>1
    <3>2. CASE b = i
      BY <1>2, <1>3, <1>4, <2>2, <3>2
    <3>3. CASE a # i /\ b # i
      BY <1>3, <1>4, <2>2, <3>3
    <3> QED
      BY <3>1, <3>2, <3>3
  <2> QED
    BY <2>1, <2>2
<1> QED
  BY <1>1, <1>4 DEF Fair, reward

LEMMA FairStep ==
  ASSUME Books, [Next]_vars
  PROVE  Fair
<1>1. TypeOK
  BY DEF Books
<1>2. CASE PlainIssue
  <2>1. \A a \in DOMAIN nft : nft'[a] = nft[a]
    BY <1>1, <1>2, PlainFacts DEF PlainIssue
  <2> QED
    BY <1>1, <2>1, NoGain
<1>3. CASE Cloning
  <2>1. PICK c \in Collections, i \in DOMAIN nft \cup Collections, o \in NftState :
          CloneNft(c, i, o)
    BY <1>3 DEF Cloning
  <2>2. i \in NftPdas \cup Collections
    BY <1>1 DEF TypeOK
  <2> QED
    BY <1>1, <2>1, <2>2, CloneFair
<1>4. CASE Shrinking
  BY <1>1, <1>4, NoGain DEF Shrinking
<1> QED
  BY <1>1, <1>2, <1>3, <1>4, StepKinds

\* A clone never credits more than the reward of the collection whose index it
\* uses, to one record or to two, for any reward, also one whose products wrap,
\* and any width of u64 (process_clone_nft).
THEOREM RewardsBounded == Spec => NoRewardFromNothing
<1>1. IInv /\ [Next]_vars => [Fair]_vars
  BY FairStep DEF IInv
<1>2. Spec => [][Fair]_vars
  BY <1>1, TreasurySound, PTL DEF Spec
<1> QED
  BY <1>2 DEF NoRewardFromNothing, Fair

-----------------------------------------------------------------------------
(* Families.                                                               *)

OriginalSound(a) ==
  nft[a].original_nft \in DOMAIN nft =>
    /\ nft[nft[a].original_nft].generation = 0
    /\ nft[nft[a].original_nft].kind = nft[a].kind

ParentSound(a) ==
  nft[a].parent_nft \in DOMAIN nft =>
    /\ nft[a].generation = (nft[nft[a].parent_nft].generation + 1) % U8
    /\ nft[a].original_nft = nft[nft[a].parent_nft].original_nft

Copies(a) == {b \in Kin : SourceOf(b) = a}

CountSound(a) == Cardinality(Copies(a)) <= nft[a].clone_count

MemberSound(a) == OriginalSound(a) /\ ParentSound(a) /\ CountSound(a)

LEMMA FamiliesByMember == FamiliesSound <=> (~ Reborn => \A a \in Kin : MemberSound(a))
BY DEF FamiliesSound, MemberSound, OriginalSound, ParentSound, CountSound, Copies

LEMMA FamiliesNext == (~ Reborn' => \A a \in Kin' : MemberSound(a)') => FamiliesSound'
BY DEF FamiliesSound, MemberSound, OriginalSound, ParentSound, CountSound, Copies

LEMMA CopiesFinite ==
  ASSUME TypeOK, NEW a
  PROVE  IsFiniteSet(Copies(a)) /\ Cardinality(Copies(a)) \in Nat
<1>1. Copies(a) \subseteq DOMAIN nft
  BY DEF Copies, Kin
<1> QED
  BY <1>1, FinitelyMany, FS_Subset, FS_CardinalityType

\* A member whose ancestors are what they were, or are gone.
LEMMA AncestorsSame ==
  ASSUME NEW a \in DOMAIN nft, SameKin(nft'[a], nft[a]),
         OriginalSound(a), ParentSound(a),
         \A b \in {nft[a].original_nft, nft[a].parent_nft} \cap DOMAIN nft' :
           b \in DOMAIN nft /\ SameKin(nft'[b], nft[b])
  PROVE  OriginalSound(a)' /\ ParentSound(a)'
<1>1. OriginalSound(a)'
  BY DEF OriginalSound, SameKin
<1>2. ParentSound(a)'
  BY DEF ParentSound, SameKin
<1> QED
  BY <1>1, <1>2

\* A member with no copy it had not before, and the same count or more.
LEMMA NoNewCopy ==
  ASSUME TypeOK, NEW a \in Kin, CountSound(a), Copies(a)' \subseteq Copies(a),
         nft[a].clone_count \in Nat, nft'[a].clone_count \in Nat,
         nft'[a].clone_count >= nft[a].clone_count
  PROVE  CountSound(a)'
<1>1. /\ IsFiniteSet(Copies(a)) /\ Cardinality(Copies(a)) \in Nat
      /\ Cardinality(Copies(a)) <= nft[a].clone_count
  BY CopiesFinite DEF CountSound
<1> DEFINE S == Copies(a)'
<1>2. S \subseteq Copies(a)
  OBVIOUS
<1> HIDE DEF S
<1>3. Cardinality(S) \in Nat /\ Cardinality(S) <= Cardinality(Copies(a))
  BY <1>1, <1>2, FS_Subset, FS_CardinalityType
<1>4. Cardinality(S) <= nft'[a].clone_count
  BY <1>1, <1>3
<1> QED
  BY <1>4 DEF CountSound, S

\* One copy more, and counted.
LEMMA OneNewCopy ==
  ASSUME TypeOK, NEW a \in Kin, CountSound(a), NEW n, Copies(a)' \subseteq Copies(a) \cup {n},
         nft[a].clone_count \in Nat, nft'[a].clone_count = nft[a].clone_count + 1
  PROVE  CountSound(a)'
<1>1. /\ IsFiniteSet(Copies(a)) /\ Cardinality(Copies(a)) \in Nat
      /\ Cardinality(Copies(a)) <= nft[a].clone_count
  BY CopiesFinite DEF CountSound
<1> DEFINE S == Copies(a)'
           T == Copies(a) \cup {n}
<1>2. S \subseteq T
  OBVIOUS
<1>3. /\ IsFiniteSet(T) /\ Cardinality(T) \in Nat
      /\ Cardinality(T) <= Cardinality(Copies(a)) + 1
  <2>1. /\ IsFiniteSet(T)
        /\ Cardinality(T) = IF n \in Copies(a) THEN Cardinality(Copies(a))
                            ELSE Cardinality(Copies(a)) + 1
    BY <1>1, FS_AddElement
  <2> QED
    BY <1>1, <2>1
<1> HIDE DEF S, T
<1>4. Cardinality(S) \in Nat /\ Cardinality(S) <= Cardinality(T)
  BY <1>2, <1>3, FS_Subset, FS_CardinalityType
<1>5. Cardinality(S) <= nft'[a].clone_count
  BY <1>1, <1>3, <1>4
<1> QED
  BY <1>5 DEF CountSound, S

\* What a new index n leaves of the members: none of them names n.
LEMMA Grown ==
  ASSUME IInv, [Next]_vars, ~ Reborn', FamiliesSound,
         NEW c \in Collections, PutsNext(c), NEW n, n = NextPda(c)
  PROVE  /\ n \notin DOMAIN nft /\ DOMAIN nft' = DOMAIN nft \cup {n} /\ n # None
         /\ Kin' \subseteq Kin \cup {n}
         /\ \A a \in Kin :
              /\ a # n /\ a \in DOMAIN nft /\ a # None
              /\ MemberSound(a)
              /\ n \notin Ancestors(a) /\ SourceOf(a) # n
              /\ SourceOf(a)' = SourceOf(a)
              /\ OriginalSound(a)' /\ ParentSound(a)'
<1>1. TypeOK /\ Books /\ ~ Reborn
  BY StillFirst DEF IInv, Books
<1>2. /\ n \in NftPdas /\ n \notin DOMAIN nft
      /\ DOMAIN nft' = DOMAIN nft \cup {n}
      /\ \A a \in DOMAIN nft : SameKin(nft'[a], nft[a])
      /\ stray \subseteq stray'
  BY DEF PutsNext
<1>3. n # None
  BY <1>2, AddressFacts
<1>4. ~ Used(n)
  BY <1>1, NextUsed
<1>5. Kin' \subseteq Kin \cup {n}
  BY <1>2 DEF Kin
<1>6. ASSUME NEW a \in Kin
      PROVE  /\ a # n /\ a \in DOMAIN nft /\ a # None
             /\ MemberSound(a)
             /\ n \notin Ancestors(a) /\ SourceOf(a) # n
             /\ SourceOf(a)' = SourceOf(a)
             /\ OriginalSound(a)' /\ ParentSound(a)'
  <2>1. a \in DOMAIN nft /\ a \notin stray
    BY DEF Kin
  <2>2. a # n /\ a # None
    BY <1>1, <1>2, <2>1, RecordFacts, AddressFacts
  <2>3. MemberSound(a)
    BY <1>1, FamiliesByMember
  <2>4. n \notin Ancestors(a)
    BY <1>1, <1>4, <2>1 DEF IInv, NoneReissued
  <2>5. SourceOf(a) # n
    BY <1>3, <2>4 DEF SourceOf, Ancestors
  <2>6. SourceOf(a)' = SourceOf(a)
    BY <1>2, <2>1, SameAncestors
  <2>7. nft[a].original_nft # n /\ nft[a].parent_nft # n
    BY <1>3, <2>4 DEF Ancestors
  <2>8. \A b \in {nft[a].original_nft, nft[a].parent_nft} \cap DOMAIN nft' :
          b \in DOMAIN nft /\ SameKin(nft'[b], nft[b])
    BY <1>2, <2>7
  <2>9. OriginalSound(a)' /\ ParentSound(a)'
    BY <1>2, <2>1, <2>3, <2>8, AncestorsSame DEF MemberSound
  <2> QED
    BY <2>1, <2>2, <2>3, <2>4, <2>5, <2>6, <2>9
<1> QED
  BY <1>2, <1>3, <1>5, <1>6

\* The new record has no copies.
LEMMA NoCopies ==
  ASSUME NEW n, Kin' \subseteq Kin \cup {n}, SourceOf(n)' # n,
         \A a \in Kin : SourceOf(a)' # n,
         nft'[n].clone_count = 0
  PROVE  CountSound(n)'
<1> DEFINE S == Copies(n)'
<1>1. S = {}
  BY DEF Copies
<1> HIDE DEF S
<1>2. Cardinality(S) = 0
  BY <1>1, FS_EmptySet
<1> QED
  BY <1>2 DEF CountSound, S

LEMMA PlainFamilies ==
  ASSUME IInv, [Next]_vars, ~ Reborn', FamiliesSound, PlainIssue, NEW a \in Kin'
  PROVE  MemberSound(a)'
<1>1. TypeOK /\ TypeOK'
  BY StepInv DEF IInv, Books
<1>2. PICK c \in Collections, kind \in NftKind :
        /\ Issue(c, nft, NewRecord(kind))
        /\ UNCHANGED <<due, settled, slack, inits, stray>>
  BY DEF PlainIssue
<1>3. PICK n : n = NextPda(c)
  OBVIOUS
<1>4. /\ PutsNext(c)
      /\ \A b \in DOMAIN nft : nft'[b] = nft[b]
      /\ nft'[n] = NewRecord(kind)
  BY <1>1, <1>2, <1>3, PlainFacts
<1>5. /\ n \notin DOMAIN nft /\ DOMAIN nft' = DOMAIN nft \cup {n} /\ n # None
      /\ Kin' \subseteq Kin \cup {n}
      /\ \A b \in Kin :
           /\ b # n /\ b \in DOMAIN nft /\ b # None
           /\ MemberSound(b)
           /\ n \notin Ancestors(b) /\ SourceOf(b) # n
           /\ SourceOf(b)' = SourceOf(b)
           /\ OriginalSound(b)' /\ ParentSound(b)'
  BY <1>3, <1>4, Grown
<1>6. /\ nft'[n].original_nft = None /\ nft'[n].parent_nft = None
      /\ nft'[n].clone_count = 0
  BY <1>4, NewRecordFacts
<1>7. SourceOf(n)' = None
  BY <1>6 DEF SourceOf
<1>8. None \notin DOMAIN nft'
  BY <1>1, TreasuryNamesAssumption DEF TypeOK
<1>9. CASE a = n
  <2>1. OriginalSound(a)' /\ ParentSound(a)'
    BY <1>6, <1>8, <1>9 DEF OriginalSound, ParentSound
  <2>2. CountSound(n)'
    BY <1>5, <1>6, <1>7, NoCopies
  <2> QED
    BY <1>9, <2>1, <2>2 DEF MemberSound
<1>10. CASE a # n
  <2>1. a \in Kin /\ a \in DOMAIN nft
    BY <1>5, <1>10
  <2>2. Copies(a)' \subseteq Copies(a)
    BY <1>5, <1>7, <2>1 DEF Copies
  <2>3. nft[a].clone_count \in Nat /\ nft'[a].clone_count = nft[a].clone_count
    BY <1>1, <1>4, <2>1, RecordFacts
  <2>4. CountSound(a)
    BY <1>5, <2>1 DEF MemberSound
  <2>5. nft'[a].clone_count >= nft[a].clone_count /\ nft'[a].clone_count \in Nat
    BY <2>3
  <2>6. CountSound(a)'
    BY <1>1, <2>1, <2>2, <2>3, <2>4, <2>5, NoNewCopy
  <2> QED
    BY <1>5, <2>1, <2>6 DEF MemberSound
<1> QED
  BY <1>9, <1>10

\* The copy of a member of a family is a member of it.
LEMMA CopyIsMember ==
  ASSUME TypeOK, Lineage, NEW i \in Kin, OriginalSound(i),
         NEW n, n \notin DOMAIN nft, DOMAIN nft' = DOMAIN nft \cup {n},
         nft[i].original_nft # n, \A b \in DOMAIN nft : SameKin(nft'[b], nft[b]),
         nft'[n] = CopyOf(i, nft[i]), None \notin DOMAIN nft'
  PROVE  /\ OriginalSound(n)' /\ ParentSound(n)'
         /\ SourceOf(n)' = i
         /\ nft'[n].clone_count = 0
<1> DEFINE o == nft[i]
<1>1. /\ i \in DOMAIN nft /\ i \in NftPdas /\ o \in NftState /\ i # None
      /\ SameKin(nft'[i], o) /\ i # n
  BY RecordFacts, AddressFacts DEF Kin
<1>2. /\ nft'[n].clone_count = 0
      /\ nft'[n].kind = o.kind
      /\ nft'[n].generation = (o.generation + 1) % U8
      /\ nft'[n].original_nft
           = IF o.generation = 0 \/ o.original_nft = None THEN i ELSE o.original_nft
      /\ nft'[n].parent_nft = IF o.generation = 0 THEN None ELSE i
  BY <1>1, CopyFacts
<1>3. o.generation # 0 => o.original_nft # None
  BY <1>1 DEF Lineage
<1>4. CASE o.generation = 0
  <2>1. nft'[n].original_nft = i /\ nft'[n].parent_nft = None
    BY <1>2, <1>4
  <2>2. nft'[i].generation = 0 /\ nft'[i].kind = nft'[n].kind
    BY <1>1, <1>2, <1>4 DEF SameKin
  <2>3. OriginalSound(n)' /\ SourceOf(n)' = i
    BY <2>1, <2>2 DEF OriginalSound, SourceOf
  <2>4. ParentSound(n)'
    BY <2>1 DEF ParentSound
  <2> QED
    BY <1>2, <2>3, <2>4
<1>5. CASE o.generation # 0
  <2>1. /\ nft'[n].original_nft = o.original_nft /\ nft'[n].parent_nft = i
        /\ o.original_nft # None
    BY <1>2, <1>3, <1>5
  <2>2. SourceOf(n)' = i
    BY <1>1, <2>1 DEF SourceOf
  <2>3. OriginalSound(n)'
    <3>1. ASSUME o.original_nft \in DOMAIN nft'
          PROVE  /\ nft'[o.original_nft].generation = 0
                 /\ nft'[o.original_nft].kind = nft'[n].kind
      <4>1. o.original_nft \in DOMAIN nft
        BY <3>1
      <4>2. /\ nft[o.original_nft].generation = 0
            /\ nft[o.original_nft].kind = o.kind
        BY <4>1 DEF OriginalSound
      <4> QED
        BY <1>2, <4>1, <4>2 DEF SameKin
    <3> QED
      BY <2>1, <3>1 DEF OriginalSound
  <2>4. ParentSound(n)'
    <3>1. /\ nft'[i].generation = o.generation
          /\ nft'[i].original_nft = o.original_nft
      BY <1>1 DEF SameKin
    <3> QED
      BY <1>2, <2>1, <3>1 DEF ParentSound
  <2> QED
    BY <1>2, <2>2, <2>3, <2>4
<1> QED
  BY <1>4, <1>5

LEMMA CloneFamilies ==
  ASSUME IInv, [Next]_vars, ~ Reborn', FamiliesSound, Cloning, NEW a \in Kin'
  PROVE  MemberSound(a)'
<1>1. TypeOK /\ TypeOK' /\ Lineage
  BY StepInv DEF IInv, Books
<1>2. PICK c \in Collections, i \in DOMAIN nft \cup Collections, o \in NftState :
        /\ i \in DOMAIN nft => o = nft[i]
        /\ CloneNft(c, i, o)
  BY DEF Cloning
<1>3. PICK n : n = NextPda(c)
  OBVIOUS
<1>4. /\ PutsNext(c)
      /\ \A b \in DOMAIN nft : nft'[b] = Rewarded(c, i, o)[b]
      /\ nft'[n] = CopyOf(i, o)
  <2>1. i \in NftPdas \cup Collections
    BY <1>1 DEF TypeOK
  <2> QED
    BY <1>1, <1>2, <1>3, <2>1, CloneFacts
<1>5. /\ n \notin DOMAIN nft /\ DOMAIN nft' = DOMAIN nft \cup {n} /\ n # None
      /\ Kin' \subseteq Kin \cup {n}
      /\ \A b \in Kin :
           /\ b # n /\ b \in DOMAIN nft /\ b # None
           /\ MemberSound(b)
           /\ n \notin Ancestors(b) /\ SourceOf(b) # n
           /\ SourceOf(b)' = SourceOf(b)
           /\ OriginalSound(b)' /\ ParentSound(b)'
  BY <1>3, <1>4, Grown
<1>6. None \notin DOMAIN nft'
  BY <1>1, TreasuryNamesAssumption DEF TypeOK
<1>7. \A b \in DOMAIN nft :
        /\ nft[b].clone_count \in Nat
        /\ nft'[b].clone_count
             = IF b = i THEN nft[b].clone_count + 1 ELSE nft[b].clone_count
  <2>1. Exists(c)
    BY <1>4 DEF PutsNext
  <2> QED
    BY <1>1, <1>4, <2>1, RewardedFacts, RecordFacts
<1>8. ASSUME n \notin stray'
      PROVE  /\ i \in Kin /\ OriginalSound(n)' /\ ParentSound(n)'
             /\ SourceOf(n)' = i /\ nft'[n].clone_count = 0
  <2>1. i \in DOMAIN nft \ stray /\ o = nft[i]
    BY <1>2, <1>3, <1>8 DEF CloneNft
  <2>2. i \in Kin
    BY <2>1 DEF Kin
  <2>3. nft[i].original_nft # n /\ OriginalSound(i)
    BY <1>5, <2>2 DEF Ancestors, MemberSound
  <2>4. \A b \in DOMAIN nft : SameKin(nft'[b], nft[b])
    BY <1>4 DEF PutsNext
  <2>5. nft'[n] = CopyOf(i, nft[i])
    BY <1>4, <2>1
  <2>6. /\ OriginalSound(n)' /\ ParentSound(n)'
        /\ SourceOf(n)' = i /\ nft'[n].clone_count = 0
    BY <1>1, <1>5, <1>6, <2>2, <2>3, <2>4, <2>5, CopyIsMember
  <2> QED
    BY <2>2, <2>6
<1>9. CASE a = n
  <2>1. n \notin stray'
    BY <1>9 DEF Kin
  <2>2. SourceOf(n)' # n /\ \A b \in Kin : SourceOf(b)' # n
    BY <1>5, <1>8, <2>1
  <2>3. CountSound(n)'
    BY <1>5, <1>8, <2>1, <2>2, NoCopies
  <2> QED
    BY <1>8, <1>9, <2>1, <2>3 DEF MemberSound
<1>10. CASE a # n
  <2>1. a \in Kin /\ a \in DOMAIN nft
    BY <1>5, <1>10
  <2>2. CountSound(a) /\ OriginalSound(a)' /\ ParentSound(a)'
    BY <1>5, <2>1 DEF MemberSound
  <2>3. \A b \in Copies(a)' : b \in Copies(a) \/ (b = n /\ n \notin stray' /\ SourceOf(n)' = a)
    <3>1. ASSUME NEW b \in Copies(a)'
          PROVE  b \in Copies(a) \/ (b = n /\ n \notin stray' /\ SourceOf(n)' = a)
      <4>1. b \in Kin' /\ SourceOf(b)' = a
        BY <3>1 DEF Copies
      <4>2. CASE b = n
        BY <4>1, <4>2 DEF Kin
      <4>3. CASE b # n
        BY <1>5, <4>1, <4>3 DEF Copies
      <4> QED
        BY <4>2, <4>3
    <3> QED
      BY <3>1
  <2>4. CASE a = i
    <3>1. Copies(a)' \subseteq Copies(a) \cup {n}
      BY <2>3
    <3>2. nft[a].clone_count \in Nat /\ nft'[a].clone_count = nft[a].clone_count + 1
      BY <1>7, <2>1, <2>4
    <3>3. CountSound(a)'
      BY <1>1, <2>1, <2>2, <3>1, <3>2, OneNewCopy
    <3> QED
      BY <2>2, <3>3 DEF MemberSound
  <2>5. CASE a # i
    <3>1. Copies(a)' \subseteq Copies(a)
      BY <1>8, <2>3, <2>5
    <3>2. nft[a].clone_count \in Nat /\ nft'[a].clone_count = nft[a].clone_count
      BY <1>7, <2>1, <2>5
    <3>3. nft'[a].clone_count >= nft[a].clone_count /\ nft'[a].clone_count \in Nat
      BY <3>2
    <3>4. CountSound(a)'
      BY <1>1, <2>1, <2>2, <3>1, <3>2, <3>3, NoNewCopy
    <3> QED
      BY <2>2, <3>4 DEF MemberSound
  <2> QED
    BY <2>4, <2>5
<1> QED
  BY <1>9, <1>10

LEMMA ShrinkingFamilies ==
  ASSUME IInv, [Next]_vars, ~ Reborn', FamiliesSound, Shrinking, NEW a \in Kin'
  PROVE  MemberSound(a)'
<1>1. TypeOK /\ ~ Reborn
  BY StillFirst DEF IInv, Books
<1>2. /\ DOMAIN nft' \subseteq DOMAIN nft /\ stray' = stray
      /\ \A b \in DOMAIN nft' :
           SameKin(nft'[b], nft[b]) /\ nft'[b].clone_count = nft[b].clone_count
  BY DEF Shrinking
<1>3. a \in DOMAIN nft' /\ Kin' \subseteq Kin /\ a \in Kin /\ a \in DOMAIN nft
  BY <1>2 DEF Kin
<1>4. OriginalSound(a) /\ ParentSound(a) /\ CountSound(a)
  BY <1>1, <1>3, FamiliesByMember DEF MemberSound
<1>5. OriginalSound(a)' /\ ParentSound(a)'
  BY <1>2, <1>3, <1>4, AncestorsSame
<1>6. Copies(a)' \subseteq Copies(a)
  <2>1. \A b \in Kin' : SourceOf(b)' = SourceOf(b)
    BY <1>2, SameAncestors DEF Kin
  <2> QED
    BY <1>3, <2>1 DEF Copies
<1>7. /\ nft[a].clone_count \in Nat /\ nft'[a].clone_count \in Nat
      /\ nft'[a].clone_count >= nft[a].clone_count
  BY <1>1, <1>2, <1>3, RecordFacts
<1>8. CountSound(a)'
  BY <1>1, <1>3, <1>4, <1>6, <1>7, NoNewCopy
<1> QED
  BY <1>5, <1>8 DEF MemberSound

LEMMA FamiliesStep == IInv /\ FamiliesSound /\ [Next]_vars => FamiliesSound'
<1> SUFFICES ASSUME IInv, FamiliesSound, [Next]_vars PROVE FamiliesSound'
  OBVIOUS
<1>1. ASSUME ~ Reborn', NEW a \in Kin'
      PROVE  MemberSound(a)'
  <2>1. TypeOK
    BY DEF IInv, Books
  <2> QED
    BY <1>1, <2>1, StepKinds, PlainFamilies, CloneFamilies, ShrinkingFamilies
<1> QED
  BY <1>1, FamiliesNext

\* The records of a family agree on their original, generation and copies, as
\* long as no address is a collection's for the second time, whichever of its
\* members were burned or claimed for, and whichever accounts that are no
\* records were cloned (process_clone_nft, process_burn_nft).
THEOREM FamiliesAgree == Spec => []FamiliesSound
<1>1. Init => FamiliesSound
  BY DEF Init, FamiliesSound, Kin, NoAccounts
<1> QED
  BY <1>1, FamiliesStep, TreasurySound, PTL DEF Spec

-----------------------------------------------------------------------------
(* What is pending in all.                                                 *)

Amounts(records) == [i \in DOMAIN records |-> records[i].pending_rewards]
PendingIn(records) == SumFunctionOnSet(Amounts(records), DOMAIN records)

LEMMA PendingIsSum == Pending = PendingIn(nft)
BY DEF Pending, SumFunction, PendingIn, Amounts

LEMMA AmountsTyped ==
  ASSUME NEW S, NEW f \in [S -> NftState]
  PROVE  /\ DOMAIN f = S
         /\ \A x \in S : Amounts(f)[x] = f[x].pending_rewards /\ Amounts(f)[x] \in Nat
BY TreasuryNumbersAssumption DEF Amounts, NftState

LEMMA PendingTotal ==
  ASSUME NEW S, IsFiniteSet(S), NEW f \in [S -> NftState]
  PROVE  /\ PendingIn(f) \in Nat
         /\ \A x \in S : f[x].pending_rewards <= PendingIn(f)
BY AmountsTyped, SumNat, SumAtLeast DEF PendingIn

LEMMA PendingSame ==
  ASSUME NEW S, IsFiniteSet(S), NEW f \in [S -> NftState], NEW g \in [S -> NftState],
         \A x \in S : g[x].pending_rewards = f[x].pending_rewards
  PROVE  PendingIn(g) = PendingIn(f)
<1>1. \A x \in S : Amounts(f)[x] = Amounts(g)[x]
  BY AmountsTyped
<1> QED
  BY <1>1, SumSame, AmountsTyped DEF PendingIn

LEMMA PendingChange ==
  ASSUME NEW S, IsFiniteSet(S), NEW f \in [S -> NftState], NEW g \in [S -> NftState],
         NEW y \in S,
         \A x \in S \ {y} : g[x].pending_rewards = f[x].pending_rewards
  PROVE  PendingIn(g) = PendingIn(f) + (g[y].pending_rewards - f[y].pending_rewards)
<1> DEFINE F == Amounts(f)
           G == Amounts(g)
<1>1. /\ \A x \in S : F[x] \in Int /\ G[x] \in Int
      /\ \A x \in S \ {y} : F[x] = G[x]
      /\ F[y] = f[y].pending_rewards /\ G[y] = g[y].pending_rewards
      /\ DOMAIN f = S /\ DOMAIN g = S
  BY AmountsTyped
<1> HIDE DEF F, G
<1>2. SumFunctionOnSet(G, S) = SumFunctionOnSet(F, S) + (G[y] - F[y])
  BY <1>1, SumChange
<1> QED
  BY <1>1, <1>2 DEF PendingIn, F, G

LEMMA PendingAdd ==
  ASSUME NEW S, IsFiniteSet(S), NEW y, y \notin S, NEW f \in [S -> NftState],
         NEW T, T = S \cup {y}, NEW g \in [T -> NftState],
         \A x \in S : g[x].pending_rewards = f[x].pending_rewards
  PROVE  PendingIn(g) = g[y].pending_rewards + PendingIn(f)
<1> DEFINE F == Amounts(f)
           G == Amounts(g)
<1>1. /\ \A x \in T : G[x] \in Int
      /\ \A x \in S : F[x] = G[x]
      /\ G[y] = g[y].pending_rewards
      /\ DOMAIN f = S /\ DOMAIN g = T
  <2>1. /\ DOMAIN f = S
        /\ \A x \in S : F[x] = f[x].pending_rewards
    BY AmountsTyped
  <2>2. /\ DOMAIN g = T
        /\ \A x \in T : G[x] = g[x].pending_rewards /\ G[x] \in Nat
    BY AmountsTyped
  <2> HIDE DEF F, G
  <2> QED
    BY <2>1, <2>2
<1> HIDE DEF F, G
<1>2. SumFunctionOnSet(G, T) = G[y] + SumFunctionOnSet(G, S)
  BY <1>1, SumAdd
<1>3. SumFunctionOnSet(G, S) = SumFunctionOnSet(F, S)
  BY <1>1, SumSame
<1> QED
  BY <1>1, <1>2, <1>3 DEF PendingIn, F, G

\* Two records get more, or less, to claim.
LEMMA PendingChangeTwo ==
  ASSUME NEW S, IsFiniteSet(S), NEW f \in [S -> NftState], NEW h \in [S -> NftState],
         NEW x \in S, NEW y \in S, x # y,
         \A z \in S \ {x, y} : h[z].pending_rewards = f[z].pending_rewards
  PROVE  PendingIn(h) = PendingIn(f) + (h[x].pending_rewards - f[x].pending_rewards)
                                     + (h[y].pending_rewards - f[y].pending_rewards)
<1> DEFINE g == [f EXCEPT ![x] = h[x]]
<1>1. /\ g \in [S -> NftState] /\ g[x] = h[x] /\ g[y] = f[y]
      /\ \A z \in S \ {x} : g[z] = f[z]
  OBVIOUS
<1> HIDE DEF g
<1>2. PendingIn(g) = PendingIn(f) + (h[x].pending_rewards - f[x].pending_rewards)
  <2>1. PendingIn(g) = PendingIn(f) + (g[x].pending_rewards - f[x].pending_rewards)
    BY <1>1, PendingChange
  <2> QED
    BY <1>1, <2>1
<1>3. PendingIn(h) = PendingIn(g) + (h[y].pending_rewards - f[y].pending_rewards)
  <2>1. \A z \in S \ {y} : h[z].pending_rewards = g[z].pending_rewards
    BY <1>1
  <2>2. PendingIn(h) = PendingIn(g) + (h[y].pending_rewards - g[y].pending_rewards)
    BY <1>1, <2>1, PendingChange
  <2> QED
    BY <1>1, <2>2
<1> QED
  BY <1>2, <1>3

\* What a clone adds in all: at most the reward; and all of it but what may
\* miss, if no sum wraps.
LEMMA CloneTotal ==
  ASSUME TypeOK, NEW c \in Collections, Exists(c), NEW i, NEW o,
         TwoLevels(o) => o.original_nft # i
  PROVE  /\ PendingIn(Rewarded(c, i, o)) <= Pending + coll[c].clone_reward
         /\ Pending + coll[c].clone_reward < U64 =>
              Pending + coll[c].clone_reward
                <= PendingIn(Rewarded(c, i, o)) + MayMiss(c, i, o)
<1> DEFINE S == DOMAIN nft
           f == nft
           h == Rewarded(c, i, o)
           p == OriginalPart(c, o)
           q == Part(c, 80)
           r == coll[c].clone_reward
           t == o.original_nft
           shared == TwoLevels(o) /\ t \in S
           miss == MayMiss(c, i, o)
           credit(x, n) == Credit(x, n).pending_rewards
<1>1. /\ IsFiniteSet(S)
      /\ f \in [S -> NftState] /\ h \in [S -> NftState]
      /\ p \in Nat /\ q \in Nat /\ r \in Nat /\ p <= r /\ q <= r
      /\ shared => t \in S /\ t # i /\ p + q <= r
  BY FinitelyMany, OriginalPartFacts, PartsFacts, RewardedFacts DEF TypeOK
<1>2. /\ i \in S => h[i].pending_rewards = credit(f[i], p)
      /\ shared => h[t].pending_rewards = credit(f[t], q)
      /\ \A a \in S : a # i /\ (a # t \/ ~ shared) =>
           h[a].pending_rewards = f[a].pending_rewards
  BY RewardedFacts DEF Credited
<1>3. Pending = PendingIn(f)
  BY PendingIsSum
<1>4. /\ miss \in Nat
      /\ i \in S /\ ~ TwoLevels(o) => miss = 0 /\ p = r
      /\ TwoLevels(o) /\ ~ shared => miss = r
      /\ i \notin S => miss = r
      /\ i \in S /\ shared => r <= p + q + miss
  <2>1. 80 * r < U64 /\ TwoLevels(o) => r <= p + q + 1
    <3>1. 80 * r < U64 => Part(c, 20) + Part(c, 80) >= coll[c].clone_reward - 1
      BY PartsExact
    <3>2. TwoLevels(o) => p = Part(c, 20)
      BY DEF OriginalPart
    <3> HIDE DEF p
    <3>3. Part(c, 20) \in Nat /\ Part(c, 80) \in Nat /\ coll[c].clone_reward \in Nat
      BY PartsFacts
    <3> QED
      BY <3>1, <3>2, <3>3
  <2>2. TwoLevels(o) => Credited(i, o) = {i, t}
    BY DEF Credited
  <2>3. ~ TwoLevels(o) => Credited(i, o) = {i} /\ p = r
    BY DEF Credited, OriginalPart
  <2>4. miss = IF ~ Credited(i, o) \subseteq S THEN r
               ELSE IF ~ TwoLevels(o) THEN 0
               ELSE IF 80 * r < U64 THEN 1 ELSE r
    BY DEF MayMiss
  <2>5. miss \in Nat
    BY MissFacts
  <2> HIDE DEF S, p, q, r, t, miss
  <2>6. CASE ~ TwoLevels(o)
    BY <1>1, <2>3, <2>4, <2>5, <2>6
  <2>7. CASE TwoLevels(o) /\ ~ shared
    BY <1>1, <2>2, <2>4, <2>5, <2>7
  <2>8. CASE i \notin S
    BY <1>1, <2>2, <2>3, <2>4, <2>5, <2>8
  <2>9. CASE i \in S /\ shared
    BY <1>1, <2>1, <2>2, <2>4, <2>5, <2>9
  <2> QED
    BY <2>6, <2>7, <2>8, <2>9
<1> HIDE DEF S, f, h, p, q, r, t, shared, miss
<1>5. PendingIn(f) \in Nat /\ \A a \in S : f[a].pending_rewards <= PendingIn(f)
  BY <1>1, PendingTotal
<1>6. ASSUME NEW a \in S, NEW n \in Nat, n <= r
      PROVE  /\ credit(f[a], n) \in Nat /\ f[a].pending_rewards \in Nat
             /\ credit(f[a], n) <= f[a].pending_rewards + n
             /\ PendingIn(f) + r < U64 => credit(f[a], n) = f[a].pending_rewards + n
  <2>1. f[a] \in NftState
    BY <1>1
  <2>2. /\ credit(f[a], n) \in Nat /\ f[a].pending_rewards \in Nat
        /\ credit(f[a], n) <= f[a].pending_rewards + n
        /\ f[a].pending_rewards + n < U64 => credit(f[a], n) = f[a].pending_rewards + n
    BY <2>1, CreditFacts
  <2>3. f[a].pending_rewards <= PendingIn(f) /\ U64 \in Nat
    BY <1>5, TreasuryNumbersAssumption
  <2> HIDE DEF credit
  <2> QED
    BY <1>1, <1>5, <1>6, <2>2, <2>3
<1> HIDE DEF credit
<1> SUFFICES /\ PendingIn(h) <= PendingIn(f) + r
             /\ PendingIn(f) + r < U64 => PendingIn(f) + r <= PendingIn(h) + miss
  BY <1>3 DEF h, r, miss
<1>7. CASE i \in S /\ shared
  <2>1. \A a \in S \ {i, t} : h[a].pending_rewards = f[a].pending_rewards
    BY <1>2
  <2>2. PendingIn(h) = PendingIn(f) + (h[i].pending_rewards - f[i].pending_rewards)
                                    + (h[t].pending_rewards - f[t].pending_rewards)
    BY <1>1, <1>7, <2>1, PendingChangeTwo
  <2>3. /\ h[i].pending_rewards = credit(f[i], p)
        /\ h[t].pending_rewards = credit(f[t], q)
        /\ t \in S /\ p + q <= r /\ r <= p + q + miss
    BY <1>1, <1>2, <1>4, <1>7
  <2> QED
    BY <1>1, <1>4, <1>5, <1>6, <1>7, <2>2, <2>3
<1>8. CASE i \in S /\ ~ shared
  <2>1. \A a \in S \ {i} : h[a].pending_rewards = f[a].pending_rewards
    BY <1>2, <1>8
  <2>2. PendingIn(h) = PendingIn(f) + (h[i].pending_rewards - f[i].pending_rewards)
    BY <1>1, <1>8, <2>1, PendingChange
  <2>3. h[i].pending_rewards = credit(f[i], p) /\ r <= p + miss
    BY <1>1, <1>2, <1>4, <1>8
  <2> QED
    BY <1>1, <1>4, <1>5, <1>6, <1>8, <2>2, <2>3
<1>9. CASE i \notin S /\ shared
  <2>1. \A a \in S \ {t} : h[a].pending_rewards = f[a].pending_rewards
    BY <1>2, <1>9
  <2>2. PendingIn(h) = PendingIn(f) + (h[t].pending_rewards - f[t].pending_rewards)
    BY <1>1, <1>9, <2>1, PendingChange
  <2>3. h[t].pending_rewards = credit(f[t], q) /\ t \in S /\ miss = r
    BY <1>1, <1>2, <1>4, <1>9
  <2> QED
    BY <1>1, <1>4, <1>5, <1>6, <1>9, <2>2, <2>3
<1>10. CASE i \notin S /\ ~ shared
  <2>1. \A a \in S : h[a].pending_rewards = f[a].pending_rewards
    BY <1>2, <1>10
  <2>2. PendingIn(h) = PendingIn(f)
    BY <1>1, <2>1, PendingSame
  <2> QED
    BY <1>1, <1>4, <1>5, <1>10, <2>2
<1> QED
  BY <1>7, <1>8, <1>9, <1>10

-----------------------------------------------------------------------------
(* Every reward is somewhere.                                              *)

Known == Pending + settled

\* A step that makes no clone.
Steady == Known' = Known /\ due' = due /\ slack' = slack

LEMMA SteadyKeeps == RewardsAccounted /\ Steady => RewardsAccounted'
BY DEF RewardsAccounted, Steady, Known

LEMMA PendingNext == Pending' = PendingIn(nft')
BY DEF Pending, SumFunction, PendingIn, Amounts

LEMMA KnownTyped ==
  ASSUME TypeOK
  PROVE  /\ Pending \in Nat /\ settled \in Nat
         /\ nft \in [DOMAIN nft -> NftState] /\ IsFiniteSet(DOMAIN nft)
BY FinitelyMany, PendingTotal, PendingIsSum DEF TypeOK

\* A new record has nothing pending.
LEMMA IssuedTotal ==
  ASSUME TypeOK, NEW c \in Collections, NEW records \in [DOMAIN nft -> NftState],
         NEW r \in NftState, r.pending_rewards = 0, Issue(c, records, r)
  PROVE  Pending' = PendingIn(records)
<1> DEFINE S == DOMAIN nft
           n == NextPda(c)
           g == nft'
<1>1. /\ IsFiniteSet(S) /\ n \notin S
      /\ DOMAIN g = S \cup {n} /\ g \in [DOMAIN g -> NftState]
      /\ g[n] = r /\ \A a \in S : g[a] = records[a]
  BY FinitelyMany, IssueFacts
<1> HIDE DEF S, n, g
<1>2. records \in [S -> NftState]
  BY DEF S
<1>3. PendingIn(g) = g[n].pending_rewards + PendingIn(records)
  BY <1>1, <1>2, PendingAdd
<1>4. PendingIn(records) \in Nat
  BY <1>1, <1>2, PendingTotal
<1>5. PendingIn(g) = PendingIn(records)
  BY <1>1, <1>3, <1>4
<1> QED
  BY <1>5, PendingNext DEF g

LEMMA PlainSteady ==
  ASSUME TypeOK, PlainIssue
  PROVE  Steady
<1>1. PICK c \in Collections, kind \in NftKind : Issue(c, nft, NewRecord(kind))
  BY DEF PlainIssue
<1>2. nft \in [DOMAIN nft -> NftState]
  BY DEF TypeOK
<1>3. Pending' = PendingIn(nft)
  BY <1>1, <1>2, NewRecordFacts, IssuedTotal
<1> QED
  BY <1>3, PendingIsSum DEF PlainIssue, Steady, Known

\* What the claim of i leaves, and what the end of j does.
LEMMA ClaimedTotal ==
  ASSUME TypeOK, NEW i \in DOMAIN nft
  PROVE  PendingIn([nft EXCEPT ![i].pending_rewards = 0])
           = Pending - nft[i].pending_rewards
<1> DEFINE claimed == [nft EXCEPT ![i].pending_rewards = 0]
<1>1. /\ claimed \in [DOMAIN nft -> NftState] /\ claimed[i].pending_rewards = 0
      /\ \A a \in DOMAIN nft \ {i} : claimed[a] = nft[a]
  BY ClaimedRecords
<1> HIDE DEF claimed
<1>2. PendingIn(claimed)
        = PendingIn(nft) + (claimed[i].pending_rewards - nft[i].pending_rewards)
  BY <1>1, KnownTyped, PendingChange
<1>3. nft[i].pending_rewards \in Nat /\ PendingIn(nft) \in Nat
  BY RecordFacts, KnownTyped, PendingIsSum
<1>4. PendingIn(claimed) = Pending - nft[i].pending_rewards
  BY <1>1, <1>2, <1>3, PendingIsSum
<1> QED
  BY <1>4 DEF claimed

LEMMA PurgedTotal ==
  ASSUME NEW f, IsFiniteSet(DOMAIN f), f \in [DOMAIN f -> NftState], NEW j \in DOMAIN f
  PROVE  PendingIn(Purge(f, j)) = PendingIn(f) - f[j].pending_rewards
<1> DEFINE S == DOMAIN f \ {j}
           g == Purge(f, j)
<1>1. /\ DOMAIN g = S /\ \A a \in S : g[a] = f[a]
      /\ g \in [S -> NftState]
  BY PurgeFacts
<1>2. IsFiniteSet(S) /\ j \notin S /\ DOMAIN f = S \cup {j}
  BY FS_RemoveElement
<1> HIDE DEF S, g
<1>3. PendingIn(f) = f[j].pending_rewards + PendingIn(g)
  BY <1>1, <1>2, PendingAdd
<1>4. PendingIn(g) \in Nat /\ f[j].pending_rewards \in Nat
  BY <1>1, <1>2, PendingTotal, TreasuryNumbersAssumption DEF NftState
<1>5. PendingIn(g) = PendingIn(f) - f[j].pending_rewards
  BY <1>3, <1>4
<1> QED
  BY <1>5 DEF g

LEMMA ClaimFromCollectionSteady ==
  ASSUME TypeOK, NEW i \in DOMAIN nft, NEW c, NEW to, ClaimFromCollection(i, c, to)
  PROVE  Steady
<1>1. /\ nft' = [nft EXCEPT ![i].pending_rewards = 0]
      /\ settled' = settled + nft[i].pending_rewards
      /\ UNCHANGED <<due, slack>>
  BY DEF ClaimFromCollection
<1>2. Pending' = Pending - nft[i].pending_rewards
  BY <1>1, PendingNext, ClaimedTotal
<1>3. nft[i].pending_rewards \in Nat /\ Pending \in Nat /\ settled \in Nat
  BY RecordFacts, KnownTyped
<1> QED
  BY <1>1, <1>2, <1>3 DEF Steady, Known

LEMMA ClaimFromRecordSteady ==
  ASSUME TypeOK, NEW i \in DOMAIN nft, NEW j \in DOMAIN nft, NEW to,
         NEW emptied \in BOOLEAN, ClaimFromRecord(i, j, to, emptied)
  PROVE  Steady
<1> DEFINE n == nft[i].pending_rewards
           claimed == [nft EXCEPT ![i].pending_rewards = 0]
<1>1. /\ nft' = IF emptied THEN Purge(claimed, j) ELSE claimed
      /\ settled' = settled + n + (IF emptied THEN claimed[j].pending_rewards ELSE 0)
      /\ UNCHANGED <<due, slack>>
  BY DEF ClaimFromRecord
<1>2. /\ claimed \in [DOMAIN nft -> NftState]
      /\ IsFiniteSet(DOMAIN nft)
      /\ PendingIn(claimed) = Pending - n
      /\ n \in Nat /\ Pending \in Nat /\ settled \in Nat
  BY ClaimedRecords, ClaimedTotal, RecordFacts, KnownTyped
<1> HIDE DEF n, claimed
<1>3. DOMAIN claimed = DOMAIN nft /\ claimed[j] \in NftState
  BY <1>2
<1>4. claimed[j].pending_rewards \in Nat
  BY <1>3, TreasuryNumbersAssumption DEF NftState
<1>5. PendingIn(Purge(claimed, j)) = PendingIn(claimed) - claimed[j].pending_rewards
  BY <1>2, <1>3, PurgedTotal
<1>6. Pending' = PendingIn(nft')
  BY PendingNext
<1>7. CASE emptied
  BY <1>1, <1>2, <1>4, <1>5, <1>6, <1>7 DEF Steady, Known
<1>8. CASE ~ emptied
  BY <1>1, <1>2, <1>6, <1>8 DEF Steady, Known
<1> QED
  BY <1>7, <1>8

LEMMA RemoveSteady ==
  ASSUME TypeOK, NEW i \in DOMAIN nft, Remove(i)
  PROVE  Steady
<1>1. /\ nft' = Purge(nft, i) /\ settled' = settled + nft[i].pending_rewards
      /\ UNCHANGED <<due, slack>>
  BY DEF Remove
<1>2. PendingIn(Purge(nft, i)) = PendingIn(nft) - nft[i].pending_rewards
  BY KnownTyped, PurgedTotal
<1>3. Pending' = Pending - nft[i].pending_rewards
  BY <1>1, <1>2, PendingNext, PendingIsSum
<1>4. nft[i].pending_rewards \in Nat /\ Pending \in Nat /\ settled \in Nat
  BY RecordFacts, KnownTyped
<1> QED
  BY <1>1, <1>3, <1>4 DEF Steady, Known

LEMMA UntouchedSteady ==
  ASSUME UNCHANGED <<nft, due, settled, slack>>
  PROVE  Steady
BY DEF Steady, Known, Pending

LEMMA CloneAccounted ==
  ASSUME TypeOK, RewardsAccounted, NEW c \in Collections,
         NEW i \in NftPdas \cup Collections, NEW o \in NftState, CloneNft(c, i, o)
  PROVE  RewardsAccounted'
<1> DEFINE r == coll[c].clone_reward
           miss == MayMiss(c, i, o)
           total == PendingIn(Rewarded(c, i, o))
<1>1. /\ Exists(c) /\ (TwoLevels(o) => o.original_nft # i)
      /\ Issue(c, Rewarded(c, i, o), CopyOf(i, o))
      /\ due' = due + r /\ slack' = slack + miss /\ settled' = settled
  BY DEF CloneNft, Issue
<1>2. /\ total <= Pending + r
      /\ Pending + r < U64 => Pending + r <= total + miss
  BY <1>1, CloneTotal
<1>3. /\ Rewarded(c, i, o) \in [DOMAIN nft -> NftState]
      /\ CopyOf(i, o) \in NftState /\ CopyOf(i, o).pending_rewards = 0
  BY <1>1, RewardedFacts, CopyFacts
<1>4. Pending' = total
  BY <1>1, <1>3, IssuedTotal
<1>5. total \in Nat
  BY <1>3, KnownTyped, PendingTotal
<1>6. /\ r \in Nat /\ miss \in Nat /\ Pending \in Nat /\ settled \in Nat
      /\ due \in Nat /\ slack \in Nat /\ U64 \in Nat
  BY <1>1, PartsFacts, MissFacts, KnownTyped, TreasuryNumbersAssumption DEF TypeOK
<1> HIDE DEF r, miss, total
<1>7. /\ Pending + settled <= due
      /\ due < U64 => due <= Pending + settled + slack
  BY DEF RewardsAccounted
<1>8. total + settled <= due + r
  BY <1>2, <1>5, <1>6, <1>7
<1>9. due + r < U64 => due + r <= total + settled + (slack + miss)
  BY <1>2, <1>5, <1>6, <1>7
<1> QED
  BY <1>1, <1>4, <1>8, <1>9 DEF RewardsAccounted

LEMMA AccountedStep == IInv /\ RewardsAccounted /\ [Next]_vars => RewardsAccounted'
<1> SUFFICES ASSUME IInv, RewardsAccounted, [Next]_vars PROVE RewardsAccounted'
  OBVIOUS
<1>1. TypeOK
  BY DEF IInv, Books
<1>2. ASSUME Steady
      PROVE  RewardsAccounted'
  BY <1>2, SteadyKeeps
<1>3. CASE PlainIssue
  BY <1>1, <1>2, <1>3, PlainSteady
<1>4. CASE \E c \in Collections, i \in DOMAIN nft : CloneNft(c, i, nft[i])
  BY <1>1, <1>4, CloneAccounted, RecordFacts
<1>5. CASE \E c \in Collections, x \in Collections, o \in Crafted : CloneNft(c, x, o)
  BY <1>1, <1>5, CloneAccounted, TreasuryCraftedAssumption
<1>6. CASE \E i \in DOMAIN nft, c \in Collections, to \in Collections \cup {None} :
             ClaimFromCollection(i, c, to)
  BY <1>1, <1>2, <1>6, ClaimFromCollectionSteady
<1>7. CASE \E i \in DOMAIN nft, j \in DOMAIN nft, to \in Collections \cup {None},
              emptied \in BOOLEAN : ClaimFromRecord(i, j, to, emptied)
  BY <1>1, <1>2, <1>7, ClaimFromRecordSteady
<1>8. CASE \E i \in DOMAIN nft : BurnNft(i) \/ EmptiedByClaim(i)
  BY <1>1, <1>2, <1>8, RemoveSteady DEF BurnNft, EmptiedByClaim
<1>9. CASE UNCHANGED <<nft, due, settled, slack>>
  BY <1>2, <1>9, UntouchedSteady
<1>10. ASSUME NEW c \in Collections, NEW kind \in MintKinds,
              MintNft(c, kind) \/ \E n \in Payments : AutoMint(c, kind, n)
       PROVE  PlainIssue
  BY <1>10, TreasuryKindsAssumption DEF MintNft, AutoMint, PlainIssue
<1>11. ASSUME NEW c \in Collections,
              \/ \E reward \in Rewards : InitializeCollection(c, reward)
              \/ \E n \in Payments : Deposit(c, n)
              \/ \E reward \in Rewards :
                   \E left \in 0 .. treasury[c] : HandledAsRecord(c, reward, left)
              \/ \E count \in 0 .. Supply, reward \in Rewards,
                    lamports \in Rent .. MaxTreasury :
                   HandledAsCollection(c, count, reward, lamports)
       PROVE  UNCHANGED <<nft, due, settled, slack>>
  BY <1>11 DEF InitializeCollection, Deposit, HandledAsRecord, HandledAsCollection
<1>12. CASE UNCHANGED vars
  BY <1>9, <1>12 DEF vars
<1> QED
  BY <1>3, <1>4, <1>5, <1>6, <1>7, <1>8, <1>9, <1>10, <1>11, <1>12 DEF Next

LEMMA InitAccounted == Init => RewardsAccounted
<1> SUFFICES ASSUME Init PROVE RewardsAccounted
  OBVIOUS
<1>1. DOMAIN nft = {} /\ settled = 0 /\ due = 0 /\ slack = 0
  BY DEF Init, NoAccounts
<1>2. Pending = 0
  BY <1>1, PendingIsSum, SumEmpty DEF PendingIn
<1> QED
  BY <1>1, <1>2 DEF RewardsAccounted

\* Whatever is cloned, burned and claimed, from whichever treasury: no lamport
\* of a clone's reward is pending or settled twice, also when sums wrap; and
\* none is missing but what the parts of a split drop, what a product that
\* wraps loses, and what went to an account that is no record.
THEOREM RewardsKept == Spec => []RewardsAccounted
BY InitAccounted, AccountedStep, TreasurySound, PTL DEF Spec

=============================================================================
