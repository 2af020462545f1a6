------------------------- MODULE FractionPoolProofs -------------------------
(***************************************************************************)
(* Theorems about FractionPool, for every set of pools, lists and shares,  *)
(* with accounts that keep their size and with accounts that do not.       *)
(***************************************************************************)
EXTENDS FractionPool, SumTheorems, TLAPS

\* The part of the invariant that is about address p.
SoundAt(p) ==
  /\ phase[p] = "none" =>
       nft[p] = NewRecord(<<>>, NoParent) /\ drawn[p] = 0 /\ gained[p] = 0
  /\ nft[p].children = <<>> \/ SharesOk(nft[p].children)
  /\ Len(nft[p].children) <= nft[p].room
  /\ nft[p].parent_nft # p
  /\ paid[p] = available[p] + nft[p].total_received + nft[p].pending_rewards
                 + drawn[p]
  /\ nft[p].total_forwarded =
       nft[p].total_received + nft[p].pending_rewards + drawn[p] + gained[p]

LEMMA PointwiseNow ==
  ASSUME IInv, NEW p \in Pdas
  PROVE  SoundAt(p)
BY DEF IInv, RecordsSound, Accounted, SoundAt

LEMMA PointwiseInit ==
  ASSUME \A p \in Pdas : SoundAt(p)
  PROVE  RecordsSound /\ Accounted
BY DEF RecordsSound, Accounted, SoundAt

LEMMA PointwiseNext ==
  ASSUME \A p \in Pdas : SoundAt(p)'
  PROVE  RecordsSound' /\ Accounted'
BY DEF RecordsSound, Accounted, SoundAt

LEMMA NumbersAt ==
  ASSUME IInv, NEW p \in Pdas
  PROVE  /\ available[p] \in Nat /\ paid[p] \in Nat
         /\ drawn[p] \in Nat /\ gained[p] \in Nat
         /\ nft[p].total_received \in Nat
         /\ nft[p].pending_rewards \in Nat
         /\ nft[p].total_forwarded \in Nat
<1>1. /\ nft[p] \in Record
      /\ available[p] \in Nat /\ paid[p] \in Nat
      /\ drawn[p] \in Nat /\ gained[p] \in Nat
  BY PoolNumbersAssumption DEF IInv, TypeOK
<1> QED
  BY <1>1 DEF Record

\* An address none of whose state a step touches keeps its part.
LEMMA Untouched ==
  ASSUME NEW p, SoundAt(p), phase'[p] = phase[p], nft'[p] = nft[p],
         available'[p] = available[p], paid'[p] = paid[p],
         drawn'[p] = drawn[p], gained'[p] = gained[p]
  PROVE  SoundAt(p)'
BY DEF SoundAt

-----------------------------------------------------------------------------
(* Records.                                                                *)

LEMMA NewRecordTyped ==
  ASSUME NEW children \in Seq(FractionChild), NEW parent \in Pdas \cup {NoParent}
  PROVE  /\ NewRecord(children, parent) \in Record
         /\ NewRecord(children, parent).children = children
         /\ NewRecord(children, parent).parent_nft = parent
         /\ NewRecord(children, parent).room = Len(children)
         /\ NewRecord(children, parent).total_received = 0
         /\ NewRecord(children, parent).pending_rewards = 0
         /\ NewRecord(children, parent).total_forwarded = 0
<1>1. Len(children) \in Nat
  OBVIOUS
<1> QED
  BY <1>1 DEF NewRecord, Record

\* The record of an address nobody minted at, and of a new child.
LEMMA EmptyRecord ==
  ASSUME NEW parent \in Pdas \cup {NoParent}
  PROVE  LET r == NewRecord(<<>>, parent)
         IN  /\ r \in Record
             /\ r.children = <<>> /\ Len(r.children) = 0 /\ r.room = 0
             /\ r.parent_nft = parent
             /\ r.total_received = 0
             /\ r.pending_rewards = 0
             /\ r.total_forwarded = 0
BY DEF NewRecord, Record

\* Adding to a counter of a record changes nothing else in it.
LEMMA ForwardedAdds ==
  ASSUME NEW r \in Record, NEW n \in Nat
  PROVE  LET s == [r EXCEPT !.total_forwarded = @ + n]
         IN  /\ s \in Record
             /\ s.total_forwarded = r.total_forwarded + n
             /\ s.total_received = r.total_received
             /\ s.pending_rewards = r.pending_rewards
             /\ s.children = r.children /\ s.room = r.room
             /\ s.can_fraction = r.can_fraction
             /\ s.parent_nft = r.parent_nft
BY DEF Record

LEMMA ReceivedAdds ==
  ASSUME NEW r \in Record, NEW n \in Nat
  PROVE  LET s == [r EXCEPT !.total_received = @ + n]
         IN  /\ s \in Record
             /\ s.total_forwarded = r.total_forwarded
             /\ s.total_received = r.total_received + n
             /\ s.pending_rewards = r.pending_rewards
             /\ s.children = r.children /\ s.room = r.room
             /\ s.can_fraction = r.can_fraction
             /\ s.parent_nft = r.parent_nft
BY DEF Record

LEMMA PendingAdds ==
  ASSUME NEW r \in Record, NEW n \in Nat
  PROVE  LET s == [r EXCEPT !.pending_rewards = @ + n]
         IN  /\ s \in Record
             /\ s.total_forwarded = r.total_forwarded
             /\ s.total_received = r.total_received
             /\ s.pending_rewards = r.pending_rewards + n
             /\ s.children = r.children /\ s.room = r.room
             /\ s.can_fraction = r.can_fraction
             /\ s.parent_nft = r.parent_nft
BY DEF Record

\* A list that fits the account is written, and nothing else.
LEMMA WithChildrenTyped ==
  ASSUME NEW p \in Pdas, nft[p] \in Record,
         NEW children \in Seq(FractionChild), Fits(p, children)
  PROVE  LET s == WithChildren(p, children)
         IN  /\ s \in Record
             /\ s.children = children
             /\ Len(children) <= s.room
             /\ s.total_forwarded = nft[p].total_forwarded
             /\ s.total_received = nft[p].total_received
             /\ s.pending_rewards = nft[p].pending_rewards
             /\ s.can_fraction = nft[p].can_fraction
             /\ s.parent_nft = nft[p].parent_nft
<1> DEFINE r == nft[p]
           t == [r EXCEPT !.children = children]
<1>1. /\ t \in Record
      /\ t.children = children
      /\ t.room = r.room
      /\ t.total_forwarded = r.total_forwarded
      /\ t.total_received = r.total_received
      /\ t.pending_rewards = r.pending_rewards
      /\ t.can_fraction = r.can_fraction
      /\ t.parent_nft = r.parent_nft
  BY DEF Record
<1>2. Len(children) \in Nat
  OBVIOUS
<1>3. WithChildren(p, children)
        = [t EXCEPT !.room = IF Realloc THEN Len(children) ELSE @]
  BY DEF WithChildren, Record
<1>4. Realloc \/ Len(children) <= t.room
  BY <1>1 DEF Fits
<1> HIDE DEF t
<1> QED
  BY <1>1, <1>2, <1>3, <1>4 DEF Record

-----------------------------------------------------------------------------
(* Every instruction keeps the invariant.                                  *)

LEMMA PoolInit == Init => IInv
<1>1. SUFFICES ASSUME Init PROVE IInv
  OBVIOUS
<1>2. NewRecord(<<>>, NoParent) \in Record
  BY EmptyRecord
<1>3. TypeOK
  BY <1>1, <1>2, PoolNumbersAssumption DEF Init, TypeOK
<1>4. ASSUME NEW p \in Pdas PROVE SoundAt(p)
  <2>1. /\ nft[p] = NewRecord(<<>>, NoParent)
        /\ available[p] = 0 /\ paid[p] = 0 /\ drawn[p] = 0 /\ gained[p] = 0
    BY <1>1 DEF Init
  <2>2. nft[p].parent_nft # p
    BY <2>1, EmptyRecord, PoolParentAssumption
  <2> QED
    BY <2>1, <2>2, EmptyRecord DEF SoundAt
<1> QED
  BY <1>3, <1>4, PointwiseInit DEF IInv

LEMMA MintInv ==
  ASSUME IInv, NEW p \in Pdas, NEW children \in Lists, MintNft(p, children)
  PROVE  IInv'
<1> DEFINE r == NewRecord(children, NoParent)
<1>1. /\ phase[p] = "none" /\ available[p] = 0
      /\ SharesOk(children)
      /\ phase' = [phase EXCEPT ![p] = "open"]
      /\ nft' = [nft EXCEPT ![p] = r]
      /\ UNCHANGED <<available, paid, drawn, gained>>
  BY DEF MintNft, Vacant
<1>2. children \in Seq(FractionChild)
  BY PoolListsAssumption
<1>3. /\ r \in Record
      /\ r.children = children
      /\ r.parent_nft = NoParent
      /\ r.room = Len(children) /\ Len(children) \in Nat
      /\ r.total_received = 0 /\ r.pending_rewards = 0 /\ r.total_forwarded = 0
  BY <1>2, NewRecordTyped
<1> HIDE DEF r
<1>4. TypeOK'
  BY <1>1, <1>3 DEF IInv, TypeOK
<1>5. ASSUME NEW q \in Pdas PROVE SoundAt(q)'
  <2>1. SoundAt(q)
    BY PointwiseNow
  <2>2. CASE q # p
    BY <1>1, <2>1, <2>2, Untouched DEF IInv, TypeOK
  <2>3. CASE q = p
    <3>1. nft'[p] = r /\ phase'[p] = "open"
      BY <1>1 DEF IInv, TypeOK
    <3>2. /\ paid[p] = 0 /\ drawn[p] = 0 /\ gained[p] = 0
      <4>1. nft[p] = NewRecord(<<>>, NoParent) /\ drawn[p] = 0 /\ gained[p] = 0
        BY <1>1, <2>1, <2>3 DEF SoundAt
      <4>2. nft[p].total_received = 0 /\ nft[p].pending_rewards = 0
        BY <4>1, EmptyRecord
      <4> QED
        BY <1>1, <2>1, <2>3, <4>1, <4>2 DEF SoundAt
    <3>3. NoParent # p
      BY PoolParentAssumption
    <3> QED
      BY <1>1, <1>3, <2>3, <3>1, <3>2, <3>3 DEF SoundAt
  <2> QED
    BY <2>2, <2>3
<1> QED
  BY <1>4, <1>5, PointwiseNext DEF IInv

\* The counters of one record add up after n lamports were paid out and
\* counted twice, in total_forwarded and in total_received.
LEMMA ForwardInv ==
  ASSUME IInv, NEW p \in Pdas, ProxyForward(p)
  PROVE  IInv'
<1> DEFINE n == available[p]
           s == [nft[p] EXCEPT !.total_received = @ + n]
           t == [s EXCEPT !.total_forwarded = @ + n]
<1>1. /\ nft' = [nft EXCEPT ![p].total_received = @ + available[p],
                            ![p].total_forwarded = @ + available[p]]
      /\ available' = [available EXCEPT ![p] = 0]
      /\ UNCHANGED <<phase, paid, drawn, gained>>
      /\ phase[p] = "open"
  BY DEF ProxyForward, Readable
<1>2. nft[p] \in Record /\ n \in Nat
  BY DEF IInv, TypeOK
<1>3. /\ nft'[p] = t
      /\ \A q \in Pdas \ {p} : nft'[q] = nft[q]
      /\ available'[p] = 0
      /\ \A q \in Pdas \ {p} : available'[q] = available[q]
  BY <1>1 DEF IInv, TypeOK, Record
<1>4. /\ s \in Record
      /\ s.total_forwarded = nft[p].total_forwarded
      /\ s.total_received = nft[p].total_received + n
      /\ s.pending_rewards = nft[p].pending_rewards
      /\ s.children = nft[p].children /\ s.room = nft[p].room
      /\ s.parent_nft = nft[p].parent_nft
  BY <1>2, ReceivedAdds
<1> HIDE DEF s
<1>5. /\ t \in Record
      /\ t.total_forwarded = nft[p].total_forwarded + n
      /\ t.total_received = nft[p].total_received + n
      /\ t.pending_rewards = nft[p].pending_rewards
      /\ t.children = nft[p].children /\ t.room = nft[p].room
      /\ t.parent_nft = nft[p].parent_nft
  BY <1>2, <1>4, ForwardedAdds
<1> HIDE DEF t
<1>6. TypeOK'
  BY <1>1, <1>3, <1>5 DEF IInv, TypeOK
<1>7. ASSUME NEW q \in Pdas PROVE SoundAt(q)'
  <2>1. SoundAt(q)
    BY PointwiseNow
  <2>2. CASE q # p
    BY <1>1, <1>3, <2>1, <2>2, Untouched
  <2>3. CASE q = p
    <3>1. /\ available[p] \in Nat /\ paid[p] \in Nat
          /\ drawn[p] \in Nat /\ gained[p] \in Nat
          /\ nft[p].total_received \in Nat
          /\ nft[p].pending_rewards \in Nat
          /\ nft[p].total_forwarded \in Nat
      BY NumbersAt
    <3>2. SoundAt(p)
      BY PointwiseNow
    <3>3. /\ paid[p] = available[p] + nft[p].total_received
                       + nft[p].pending_rewards + drawn[p]
          /\ nft[p].total_forwarded = nft[p].total_received
                + nft[p].pending_rewards + drawn[p] + gained[p]
      BY <3>2 DEF SoundAt
    <3>4. (paid[p] = available[p] + nft[p].total_received
             + nft[p].pending_rewards + drawn[p])'
      BY <1>1, <1>2, <1>3, <1>5, <3>1, <3>3
    <3>5. (nft[p].total_forwarded = nft[p].total_received
             + nft[p].pending_rewards + drawn[p] + gained[p])'
      BY <1>1, <1>2, <1>3, <1>5, <3>1, <3>3
    <3>6. SoundAt(p)'
      BY <1>1, <1>2, <1>3, <1>5, <3>2, <3>4, <3>5 DEF SoundAt
    <3> QED
      BY <2>3, <3>6
  <2> QED
    BY <2>2, <2>3
<1> QED
  BY <1>6, <1>7, PointwiseNext DEF IInv

LEMMA ClaimParentInv ==
  ASSUME IInv, NEW p \in Pdas, ClaimParentShare(p)
  PROVE  IInv'
<1> DEFINE n == Claimable(p)
           s == [nft[p] EXCEPT !.pending_rewards = @ + n]
           t == [s EXCEPT !.total_forwarded = @ + n]
<1>1. /\ nft' = [nft EXCEPT ![p].pending_rewards = @ + n,
                            ![p].total_forwarded = @ + n]
      /\ available' = [available EXCEPT ![p] = @ - n]
      /\ UNCHANGED <<phase, paid, drawn, gained>>
      /\ phase[p] = "open"
      /\ n \in 1 .. available[p]
  BY DEF ClaimParentShare, Readable
<1>2. /\ nft[p] \in Record
      /\ available[p] \in Nat
      /\ n \in Nat
      /\ available[p] - n \in Nat
  BY <1>1 DEF IInv, TypeOK
<1> HIDE DEF n
<1>3. /\ nft'[p] = t
      /\ \A q \in Pdas \ {p} : nft'[q] = nft[q]
      /\ available'[p] = available[p] - n
      /\ \A q \in Pdas \ {p} : available'[q] = available[q]
  BY <1>1 DEF IInv, TypeOK, Record
<1>4. /\ s \in Record
      /\ s.total_forwarded = nft[p].total_forwarded
      /\ s.total_received = nft[p].total_received
      /\ s.pending_rewards = nft[p].pending_rewards + n
      /\ s.children = nft[p].children /\ s.room = nft[p].room
      /\ s.parent_nft = nft[p].parent_nft
  BY <1>2, PendingAdds
<1> HIDE DEF s
<1>5. /\ t \in Record
      /\ t.total_forwarded = nft[p].total_forwarded + n
      /\ t.total_received = nft[p].total_received
      /\ t.pending_rewards = nft[p].pending_rewards + n
      /\ t.children = nft[p].children /\ t.room = nft[p].room
      /\ t.parent_nft = nft[p].parent_nft
  BY <1>2, <1>4, ForwardedAdds
<1> HIDE DEF t
<1>6. TypeOK'
  BY <1>1, <1>2, <1>3, <1>5 DEF IInv, TypeOK
<1>7. ASSUME NEW q \in Pdas PROVE SoundAt(q)'
  <2>1. SoundAt(q)
    BY PointwiseNow
  <2>2. CASE q # p
    BY <1>1, <1>3, <2>1, <2>2, Untouched
  <2>3. CASE q = p
    <3>1. /\ available[p] \in Nat /\ paid[p] \in Nat
          /\ drawn[p] \in Nat /\ gained[p] \in Nat
          /\ nft[p].total_received \in Nat
          /\ nft[p].pending_rewards \in Nat
          /\ nft[p].total_forwarded \in Nat
      BY NumbersAt
    <3>2. SoundAt(p)
      BY PointwiseNow
    <3>3. /\ paid[p] = available[p] + nft[p].total_received
                       + nft[p].pending_rewards + drawn[p]
          /\ nft[p].total_forwarded = nft[p].total_received
                + nft[p].pending_rewards + drawn[p] + gained[p]
      BY <3>2 DEF SoundAt
    <3>4. (paid[p] = available[p] + nft[p].total_received
             + nft[p].pending_rewards + drawn[p])'
      BY <1>1, <1>2, <1>3, <1>5, <3>1, <3>3
    <3>5. (nft[p].total_forwarded = nft[p].total_received
             + nft[p].pending_rewards + drawn[p] + gained[p])'
      BY <1>1, <1>2, <1>3, <1>5, <3>1, <3>3
    <3>6. SoundAt(p)'
      BY <1>1, <1>2, <1>3, <1>5, <3>2, <3>4, <3>5 DEF SoundAt
    <3> QED
      BY <2>3, <3>6
  <2> QED
    BY <2>2, <2>3
<1> QED
  BY <1>6, <1>7, PointwiseNext DEF IInv

LEMMA ClaimFractionInv ==
  ASSUME IInv, NEW c \in Pdas, NEW p \in Pdas, ClaimFractionShare(c, p)
  PROVE  IInv'
<1> DEFINE n == ChildClaimable(c, p)
           s == [nft[p] EXCEPT !.total_forwarded = @ + n]
           t == [nft[c] EXCEPT !.total_forwarded = @ + n]
<1>1. /\ nft' = [nft EXCEPT ![p].total_forwarded = @ + n,
                            ![c].total_forwarded = @ + n]
      /\ available' = [available EXCEPT ![p] = @ - n]
      /\ drawn' = [drawn EXCEPT ![p] = @ + n]
      /\ gained' = [gained EXCEPT ![c] = @ + n]
      /\ UNCHANGED <<phase, paid>>
      /\ phase[p] = "open" /\ phase[c] = "open"
      /\ nft[c].parent_nft = p
      /\ n \in 1 .. available[p]
  BY DEF ClaimFractionShare, Readable
<1>2. /\ nft[p] \in Record /\ nft[c] \in Record
      /\ available[p] \in Nat /\ drawn[p] \in Nat /\ gained[c] \in Nat
      /\ n \in Nat
      /\ available[p] - n \in Nat
  BY <1>1 DEF IInv, TypeOK
<1>3. c # p
  <2>1. SoundAt(c)
    BY PointwiseNow
  <2> QED
    BY <1>1, <2>1 DEF SoundAt
<1> HIDE DEF n
<1>4. /\ nft'[p] = s
      /\ nft'[c] = t
      /\ \A q \in Pdas \ {p, c} : nft'[q] = nft[q]
  BY <1>1, <1>3 DEF IInv, TypeOK
<1>5. /\ available'[p] = available[p] - n
      /\ \A q \in Pdas \ {p} : available'[q] = available[q]
      /\ drawn'[p] = drawn[p] + n
      /\ \A q \in Pdas \ {p} : drawn'[q] = drawn[q]
      /\ gained'[c] = gained[c] + n
      /\ \A q \in Pdas \ {c} : gained'[q] = gained[q]
  BY <1>1 DEF IInv, TypeOK
<1>6. /\ s \in Record
      /\ s.total_forwarded = nft[p].total_forwarded + n
      /\ s.total_received = nft[p].total_received
      /\ s.pending_rewards = nft[p].pending_rewards
      /\ s.children = nft[p].children /\ s.room = nft[p].room
      /\ s.parent_nft = nft[p].parent_nft
  BY <1>2, ForwardedAdds
<1>7. /\ t \in Record
      /\ t.total_forwarded = nft[c].total_forwarded + n
      /\ t.total_received = nft[c].total_received
      /\ t.pending_rewards = nft[c].pending_rewards
      /\ t.children = nft[c].children /\ t.room = nft[c].room
      /\ t.parent_nft = nft[c].parent_nft
  BY <1>2, ForwardedAdds
<1> HIDE DEF s, t
<1>8. TypeOK'
  <2>1. nft' \in [Pdas -> Record]
    BY <1>1, <1>4, <1>6, <1>7 DEF IInv, TypeOK
  <2>2. /\ available' \in [Pdas -> Nat]
        /\ drawn' \in [Pdas -> Nat]
        /\ gained' \in [Pdas -> Nat]
    BY <1>1, <1>2 DEF IInv, TypeOK
  <2> QED
    BY <1>1, <2>1, <2>2 DEF IInv, TypeOK
<1>9. ASSUME NEW q \in Pdas PROVE SoundAt(q)'
  <2>1. SoundAt(q)
    BY PointwiseNow
  <2>2. CASE q \notin {p, c}
    BY <1>1, <1>4, <1>5, <2>1, <2>2, Untouched
  <2>3. CASE q = p
    <3>1. /\ available[p] \in Nat /\ paid[p] \in Nat
          /\ drawn[p] \in Nat /\ gained[p] \in Nat
          /\ nft[p].total_received \in Nat
          /\ nft[p].pending_rewards \in Nat
          /\ nft[p].total_forwarded \in Nat
      BY NumbersAt
    <3>2. SoundAt(p)
      BY PointwiseNow
    <3>3. /\ paid[p] = available[p] + nft[p].total_received
                       + nft[p].pending_rewards + drawn[p]
          /\ nft[p].total_forwarded = nft[p].total_received
                + nft[p].pending_rewards + drawn[p] + gained[p]
      BY <3>2 DEF SoundAt
    <3>4. (paid[p] = available[p] + nft[p].total_received
             + nft[p].pending_rewards + drawn[p])'
      BY <1>1, <1>2, <1>3, <1>4, <1>5, <1>6, <3>1, <3>3
    <3>5. (nft[p].total_forwarded = nft[p].total_received
             + nft[p].pending_rewards + drawn[p] + gained[p])'
      BY <1>1, <1>2, <1>3, <1>4, <1>5, <1>6, <3>1, <3>3
    <3>6. SoundAt(p)'
      BY <1>1, <1>2, <1>3, <1>4, <1>5, <1>6, <3>2, <3>4, <3>5 DEF SoundAt
    <3> QED
      BY <2>3, <3>6
  <2>4. CASE q = c
    <3>1. /\ available[c] \in Nat /\ paid[c] \in Nat
          /\ drawn[c] \in Nat /\ gained[c] \in Nat
          /\ nft[c].total_received \in Nat
          /\ nft[c].pending_rewards \in Nat
          /\ nft[c].total_forwarded \in Nat
      BY NumbersAt
    <3>2. SoundAt(c)
      BY PointwiseNow
    <3>3. /\ paid[c] = available[c] + nft[c].total_received
                       + nft[c].pending_rewards + drawn[c]
          /\ nft[c].total_forwarded = nft[c].total_received
                + nft[c].pending_rewards + drawn[c] + gained[c]
      BY <3>2 DEF SoundAt
    <3>4. (paid[c] = available[c] + nft[c].total_received
             + nft[c].pending_rewards + drawn[c])'
      BY <1>1, <1>2, <1>3, <1>4, <1>5, <1>7, <3>1, <3>3
    <3>5. (nft[c].total_forwarded = nft[c].total_received
             + nft[c].pending_rewards + drawn[c] + gained[c])'
      <4>1. /\ nft'[c].total_forwarded = nft[c].total_forwarded + n
            /\ nft'[c].total_received = nft[c].total_received
            /\ nft'[c].pending_rewards = nft[c].pending_rewards
            /\ drawn'[c] = drawn[c] /\ gained'[c] = gained[c] + n
        BY <1>3, <1>4, <1>5, <1>7
      <4> QED
        BY <1>2, <3>1, <3>3, <4>1
    <3>6. SoundAt(c)'
      BY <1>1, <1>2, <1>3, <1>4, <1>5, <1>7, <3>2, <3>4, <3>5 DEF SoundAt
    <3> QED
      BY <2>4, <3>6
  <2> QED
    BY <2>2, <2>3, <2>4
<1> QED
  BY <1>8, <1>9, PointwiseNext DEF IInv

LEMMA UpdateInv ==
  ASSUME IInv, NEW p \in Pdas, NEW children \in Lists,
         UpdateFractions(p, children)
  PROVE  IInv'
<1> DEFINE s == WithChildren(p, children)
<1>1. /\ nft' = [nft EXCEPT ![p] = s]
      /\ UNCHANGED <<phase, available, paid, drawn, gained>>
      /\ phase[p] = "open"
      /\ SharesOk(children)
      /\ Fits(p, children)
  BY DEF UpdateFractions, Readable
<1>2. nft[p] \in Record /\ children \in Seq(FractionChild)
  BY PoolListsAssumption DEF IInv, TypeOK
<1>3. /\ s \in Record
      /\ s.children = children
      /\ Len(children) <= s.room
      /\ s.total_forwarded = nft[p].total_forwarded
      /\ s.total_received = nft[p].total_received
      /\ s.pending_rewards = nft[p].pending_rewards
      /\ s.parent_nft = nft[p].parent_nft
  BY <1>1, <1>2, WithChildrenTyped
<1> HIDE DEF s
<1>4. /\ nft'[p] = s
      /\ \A q \in Pdas \ {p} : nft'[q] = nft[q]
  BY <1>1 DEF IInv, TypeOK
<1>5. TypeOK'
  BY <1>1, <1>3 DEF IInv, TypeOK
<1>6. ASSUME NEW q \in Pdas PROVE SoundAt(q)'
  <2>1. SoundAt(q)
    BY PointwiseNow
  <2>2. CASE q # p
    BY <1>1, <1>4, <2>1, <2>2, Untouched
  <2>3. CASE q = p
    BY <1>1, <1>3, <1>4, <2>1, <2>3 DEF SoundAt
  <2> QED
    BY <2>2, <2>3
<1> QED
  BY <1>5, <1>6, PointwiseNext DEF IInv

LEMMA SplitInv ==
  ASSUME IInv, NEW p \in Pdas, NEW c \in Pdas, NEW share_bps \in Shares,
         SplitFraction(p, c, share_bps)
  PROVE  IInv'
<1> DEFINE children == Append(nft[p].children,
                              [child_nft_pda |-> c, share_bps |-> share_bps])
           s == WithChildren(p, children)
           t == NewRecord(<<>>, p)
<1>1. /\ nft' = [nft EXCEPT ![p] = s, ![c] = t]
      /\ phase' = [phase EXCEPT ![c] = "open"]
      /\ UNCHANGED <<available, paid, drawn, gained>>
      /\ phase[p] = "open" /\ phase[c] = "none" /\ available[c] = 0
      /\ SharesOk(children)
      /\ Fits(p, children)
  BY DEF SplitFraction, Readable, Vacant
<1>2. c # p
  BY <1>1
<1>3. nft[p] \in Record
  BY DEF IInv, TypeOK
<1>4. children \in Seq(FractionChild)
  <2>1. share_bps \in Nat
    BY PoolNumbersAssumption
  <2> QED
    BY <1>3, <2>1 DEF Record, FractionChild
<1> HIDE DEF children
<1>5. /\ s \in Record
      /\ s.children = children
      /\ Len(children) <= s.room
      /\ s.total_forwarded = nft[p].total_forwarded
      /\ s.total_received = nft[p].total_received
      /\ s.pending_rewards = nft[p].pending_rewards
      /\ s.parent_nft = nft[p].parent_nft
  BY <1>1, <1>3, <1>4, WithChildrenTyped
<1>6. /\ t \in Record
      /\ t.children = <<>> /\ Len(t.children) = 0 /\ t.room = 0
      /\ t.parent_nft = p
      /\ t.total_received = 0 /\ t.pending_rewards = 0 /\ t.total_forwarded = 0
  BY EmptyRecord
<1> HIDE DEF s, t
<1>7. /\ nft'[p] = s
      /\ nft'[c] = t
      /\ \A q \in Pdas \ {p, c} : nft'[q] = nft[q]
      /\ phase'[c] = "open"
      /\ \A q \in Pdas \ {c} : phase'[q] = phase[q]
  BY <1>1, <1>2 DEF IInv, TypeOK
<1>8. TypeOK'
  BY <1>1, <1>5, <1>6 DEF IInv, TypeOK
<1>9. /\ paid[c] = 0 /\ drawn[c] = 0 /\ gained[c] = 0
  <2>1. SoundAt(c)
    BY PointwiseNow
  <2>2. /\ nft[c] = NewRecord(<<>>, NoParent)
        /\ drawn[c] = 0 /\ gained[c] = 0
    BY <1>1, <2>1 DEF SoundAt
  <2>3. nft[c].total_received = 0 /\ nft[c].pending_rewards = 0
    BY <2>2, EmptyRecord
  <2> QED
    BY <1>1, <2>1, <2>2, <2>3 DEF SoundAt
<1>10. ASSUME NEW q \in Pdas PROVE SoundAt(q)'
  <2>1. SoundAt(q)
    BY PointwiseNow
  <2>2. CASE q \notin {p, c}
    BY <1>1, <1>7, <2>1, <2>2, Untouched
  <2>3. CASE q = p
    BY <1>1, <1>2, <1>5, <1>7, <2>1, <2>3 DEF SoundAt
  <2>4. CASE q = c
    BY <1>1, <1>2, <1>6, <1>7, <1>9, <2>4 DEF SoundAt
  <2> QED
    BY <2>2, <2>3, <2>4
<1> QED
  BY <1>8, <1>10, PointwiseNext DEF IInv

LEMMA BurnInv ==
  ASSUME IInv, NEW p \in Pdas, BurnNft(p)
  PROVE  IInv'
<1>1. /\ phase' = [phase EXCEPT ![p] = "closed"]
      /\ UNCHANGED <<nft, available, paid, drawn, gained>>
  BY DEF BurnNft
<1>2. TypeOK'
  BY <1>1 DEF IInv, TypeOK
<1>3. ASSUME NEW q \in Pdas PROVE SoundAt(q)'
  <2>1. SoundAt(q) /\ (phase'[q] = "none" => phase[q] = "none")
    BY <1>1, PointwiseNow DEF IInv, TypeOK
  <2> QED
    BY <1>1, <2>1 DEF SoundAt
<1> QED
  BY <1>2, <1>3, PointwiseNext DEF IInv

LEMMA DepositInv ==
  ASSUME IInv, NEW p \in Pdas, NEW n \in Amounts, Deposit(p, n)
  PROVE  IInv'
<1>1. /\ paid[p] + n <= MaxPaid
      /\ available' = [available EXCEPT ![p] = @ + n]
      /\ paid' = [paid EXCEPT ![p] = @ + n]
      /\ UNCHANGED <<phase, nft, drawn, gained>>
  BY DEF Deposit
<1>2. n \in Nat /\ MaxPaid \in Nat
  BY PoolNumbersAssumption
<1>3. /\ available[p] \in Nat /\ paid[p] \in Nat
      /\ available'[p] = available[p] + n
      /\ paid'[p] = paid[p] + n
      /\ \A q \in Pdas \ {p} : available'[q] = available[q] /\ paid'[q] = paid[q]
  BY <1>1, <1>2 DEF IInv, TypeOK
<1>4. TypeOK'
  BY <1>1, <1>2, <1>3 DEF IInv, TypeOK
<1>5. ASSUME NEW q \in Pdas PROVE SoundAt(q)'
  <2>1. SoundAt(q)
    BY PointwiseNow
  <2>2. CASE q # p
    BY <1>1, <1>3, <2>1, <2>2, Untouched
  <2>3. CASE q = p
    <3>1. /\ available[p] \in Nat /\ paid[p] \in Nat
          /\ drawn[p] \in Nat /\ gained[p] \in Nat
          /\ nft[p].total_received \in Nat
          /\ nft[p].pending_rewards \in Nat
          /\ nft[p].total_forwarded \in Nat
      BY NumbersAt
    <3>2. SoundAt(p)
      BY PointwiseNow
    <3>3. /\ paid[p] = available[p] + nft[p].total_received
                       + nft[p].pending_rewards + drawn[p]
          /\ nft[p].total_forwarded = nft[p].total_received
                + nft[p].pending_rewards + drawn[p] + gained[p]
      BY <3>2 DEF SoundAt
    <3>4. (paid[p] = available[p] + nft[p].total_received
             + nft[p].pending_rewards + drawn[p])'
      BY <1>1, <1>2, <1>3, <3>1, <3>3
    <3>5. (nft[p].total_forwarded = nft[p].total_received
             + nft[p].pending_rewards + drawn[p] + gained[p])'
      BY <1>1, <1>2, <1>3, <3>1, <3>3
    <3>6. SoundAt(p)'
      BY <1>1, <1>2, <1>3, <3>2, <3>4, <3>5 DEF SoundAt
    <3> QED
      BY <2>3, <3>6
  <2> QED
    BY <2>2, <2>3
<1> QED
  BY <1>4, <1>5, PointwiseNext DEF IInv

LEMMA PoolStep ==
  ASSUME IInv, [Next]_vars
  PROVE  IInv'
<1>1. CASE Next
  BY <1>1, MintInv, SplitInv, ForwardInv, ClaimParentInv, ClaimFractionInv,
     UpdateInv, BurnInv, DepositInv DEF Next
<1>2. CASE UNCHANGED vars
  BY <1>2 DEF vars, IInv, TypeOK, RecordsSound, Accounted
<1> QED
  BY <1>1, <1>2

\* Every lamport paid to a pool is there or was paid out by the program, and
\* the counter the shares are computed from adds up the payouts, whatever the
\* order of forwards, claims, splits and updates.
THEOREM PoolInvariant == Spec => []IInv
BY PoolInit, PoolStep, PTL DEF Spec

-----------------------------------------------------------------------------
(* Accounts that keep their size never get a child.                        *)

\* The list would be longer by one than what the account was made for.
LEMMA NoSplit ==
  ASSUME IInv, ~ Realloc, NEW p \in Pdas, NEW c \in Pdas, NEW share_bps \in Shares
  PROVE  ~ SplitFraction(p, c, share_bps)
<1> DEFINE child == [child_nft_pda |-> c, share_bps |-> share_bps]
<1>1. SUFFICES ASSUME SplitFraction(p, c, share_bps) PROVE FALSE
  OBVIOUS
<1>2. /\ Len(nft[p].children) = nft[p].room
      /\ Len(Append(nft[p].children, child)) <= nft[p].room
  BY <1>1 DEF SplitFraction, Readable, Fits
<1>3. nft[p].children \in Seq(FractionChild)
  BY DEF IInv, TypeOK, Record
<1>4. child \in FractionChild
  BY PoolNumbersAssumption DEF FractionChild
<1>5. Len(Append(nft[p].children, child)) = Len(nft[p].children) + 1
  BY <1>3, <1>4
<1> QED
  BY <1>2, <1>3, <1>5

\* Only a split writes parent_nft; only a claim by a child's owner draws.
LEMMA NobodyStep ==
  ASSUME IInv, NobodyIsAChild, [Next]_vars
  PROVE  NobodyIsAChild'
<1>1. SUFFICES ASSUME ~ Realloc, NEW q \in Pdas
               PROVE  nft'[q].parent_nft = NoParent /\ drawn'[q] = 0
  BY DEF NobodyIsAChild
<1>2. \A p \in Pdas : nft[p].parent_nft = NoParent /\ drawn[p] = 0
  BY <1>1 DEF NobodyIsAChild
<1>3. \A p \in Pdas : nft[p] \in Record
  BY DEF IInv, TypeOK
<1>4. ASSUME NEW p \in Pdas, NEW children \in Lists, MintNft(p, children)
      PROVE  nft'[q].parent_nft = NoParent /\ drawn'[q] = 0
  <2>1. NewRecord(children, NoParent).parent_nft = NoParent
    BY DEF NewRecord
  <2> QED
    BY <1>2, <1>4, <2>1 DEF MintNft, IInv, TypeOK
<1>5. ASSUME NEW p \in Pdas, NEW c \in Pdas, NEW share_bps \in Shares,
             SplitFraction(p, c, share_bps)
      PROVE  FALSE
  BY <1>1, <1>5, NoSplit
<1>6. ASSUME NEW p \in Pdas, ProxyForward(p)
      PROVE  nft'[q].parent_nft = NoParent /\ drawn'[q] = 0
  BY <1>2, <1>3, <1>6 DEF ProxyForward, Record, IInv, TypeOK
<1>7. ASSUME NEW p \in Pdas, ClaimParentShare(p)
      PROVE  nft'[q].parent_nft = NoParent /\ drawn'[q] = 0
  <2> DEFINE n == Claimable(p)
  <2>1. /\ nft' = [nft EXCEPT ![p].pending_rewards = @ + n,
                              ![p].total_forwarded = @ + n]
        /\ drawn' = drawn
    BY <1>7 DEF ClaimParentShare
  <2> HIDE DEF n
  <2> QED
    BY <1>2, <1>3, <2>1 DEF Record, IInv, TypeOK
<1>8. ASSUME NEW c \in Pdas, NEW p \in Pdas, ClaimFractionShare(c, p)
      PROVE  FALSE
  BY <1>2, <1>8, PoolParentAssumption DEF ClaimFractionShare
<1>9. ASSUME NEW p \in Pdas, NEW children \in Lists, UpdateFractions(p, children)
      PROVE  nft'[q].parent_nft = NoParent /\ drawn'[q] = 0
  <2> DEFINE s == WithChildren(p, children)
  <2>1. nft' = [nft EXCEPT ![p] = s] /\ drawn' = drawn /\ Fits(p, children)
    BY <1>9 DEF UpdateFractions
  <2>2. s.parent_nft = nft[p].parent_nft
    <3>1. children \in Seq(FractionChild)
      BY PoolListsAssumption
    <3> QED
      BY <1>3, <2>1, <3>1, WithChildrenTyped
  <2> HIDE DEF s
  <2> QED
    BY <1>2, <2>1, <2>2 DEF IInv, TypeOK
<1>10. ASSUME NEW p \in Pdas, BurnNft(p)
       PROVE  nft'[q].parent_nft = NoParent /\ drawn'[q] = 0
  BY <1>2, <1>10 DEF BurnNft
<1>11. ASSUME NEW p \in Pdas, NEW n \in Amounts, Deposit(p, n)
       PROVE  nft'[q].parent_nft = NoParent /\ drawn'[q] = 0
  BY <1>2, <1>11 DEF Deposit
<1>12. CASE UNCHANGED vars
  BY <1>2, <1>12 DEF vars
<1> QED
  BY <1>4, <1>5, <1>6, <1>7, <1>8, <1>9, <1>10, <1>11, <1>12 DEF Next

\* As long as no handler resizes an account, no split commits, so no record
\* has a parent and no child's owner is ever paid.
THEOREM PoolNobodyIsAChild == Spec => []NobodyIsAChild
<1>1. Init => NobodyIsAChild
  BY EmptyRecord DEF Init, NobodyIsAChild
<1>2. IInv /\ NobodyIsAChild /\ [Next]_vars => NobodyIsAChild'
  BY NobodyStep
<1> QED
  BY <1>1, <1>2, PoolInvariant, PTL DEF Spec

-----------------------------------------------------------------------------
(* The shares of a list.                                                   *)

LEMMA LeastIsIn ==
  ASSUME NEW I, I \subseteq Nat, I # {}
  PROVE  Min(I) \in I
<1> DEFINE Less == OpToRel(<, Nat)
<1>1. /\ IsWellFoundedOn(Less, Nat)
      /\ \A x, y \in Nat : y < x => <<y, x>> \in Less
  BY NatLessThanWellFounded DEF OpToRel
<1> HIDE DEF Less
<1>2. PICK x \in I : \A y \in I : ~ (<<y, x>> \in Less)
  BY <1>1, WFMin
<1>3. \A y \in I : x <= y
  <2>1. \A y \in I : ~ (y < x)
    BY <1>1, <1>2
  <2> QED
    BY <2>1
<1> QED
  BY <1>3 DEF Min

\* Where the list of p has c.
Place(c, p) ==
  SelectInSeq(nft[p].children, LAMBDA child : child.child_nft_pda = c)

LEMMA PlaceFacts ==
  ASSUME IInv, NEW c, NEW p \in Pdas, IsChild(c, p)
  PROVE  /\ Place(c, p) \in DOMAIN nft[p].children
         /\ nft[p].children[Place(c, p)].child_nft_pda = c
         /\ BpsOf(c, p) = nft[p].children[Place(c, p)].share_bps
         /\ BpsOf(c, p) \in Nat
<1> DEFINE children == nft[p].children
           I == {i \in 1 .. Len(children) : children[i].child_nft_pda = c}
<1>1. children \in Seq(FractionChild)
  BY DEF IInv, TypeOK, Record
<1>2. /\ Len(children) \in Nat /\ DOMAIN children = 1 .. Len(children)
      /\ \A i \in DOMAIN children : children[i] \in FractionChild
  BY <1>1
<1>3. I # {} /\ I \subseteq Nat
  BY <1>2 DEF IsChild
<1>4. Place(c, p) = Min(I)
  BY <1>3 DEF Place, SelectInSeq
<1>5. BpsOf(c, p) = children[Place(c, p)].share_bps
  BY DEF BpsOf, Place
<1>6. Place(c, p) \in I
  BY <1>3, <1>4, LeastIsIn
<1> QED
  BY <1>2, <1>5, <1>6 DEF FractionChild

LEMMA SharesOkFacts ==
  ASSUME NEW children, SharesOk(children)
  PROVE  SumBps(children) \in 0 .. 10000
<1> DEFINE n == SumBps(children)
<1>1. Len(children) <= 8 /\ n \in 0 .. 10000
  BY SMT DEF SharesOk
<1> HIDE DEF n
<1>2. n \in 0 .. 10000
  BY <1>1
<1> QED
  BY <1>2 DEF n

SharesOf(p) == [i \in DOMAIN nft[p].children |-> nft[p].children[i].share_bps]
KidShares(p) == [c \in Kids(p) |-> BpsOf(c, p)]

\* The children on the list share no more than the list gives, and that is no
\* more than everything.
LEMMA SharesFit ==
  ASSUME IInv, NEW p \in Pdas
  PROVE  /\ IsFiniteSet(Kids(p))
         /\ \A c \in Kids(p) : KidShares(p)[c] = BpsOf(c, p) /\ BpsOf(c, p) \in Nat
         /\ SumBps(nft[p].children) \in Nat
         /\ 10000 - SumBps(nft[p].children) \in Nat
         /\ SumFunctionOnSet(KidShares(p), Kids(p)) <= SumBps(nft[p].children)
<1> DEFINE children == nft[p].children
           R == DOMAIN children
           f == SharesOf(p)
           S == Kids(p)
           g == KidShares(p)
           name == [c \in S |-> Place(c, p)]
<1>1. /\ children \in Seq(FractionChild)
      /\ children = <<>> \/ SharesOk(children)
  BY PointwiseNow DEF IInv, TypeOK, Record, SoundAt
<1>2. /\ R = 1 .. Len(children) /\ Len(children) \in Nat
      /\ \A i \in R : f[i] = children[i].share_bps /\ f[i] \in Nat
      /\ DOMAIN f = R
  <2>1. R = 1 .. Len(children) /\ Len(children) \in Nat
    BY <1>1
  <2>2. \A i \in R : children[i] \in FractionChild
    BY <1>1
  <2>3. DOMAIN f = R /\ \A i \in R : f[i] = children[i].share_bps
    BY DEF SharesOf
  <2> HIDE DEF R, f, children
  <2> QED
    BY <2>1, <2>2, <2>3 DEF FractionChild
<1>3. IsFiniteSet(R)
  BY <1>2, FS_Interval
<1>4. IsFiniteSet(S)
  BY PoolPdasAssumption, FS_Subset DEF Kids
<1>5. \A c \in S : IsChild(c, p)
  BY DEF Kids
<1>6. \A c \in S : /\ Place(c, p) \in R
                   /\ children[Place(c, p)].child_nft_pda = c
                   /\ BpsOf(c, p) = children[Place(c, p)].share_bps
                   /\ BpsOf(c, p) \in Nat
  BY <1>5, PlaceFacts
<1>7. \A c \in S : g[c] = BpsOf(c, p)
  BY DEF KidShares
<1>8. SumBps(children) = SumFunctionOnSet(f, R)
  BY DEF SumBps, SumFunction, SharesOf
<1> HIDE DEF R, f, S, g, children
<1>9. SumBps(children) \in 0 .. 10000
  <2>1. ASSUME children = <<>>
        PROVE  SumBps(children) = 0
    <3>1. R = {}
      BY <1>2, <2>1
    <3> QED
      BY <1>8, <3>1, SumEmpty
  <2>2. ASSUME SharesOk(children)
        PROVE  SumBps(children) \in 0 .. 10000
    BY <2>2, SharesOkFacts
  <2>3. CASE children = <<>>
    BY <2>1, <2>3
  <2>4. CASE SharesOk(children)
    BY <2>2, <2>4
  <2> QED
    BY <1>1, <2>3, <2>4
<1>10. /\ name \in [S -> R]
       /\ \A x, y \in S : name[x] = name[y] => x = y
       /\ \A x \in S : g[x] = f[name[x]]
  BY <1>2, <1>6, <1>7
<1> HIDE DEF name
<1>11. SumFunctionOnSet(g, S) <= SumFunctionOnSet(f, R)
  BY <1>2, <1>3, <1>4, <1>10, SumOfNamed
<1>12. SumBps(children) \in Nat /\ 10000 - SumBps(children) \in Nat
  <2> DEFINE n == SumBps(children)
  <2>1. n \in 0 .. 10000
    BY <1>9
  <2> HIDE DEF n
  <2>2. n \in Nat /\ 10000 - n \in Nat
    BY <2>1
  <2> QED
    BY <2>2 DEF n
<1> QED
  BY <1>4, <1>6, <1>7, <1>8, <1>11, <1>12 DEF g, S, children
-----------------------------------------------------------------------------
(* What is there is enough for everybody.                                  *)

LEMMA PartFacts ==
  ASSUME NEW t \in Nat, NEW n \in Nat
  PROVE  /\ (t * n) \div 10000 \in Nat
         /\ 10000 * ((t * n) \div 10000) <= t * n
<1>1. \A m \in Nat : m \div 10000 \in Nat /\ 10000 * (m \div 10000) <= m
  OBVIOUS
<1>2. t * n \in Nat
  OBVIOUS
<1> QED
  BY <1>1, <1>2

\* The shares of what was ever there, all together.
KidParts(p) == [c \in Kids(p) |-> Entitled(p, BpsOf(c, p))]

LEMMA PartsFit ==
  ASSUME IInv, NEW p \in Pdas
  PROVE  /\ TotalPool(p) \in Nat
         /\ Entitled(p, OwnBps(p)) \in Nat
         /\ \A c \in Kids(p) : KidParts(p)[c] = Entitled(p, BpsOf(c, p))
                                /\ KidParts(p)[c] \in Nat
         /\ Entitled(p, OwnBps(p)) + SumFunctionOnSet(KidParts(p), Kids(p))
              <= TotalPool(p)
<1> DEFINE t == TotalPool(p)
           b == SumBps(nft[p].children)
           K == Kids(p)
           f == KidShares(p)
           g == KidParts(p)
           own == Entitled(p, OwnBps(p))
           kids == SumFunctionOnSet(g, K)
           shares == SumFunctionOnSet(f, K)
<1>1. t \in Nat
  BY NumbersAt DEF TotalPool
<1>2. /\ IsFiniteSet(K) /\ shares <= b
      /\ \A c \in K : f[c] = BpsOf(c, p) /\ f[c] \in Nat
  BY SharesFit
<1>3. b \in Nat /\ 10000 - b \in Nat
  BY SharesFit
<1>4. own = (t * (10000 - b)) \div 10000
  BY DEF Entitled, OwnBps
<1>5. own \in Nat /\ 10000 * own <= t * (10000 - b)
  <2> HIDE DEF t, b, own
  <2> QED
    BY <1>1, <1>3, <1>4, PartFacts
<1>6. \A c \in K : g[c] = Entitled(p, BpsOf(c, p))
  BY DEF KidParts
<1>7. ASSUME NEW c \in K
      PROVE  g[c] = (t * f[c]) \div 10000
  <2>1. Entitled(p, BpsOf(c, p)) = (t * BpsOf(c, p)) \div 10000
    BY DEF Entitled
  <2>2. g[c] = Entitled(p, BpsOf(c, p)) /\ f[c] = BpsOf(c, p)
    BY <1>2, <1>6
  <2> HIDE DEF t, g, f, K
  <2> QED
    BY <2>1, <2>2
<1> HIDE DEF t, b, K, f, g, own
<1>8. \A c \in K : g[c] \in Nat /\ 10000 * g[c] <= t * f[c]
  BY <1>1, <1>2, <1>7, PartFacts
<1>9. 10000 * kids <= t * shares
  <2> DEFINE d == 10000
  <2>1. d \in Nat /\ \A c \in K : d * g[c] <= t * f[c]
    BY <1>8
  <2> HIDE DEF d
  <2>2. d * kids <= t * shares
    BY <1>1, <1>2, <1>8, <2>1, SumOfParts
  <2> QED
    BY <2>2 DEF d
<1>10. kids \in Nat /\ shares \in Nat
  BY <1>2, <1>8, SumNat
<1> HIDE DEF kids, shares
<1>11. own + kids <= t
  <2>1. t * shares <= t * b
    BY <1>1, <1>2, <1>3, <1>10
  <2>2. t * (10000 - b) + t * b = 10000 * t
    BY <1>1, <1>3
  <2>3. t * shares \in Nat /\ t * b \in Nat /\ t * (10000 - b) \in Nat
    BY <1>1, <1>3, <1>10
  <2> QED
    BY <1>1, <1>5, <1>9, <1>10, <2>1, <2>2, <2>3
<1> QED
  BY <1>1, <1>5, <1>6, <1>8, <1>11 DEF t, K, g, own, kids

\* EvenHanded, whether p is open or not.
EvenBooks(p) ==
  /\ nft[p].total_received = 0
  /\ gained[p] = 0
  /\ nft[p].pending_rewards <= Entitled(p, OwnBps(p))
  /\ \A c \in Kids(p) :
       /\ nft[c].total_forwarded = gained[c]
       /\ gained[c] <= Entitled(p, BpsOf(c, p))
  /\ drawn[p] = SumFunctionOnSet(gained, Kids(p))

LEMMA EnoughForAll ==
  ASSUME IInv, NEW p \in Pdas, EvenBooks(p)
  PROVE  NobodyShort(p)
<1> DEFINE K == Kids(p)
           own == Entitled(p, OwnBps(p))
           parts == KidParts(p)
           rests == [c \in K |-> ChildClaimable(c, p)]
           pending == nft[p].pending_rewards
<1>1. /\ available[p] \in Nat /\ drawn[p] \in Nat /\ gained[p] = 0
      /\ pending \in Nat /\ nft[p].total_received = 0
      /\ nft[p].total_forwarded = pending + drawn[p]
      /\ TotalPool(p) = available[p] + pending + drawn[p]
  <2>1. /\ nft[p].total_forwarded
             = nft[p].total_received + pending + drawn[p] + gained[p]
        /\ nft[p].total_received = 0 /\ gained[p] = 0
    BY PointwiseNow DEF EvenBooks, SoundAt
  <2>2. /\ available[p] \in Nat /\ drawn[p] \in Nat /\ pending \in Nat
        /\ nft[p].total_forwarded \in Nat
    BY NumbersAt
  <2>3. TotalPool(p) = available[p] + nft[p].total_forwarded
    BY DEF TotalPool
  <2> QED
    BY <2>1, <2>2, <2>3
<1>2. /\ own \in Nat
      /\ \A c \in K : parts[c] = Entitled(p, BpsOf(c, p)) /\ parts[c] \in Nat
      /\ own + SumFunctionOnSet(parts, K) <= TotalPool(p)
      /\ IsFiniteSet(K)
  BY PartsFit, SharesFit
<1>3. \A c \in K : /\ nft[c].total_forwarded = gained[c]
                   /\ gained[c] <= Entitled(p, BpsOf(c, p))
                   /\ gained[c] \in Nat
  BY NumbersAt DEF EvenBooks, Kids
<1>4. \A c \in K : rests[c] = Minus(Entitled(p, BpsOf(c, p)), gained[c])
  BY <1>3 DEF ChildClaimable
<1>5. drawn[p] = SumFunctionOnSet(gained, K) /\ pending <= own
  BY DEF EvenBooks
<1>6. Claimable(p) = Minus(own, pending)
  BY DEF Claimable
<1>7. NobodyShort(p) <=> Claimable(p) + SumFunctionOnSet(rests, K) <= available[p]
  BY DEF NobodyShort, SumFunction
<1> HIDE DEF K, own, parts, rests, pending
<1>8. \A c \in K : parts[c] = rests[c] + gained[c] /\ rests[c] \in Int /\ gained[c] \in Int
  BY <1>2, <1>3, <1>4 DEF Minus
<1>9. SumFunctionOnSet(parts, K) = SumFunctionOnSet(rests, K) + SumFunctionOnSet(gained, K)
  BY <1>2, <1>8, SumPlus
<1>10. SumFunctionOnSet(rests, K) \in Int
  BY <1>2, <1>8, SumInt
<1>11. Claimable(p) = own - pending
  BY <1>1, <1>2, <1>5, <1>6 DEF Minus
<1> QED
  BY <1>1, <1>2, <1>5, <1>7, <1>9, <1>10, <1>11

-----------------------------------------------------------------------------
(* A step on the same terms keeps the books of p even.                     *)

\* The pool of p never gets smaller, and whoever takes out of it takes all
\* that is still theirs.
Fair(p) ==
  /\ TotalPool(p)' >= TotalPool(p)
  /\ nft'[p].pending_rewards \in {nft[p].pending_rewards, Entitled(p, OwnBps(p))}
  /\ \/ /\ drawn'[p] = drawn[p]
        /\ \A c \in Kids(p) : gained'[c] = gained[c]
     \/ \E k \in Kids(p) :
          /\ gained'[k] = Entitled(p, BpsOf(k, p))
          /\ \A c \in Kids(p) \ {k} : gained'[c] = gained[c]
          /\ drawn'[p] = drawn[p] + (gained'[k] - gained[k])
  /\ \A c \in Pdas : nft'[c].parent_nft = p <=> nft[c].parent_nft = p

LEMMA PoolIs ==
  ASSUME IInv, NEW p \in Pdas
  PROVE  /\ TotalPool(p) = available[p] + nft[p].total_forwarded
         /\ TotalPool(p)' = available'[p] + nft'[p].total_forwarded
         /\ TotalPool(p) \in Nat
BY NumbersAt DEF TotalPool

\* A step that leaves p and the money of p's children alone.
LEMMA QuietIsFair ==
  ASSUME IInv, NEW p \in Pdas,
         nft'[p] = nft[p], available'[p] = available[p], drawn'[p] = drawn[p],
         \A c \in Kids(p) : gained'[c] = gained[c],
         \A c \in Pdas : nft'[c].parent_nft = p <=> nft[c].parent_nft = p
  PROVE  Fair(p)
<1>1. TotalPool(p)' >= TotalPool(p)
  <2>1. TotalPool(p)' = TotalPool(p) /\ TotalPool(p) \in Nat
    BY PoolIs
  <2> QED
    BY <2>1
<1> QED
  BY <1>1 DEF Fair

LEMMA VacantParent ==
  ASSUME IInv, NEW q \in Pdas, Vacant(q)
  PROVE  nft[q].parent_nft = NoParent
<1>1. nft[q] = NewRecord(<<>>, NoParent)
  BY PointwiseNow DEF Vacant, SoundAt
<1> QED
  BY <1>1, EmptyRecord

LEMMA MintFair ==
  ASSUME IInv, NEW p \in Pdas, phase[p] = "open",
         NEW q \in Pdas, NEW children \in Lists, MintNft(q, children)
  PROVE  Fair(p)
<1>1. /\ q # p
      /\ nft[q].parent_nft = NoParent
      /\ nft' = [nft EXCEPT ![q] = NewRecord(children, NoParent)]
      /\ UNCHANGED <<available, paid, drawn, gained>>
  BY VacantParent DEF MintNft, Vacant
<1>2. nft'[q].parent_nft = NoParent
  BY <1>1 DEF NewRecord, IInv, TypeOK
<1>3. \A c \in Pdas \ {q} : nft'[c] = nft[c]
  BY <1>1 DEF IInv, TypeOK
<1>4. \A c \in Pdas : nft'[c].parent_nft = p <=> nft[c].parent_nft = p
  BY <1>1, <1>2, <1>3
<1> QED
  BY <1>1, <1>3, <1>4, QuietIsFair

\* A split of p itself makes its list longer.
LEMMA SplitFair ==
  ASSUME IInv, NEW p \in Pdas, phase[p] = "open", SameTerms(p),
         NEW q \in Pdas, NEW k \in Pdas, NEW share_bps \in Shares,
         SplitFraction(q, k, share_bps)
  PROVE  Fair(p)
<1> DEFINE child == [child_nft_pda |-> k, share_bps |-> share_bps]
           children == Append(nft[q].children, child)
           s == WithChildren(q, children)
           t == NewRecord(<<>>, q)
<1>1. /\ nft' = [nft EXCEPT ![q] = s, ![k] = t]
      /\ UNCHANGED <<available, paid, drawn, gained>>
      /\ phase[q] = "open" /\ phase[k] = "none"
      /\ nft[k].parent_nft = NoParent
      /\ Fits(q, children)
  BY VacantParent DEF SplitFraction, Readable, Vacant
<1>2. k # q /\ k # p
  BY <1>1
<1>3. nft[q] \in Record /\ child \in FractionChild
  BY PoolNumbersAssumption DEF IInv, TypeOK, FractionChild
<1>4. /\ children \in Seq(FractionChild)
      /\ Len(children) = Len(nft[q].children) + 1
      /\ Len(nft[q].children) \in Nat
  BY <1>3 DEF Record
<1> HIDE DEF child, children
<1>5. /\ s.children = children
      /\ s.parent_nft = nft[q].parent_nft
  BY <1>1, <1>3, <1>4, WithChildrenTyped
<1>6. t.parent_nft = q
  BY DEF NewRecord
<1> HIDE DEF s, t
<1>7. /\ nft'[q] = s
      /\ nft'[k] = t
      /\ \A c \in Pdas \ {q, k} : nft'[c] = nft[c]
  BY <1>1, <1>2 DEF IInv, TypeOK
<1>8. q # p
  <2>1. ASSUME q = p PROVE FALSE
    <3>1. children = nft[q].children
      BY <1>5, <1>7, <2>1 DEF SameTerms
    <3> QED
      BY <1>4, <3>1
  <2> QED
    BY <2>1
<1>9. \A c \in Pdas : nft'[c].parent_nft = p <=> nft[c].parent_nft = p
  BY <1>1, <1>5, <1>6, <1>7, <1>8, PoolParentAssumption
<1> QED
  BY <1>1, <1>2, <1>7, <1>8, <1>9, QuietIsFair

\* A forward of p itself counts as received.
LEMMA ForwardFair ==
  ASSUME IInv, NEW p \in Pdas, SameTerms(p),
         NEW q \in Pdas, ProxyForward(q)
  PROVE  Fair(p)
<1>1. /\ nft' = [nft EXCEPT ![q].total_received = @ + available[q],
                            ![q].total_forwarded = @ + available[q]]
      /\ available' = [available EXCEPT ![q] = 0]
      /\ UNCHANGED <<phase, paid, drawn, gained>>
      /\ available[q] > 0
  BY DEF ProxyForward
<1>2. /\ nft[q] \in Record
      /\ nft[q].total_received \in Nat /\ available[q] \in Nat
  BY NumbersAt DEF IInv, TypeOK
<1>3. /\ nft'[q].total_received = nft[q].total_received + available[q]
      /\ nft'[q].parent_nft = nft[q].parent_nft
      /\ \A c \in Pdas \ {q} : nft'[c] = nft[c] /\ available'[c] = available[c]
  BY <1>1, <1>2 DEF IInv, TypeOK, Record
<1>4. q # p
  <2>1. ASSUME q = p PROVE FALSE
    BY <1>1, <1>2, <1>3, <2>1 DEF SameTerms
  <2> QED
    BY <2>1
<1>5. \A c \in Pdas : nft'[c].parent_nft = p <=> nft[c].parent_nft = p
  BY <1>3
<1> QED
  BY <1>1, <1>3, <1>4, <1>5, QuietIsFair

\* saturating_sub leaves a claim only where it does not saturate.
LEMMA MinusFacts ==
  ASSUME NEW a \in Nat, NEW b \in Nat, Minus(a, b) > 0
  PROVE  b + Minus(a, b) = a
BY DEF Minus

LEMMA ClaimParentFair ==
  ASSUME IInv, NEW p \in Pdas,
         NEW q \in Pdas, ClaimParentShare(q)
  PROVE  Fair(p)
<1> DEFINE n == Claimable(q)
<1>1. /\ nft' = [nft EXCEPT ![q].pending_rewards = @ + n,
                            ![q].total_forwarded = @ + n]
      /\ available' = [available EXCEPT ![q] = @ - n]
      /\ UNCHANGED <<phase, paid, drawn, gained>>
      /\ n \in 1 .. available[q]
  BY DEF ClaimParentShare
<1>2. /\ nft[q] \in Record
      /\ nft[q].pending_rewards \in Nat /\ nft[q].total_forwarded \in Nat
      /\ available[q] \in Nat /\ n \in Nat /\ n > 0
  BY <1>1, NumbersAt DEF IInv, TypeOK
<1>3. nft[q].pending_rewards + n = Entitled(q, OwnBps(q))
  <2>1. Entitled(q, OwnBps(q)) \in Nat
    BY PartsFit
  <2> QED
    BY <1>2, <2>1, MinusFacts DEF Claimable
<1> HIDE DEF n
<1>4. /\ nft'[q].pending_rewards = nft[q].pending_rewards + n
      /\ nft'[q].total_forwarded = nft[q].total_forwarded + n
      /\ nft'[q].parent_nft = nft[q].parent_nft
      /\ available'[q] = available[q] - n
      /\ \A c \in Pdas \ {q} : nft'[c] = nft[c] /\ available'[c] = available[c]
  BY <1>1, <1>2 DEF IInv, TypeOK, Record
<1>5. \A c \in Pdas : nft'[c].parent_nft = p <=> nft[c].parent_nft = p
  BY <1>4
<1>6. CASE q # p
  BY <1>1, <1>4, <1>5, <1>6, QuietIsFair
<1>7. CASE q = p
  <2>1. TotalPool(p)' = TotalPool(p) /\ TotalPool(p) \in Nat
    BY <1>2, <1>4, <1>7, PoolIs
  <2>2. TotalPool(p)' >= TotalPool(p)
    BY <2>1
  <2>3. nft'[p].pending_rewards = Entitled(p, OwnBps(p))
    BY <1>3, <1>4, <1>7
  <2> QED
    BY <1>1, <1>5, <2>2, <2>3 DEF Fair
<1> QED
  BY <1>6, <1>7

LEMMA ClaimFractionFair ==
  ASSUME IInv, NEW p \in Pdas, EvenHanded(p), SameTerms(p),
         NEW k \in Pdas, NEW q \in Pdas, ClaimFractionShare(k, q)
  PROVE  Fair(p)
<1> DEFINE n == ChildClaimable(k, q)
<1>1. /\ nft' = [nft EXCEPT ![q].total_forwarded = @ + n,
                            ![k].total_forwarded = @ + n]
      /\ available' = [available EXCEPT ![q] = @ - n]
      /\ drawn' = [drawn EXCEPT ![q] = @ + n]
      /\ gained' = [gained EXCEPT ![k] = @ + n]
      /\ nft[k].parent_nft = q
      /\ IsChild(k, q)
      /\ n \in 1 .. available[q]
  BY DEF ClaimFractionShare
<1>2. /\ nft[q] \in Record /\ nft[k] \in Record
      /\ nft[q].total_forwarded \in Nat
      /\ available[q] \in Nat /\ drawn[q] \in Nat /\ gained[k] \in Nat
      /\ nft[k].total_forwarded \in Nat
      /\ n \in Nat /\ n > 0
  BY <1>1, NumbersAt DEF IInv, TypeOK
<1>3. k # q
  BY <1>1, PointwiseNow DEF SoundAt
<1>4. k \in Kids(q)
  BY <1>1 DEF Kids
<1>5. nft[k].total_forwarded + n = Entitled(q, BpsOf(k, q))
  <2>1. Entitled(q, BpsOf(k, q)) \in Nat
    BY <1>4, PartsFit
  <2> QED
    BY <1>2, <2>1, MinusFacts DEF ChildClaimable
<1> HIDE DEF n
<1>6. /\ nft'[q].total_forwarded = nft[q].total_forwarded + n
      /\ nft'[q].parent_nft = nft[q].parent_nft
      /\ nft'[q].pending_rewards = nft[q].pending_rewards
      /\ nft'[k].parent_nft = nft[k].parent_nft
      /\ \A c \in Pdas \ {q, k} : nft'[c] = nft[c]
  BY <1>1, <1>2, <1>3 DEF IInv, TypeOK, Record
<1>7. /\ available'[q] = available[q] - n
      /\ drawn'[q] = drawn[q] + n
      /\ gained'[k] = gained[k] + n
      /\ \A c \in Pdas \ {q} : available'[c] = available[c] /\ drawn'[c] = drawn[c]
      /\ \A c \in Pdas \ {k} : gained'[c] = gained[c]
  BY <1>1 DEF IInv, TypeOK
<1>8. \A c \in Pdas : nft'[c].parent_nft = p <=> nft[c].parent_nft = p
  BY <1>6
<1>9. k # p
  <2>1. ASSUME k = p PROVE FALSE
    BY <1>2, <1>7, <2>1 DEF SameTerms
  <2> QED
    BY <2>1
<1>10. CASE q # p
  <2>1. k \notin Kids(p)
    BY <1>1, <1>10 DEF Kids
  <2>2. \A c \in Kids(p) : gained'[c] = gained[c]
    BY <1>7, <2>1 DEF Kids
  <2> QED
    BY <1>6, <1>7, <1>8, <1>9, <1>10, <2>2, QuietIsFair
<1>11. CASE q = p
  <2>1. TotalPool(p)' = TotalPool(p) /\ TotalPool(p) \in Nat
    BY <1>2, <1>6, <1>7, <1>11, PoolIs
  <2>2. TotalPool(p)' >= TotalPool(p)
    BY <2>1
  <2>3. k \in Kids(p) /\ nft[k].total_forwarded = gained[k]
    BY <1>4, <1>11 DEF EvenHanded
  <2>4. gained'[k] = Entitled(p, BpsOf(k, p))
    BY <1>5, <1>7, <1>11, <2>3
  <2>5. \A c \in Kids(p) \ {k} : gained'[c] = gained[c]
    BY <1>7 DEF Kids
  <2>6. drawn'[p] = drawn[p] + (gained'[k] - gained[k])
    BY <1>2, <1>7, <1>11
  <2>7. nft'[p].pending_rewards = nft[p].pending_rewards
    BY <1>6, <1>11
  <2> QED
    BY <1>8, <2>2, <2>3, <2>4, <2>5, <2>6, <2>7 DEF Fair
<1> QED
  BY <1>10, <1>11

LEMMA UpdateFair ==
  ASSUME IInv, NEW p \in Pdas,
         NEW q \in Pdas, NEW children \in Lists, UpdateFractions(q, children)
  PROVE  Fair(p)
<1> DEFINE s == WithChildren(q, children)
<1>1. /\ nft' = [nft EXCEPT ![q] = s]
      /\ UNCHANGED <<phase, available, paid, drawn, gained>>
      /\ Fits(q, children)
  BY DEF UpdateFractions
<1>2. nft[q] \in Record /\ children \in Seq(FractionChild)
  BY PoolListsAssumption DEF IInv, TypeOK
<1>3. /\ s.total_forwarded = nft[q].total_forwarded
      /\ s.pending_rewards = nft[q].pending_rewards
      /\ s.parent_nft = nft[q].parent_nft
  BY <1>1, <1>2, WithChildrenTyped
<1> HIDE DEF s
<1>4. nft'[q] = s /\ \A c \in Pdas \ {q} : nft'[c] = nft[c]
  BY <1>1 DEF IInv, TypeOK
<1>5. \A c \in Pdas : nft'[c].parent_nft = p <=> nft[c].parent_nft = p
  BY <1>3, <1>4
<1>6. /\ nft'[p].total_forwarded = nft[p].total_forwarded
      /\ nft'[p].pending_rewards = nft[p].pending_rewards
  BY <1>3, <1>4
<1>7. TotalPool(p)' >= TotalPool(p)
  <2>1. TotalPool(p)' = TotalPool(p) /\ TotalPool(p) \in Nat
    BY <1>1, <1>6, PoolIs
  <2> QED
    BY <2>1
<1> QED
  BY <1>1, <1>5, <1>6, <1>7 DEF Fair

LEMMA DepositFair ==
  ASSUME IInv, NEW p \in Pdas,
         NEW q \in Pdas, NEW n \in Amounts, Deposit(q, n)
  PROVE  Fair(p)
<1>1. /\ available' = [available EXCEPT ![q] = @ + n]
      /\ UNCHANGED <<phase, nft, drawn, gained>>
      /\ n \in Nat
  BY PoolNumbersAssumption DEF Deposit
<1>2. /\ available[p] \in Nat /\ nft[p].total_forwarded \in Nat
      /\ available'[p] \in {available[p], available[p] + n}
  BY <1>1, NumbersAt DEF IInv, TypeOK
<1>3. TotalPool(p)' >= TotalPool(p)
  <2>1. /\ TotalPool(p) = available[p] + nft[p].total_forwarded
        /\ TotalPool(p)' = available'[p] + nft[p].total_forwarded
    BY <1>1, PoolIs
  <2> QED
    BY <1>1, <1>2, <2>1
<1> QED
  BY <1>1, <1>3 DEF Fair

LEMMA StepFair ==
  ASSUME IInv, NEW p \in Pdas, EvenHanded(p), SameTerms(p), [Next]_vars
  PROVE  Fair(p)
<1>1. phase[p] = "open"
  BY DEF EvenHanded
<1>2. ASSUME NEW q \in Pdas, BurnNft(q)
      PROVE  Fair(p)
  BY <1>2, QuietIsFair DEF BurnNft
<1>3. CASE UNCHANGED vars
  BY <1>3, QuietIsFair DEF vars
<1> QED
  BY <1>1, <1>2, <1>3, MintFair, SplitFair, ForwardFair, ClaimParentFair,
     ClaimFractionFair, UpdateFair, DepositFair DEF Next

\* What was ever there only grows, so nobody's part of it shrinks.
LEMMA PartGrows ==
  ASSUME NEW t \in Nat, NEW u \in Nat, u >= t, NEW b \in Nat
  PROVE  (t * b) \div 10000 <= (u * b) \div 10000
<1>1. t * b \in Nat /\ u * b \in Nat /\ t * b <= u * b
  OBVIOUS
<1>2. \A x, y \in Nat : x <= y => x \div 10000 <= y \div 10000
  OBVIOUS
<1> QED
  BY <1>1, <1>2

\* The list is the same, and so are the shares and the children.
LEMMA SameShares ==
  ASSUME IInv, NEW p \in Pdas, SameTerms(p), Fair(p)
  PROVE  /\ OwnBps(p)' = OwnBps(p)
         /\ Kids(p)' = Kids(p)
         /\ \A c \in Pdas : BpsOf(c, p)' = BpsOf(c, p)
<1>1. nft'[p].children = nft[p].children
  BY DEF SameTerms
<1>2. OwnBps(p)' = OwnBps(p)
  BY <1>1 DEF OwnBps
<1>3. ASSUME NEW c \in Pdas
      PROVE  BpsOf(c, p)' = BpsOf(c, p) /\ (IsChild(c, p)' <=> IsChild(c, p))
  <2>1. IsChild(c, p)' <=> IsChild(c, p)
    BY <1>1 DEF IsChild
  <2>2. BpsOf(c, p)' = BpsOf(c, p)
    BY <1>1 DEF BpsOf, SelectInSeq
  <2> QED
    BY <2>1, <2>2
<1>4. Kids(p)' = Kids(p)
  BY <1>3 DEF Kids, Fair
<1> QED
  BY <1>2, <1>3, <1>4

\* Nobody's part shrinks.
LEMMA PartsGrow ==
  ASSUME IInv, IInv', NEW p \in Pdas, SameTerms(p), Fair(p)
  PROVE  /\ Entitled(p, OwnBps(p)) \in Nat
         /\ Entitled(p, OwnBps(p))' \in Nat
         /\ Entitled(p, OwnBps(p)) <= Entitled(p, OwnBps(p))'
         /\ \A c \in Kids(p) :
              /\ Entitled(p, BpsOf(c, p)) \in Nat
              /\ Entitled(p, BpsOf(c, p))' \in Nat
              /\ Entitled(p, BpsOf(c, p)) <= Entitled(p, BpsOf(c, p))'
<1> DEFINE t == TotalPool(p)
           u == TotalPool(p)'
<1>1. t \in Nat /\ u \in Nat /\ u >= t
  <2>1. t \in Nat /\ u >= t
    BY PoolIs DEF Fair
  <2>2. u = available'[p] + nft'[p].total_forwarded
    BY PoolIs
  <2>3. available'[p] \in Nat /\ nft'[p].total_forwarded \in Nat
    BY DEF IInv, TypeOK, Record
  <2> QED
    BY <2>1, <2>2, <2>3
<1>2. OwnBps(p) \in Nat /\ \A c \in Kids(p) : BpsOf(c, p) \in Nat
  BY SharesFit DEF OwnBps
<1>3. \A b : Entitled(p, b) = (t * b) \div 10000
  BY DEF Entitled
<1>4. Entitled(p, OwnBps(p))' = (u * OwnBps(p)) \div 10000
  BY SameShares DEF Entitled
<1>5. \A c \in Kids(p) : Entitled(p, BpsOf(c, p))' = (u * BpsOf(c, p)) \div 10000
  BY SameShares DEF Entitled, Kids
<1>6. /\ Entitled(p, OwnBps(p)) \in Nat
      /\ \A c \in Kids(p) : Entitled(p, BpsOf(c, p)) \in Nat
  BY PartsFit
<1> HIDE DEF t, u
<1>7. /\ Entitled(p, OwnBps(p))' \in Nat
      /\ Entitled(p, OwnBps(p)) <= Entitled(p, OwnBps(p))'
  BY <1>1, <1>2, <1>3, <1>4, PartFacts, PartGrows
<1>8. \A c \in Kids(p) : /\ Entitled(p, BpsOf(c, p))' \in Nat
                          /\ Entitled(p, BpsOf(c, p)) <= Entitled(p, BpsOf(c, p))'
  BY <1>1, <1>2, <1>3, <1>5, PartFacts, PartGrows
<1> QED
  BY <1>6, <1>7, <1>8

LEMMA EvenStep ==
  ASSUME IInv, IInv', [Next]_vars, NEW p \in Pdas, EvenHanded(p), SameTerms(p)
  PROVE  EvenBooks(p)'
<1> DEFINE K == Kids(p)
           own == Entitled(p, OwnBps(p))
<1>1. Fair(p)
  BY StepFair
<1>2. /\ Kids(p)' = K
      /\ own \in Nat
      /\ own <= Entitled(p, OwnBps(p))'
      /\ \A c \in K : /\ Entitled(p, BpsOf(c, p)) \in Nat
                      /\ Entitled(p, BpsOf(c, p))' \in Nat
                      /\ Entitled(p, BpsOf(c, p)) <= Entitled(p, BpsOf(c, p))'
      /\ Entitled(p, OwnBps(p))' \in Nat
  BY <1>1, SameShares, PartsGrow
<1>3. (nft[p].total_received = 0 /\ gained[p] = 0)'
  BY DEF EvenHanded, SameTerms
<1>4. nft'[p].pending_rewards <= Entitled(p, OwnBps(p))'
  <2>1. nft[p].pending_rewards \in Nat /\ nft[p].pending_rewards <= own
    BY NumbersAt DEF EvenHanded
  <2>2. nft'[p].pending_rewards \in {nft[p].pending_rewards, own}
    BY <1>1 DEF Fair
  <2> QED
    BY <1>2, <2>1, <2>2
<1>5. \A c \in K : gained[c] \in Nat /\ gained'[c] \in Nat
  BY DEF Kids, IInv, TypeOK
<1>6. ASSUME NEW c \in K
      PROVE  nft'[c].total_forwarded = gained'[c]
  <2>1. nft[c].total_forwarded = gained[c]
    BY DEF EvenHanded
  <2>2. nft'[c].total_forwarded - nft[c].total_forwarded = gained'[c] - gained[c]
    BY DEF SameTerms
  <2>3. nft'[c].total_forwarded \in Nat
    BY DEF Kids, IInv, TypeOK, Record
  <2> QED
    BY <1>5, <2>1, <2>2, <2>3
<1>7. ASSUME NEW c \in K
      PROVE  gained'[c] <= Entitled(p, BpsOf(c, p))'
  <2>1. gained[c] <= Entitled(p, BpsOf(c, p))
    BY DEF EvenHanded
  <2>2. gained'[c] = gained[c] \/ gained'[c] = Entitled(p, BpsOf(c, p))
    BY <1>1 DEF Fair
  <2> QED
    BY <1>2, <1>5, <2>1, <2>2
<1>8. drawn'[p] = SumFunctionOnSet(gained', K)
  <2>1. drawn[p] = SumFunctionOnSet(gained, K)
    BY DEF EvenHanded
  <2>2. IsFiniteSet(K)
    BY SharesFit
  <2>3. CASE /\ drawn'[p] = drawn[p]
             /\ \A c \in K : gained'[c] = gained[c]
    BY <2>1, <2>2, <2>3, SumSame
  <2>4. ASSUME NEW k \in K,
               \A c \in K \ {k} : gained'[c] = gained[c],
               drawn'[p] = drawn[p] + (gained'[k] - gained[k])
        PROVE  drawn'[p] = SumFunctionOnSet(gained', K)
    BY <1>5, <2>1, <2>2, <2>4, SumChange
  <2> QED
    BY <1>1, <2>3, <2>4 DEF Fair
<1> QED
  BY <1>2, <1>3, <1>4, <1>6, <1>7, <1>8 DEF EvenBooks

\* The step SharesHonoured is about.
Honours == \A p \in Pdas : EvenHanded(p) /\ SameTerms(p) => NobodyShort(p)'

\* No pool with even books leaves anybody short.
Enough == \A p \in Pdas : EvenBooks(p) => NobodyShort(p)

LEMMA StepHonours ==
  ASSUME IInv, IInv', Enough', [Next]_vars
  PROVE  Honours
<1> SUFFICES ASSUME NEW p \in Pdas, EvenHanded(p), SameTerms(p)
             PROVE  NobodyShort(p)'
  BY DEF Honours
<1>1. EvenBooks(p)'
  BY EvenStep
<1> QED
  BY <1>1 DEF Enough

\* As long as a pool only paid claims and nobody was paid more than the list
\* gives them, a claim, a payment or any step about other pools leaves there
\* what its owner and all its children may still claim.
THEOREM PoolSharesHonoured == Spec => SharesHonoured
<1>1. IInv => Enough
  BY EnoughForAll DEF Enough
<1>2. IInv /\ IInv' /\ Enough' /\ [Next]_vars => [Honours]_vars
  BY StepHonours
<1>3. Spec => [][Honours]_vars
  BY <1>1, <1>2, PoolInvariant, PTL DEF Spec
<1> QED
  BY <1>3 DEF SharesHonoured, Honours
=============================================================================
