----------------------- MODULE InstructionWireProofs ------------------------
(***************************************************************************)
(* Theorems about InstructionWire, for every request the serializer can    *)
(* write: what the two scripts ask for is read back as it was, whatever    *)
(* the texts, numbers, keys and lists; and which requests run another      *)
(* handler than they name.                                                 *)
(***************************************************************************)
EXTENDS InstructionWire, SequenceTheorems, WellFoundedInduction, TLAPS

-----------------------------------------------------------------------------
(* Induction, with a set where one usually has a predicate.                *)

LEMMA Induction ==
  ASSUME NEW G, 0 \in G, \A n \in Nat : n \in G => n + 1 \in G
  PROVE  \A n \in Nat : n \in G
<1> DEFINE Less == OpToRel(<, Nat)
           Bad == {n \in Nat : n \notin G}
<1>1. SUFFICES ASSUME Bad # {} PROVE FALSE
  OBVIOUS
<1>2. /\ IsWellFoundedOn(Less, Nat)
      /\ \A x, y \in Nat : y < x => <<y, x>> \in Less
  BY NatLessThanWellFounded DEF OpToRel
<1>3. Bad \subseteq Nat /\ \A n \in Nat : n \in Bad <=> n \notin G
  OBVIOUS
<1> HIDE DEF Less, Bad
<1>4. PICK n \in Bad : \A m \in Bad : ~ (<<m, n>> \in Less)
  BY <1>1, <1>2, <1>3, WFMin
<1>5. n \in Nat /\ n # 0
  BY <1>3, <1>4
<1>6. n - 1 \in Nat /\ n - 1 < n /\ (n - 1) + 1 = n
  BY <1>5
<1>7. n - 1 \notin Bad
  BY <1>2, <1>4, <1>5, <1>6
<1> QED
  BY <1>3, <1>4, <1>6, <1>7

-----------------------------------------------------------------------------
(* Numbers and their bytes.                                                *)

IsShifts(n, w, rest) ==
  rest = [i \in 0 .. w |-> IF i = 0 THEN n ELSE rest[i - 1] \div 256]

LEMMA ShiftsExist ==
  ASSUME NEW n, NEW w \in Nat
  PROVE  \E rest : IsShifts(n, w, rest)
<1> DEFINE G == {v \in Nat : \E rest : IsShifts(n, v, rest)}
<1>1. 0 \in G
  <2>1. IsShifts(n, 0, [i \in 0 .. 0 |-> n])
    BY DEF IsShifts
  <2> QED
    BY <2>1
<1>2. ASSUME NEW v \in Nat, v \in G
      PROVE  v + 1 \in G
  <2>1. PICK rest : IsShifts(n, v, rest)
    BY <1>2
  <2> DEFINE more == [i \in 0 .. v + 1 |-> IF i = v + 1 THEN rest[v] \div 256 ELSE rest[i]]
  <2>2. ASSUME NEW i \in 0 .. v + 1
        PROVE  more[i] = IF i = 0 THEN n ELSE more[i - 1] \div 256
    BY <2>1 DEF IsShifts
  <2>3. IsShifts(n, v + 1, more)
    BY <2>2 DEF IsShifts
  <2> HIDE DEF more
  <2> QED
    BY <2>3
<1> HIDE DEF G
<1>3. w \in G
  BY <1>1, <1>2, Induction
<1> QED
  BY <1>3 DEF G

LEMMA ShiftsFacts ==
  ASSUME NEW n \in Nat, NEW w \in Nat
  PROVE  /\ Shifts(n, w)[0] = n
         /\ \A i \in 1 .. w : Shifts(n, w)[i] = Shifts(n, w)[i - 1] \div 256
         /\ \A i \in 0 .. w : Shifts(n, w)[i] \in Nat
<1> DEFINE rest == Shifts(n, w)
           G == {i \in Nat : i <= w => rest[i] \in Nat}
<1>1. rest = CHOOSE f : IsShifts(n, w, f)
  BY DEF Shifts, IsShifts
<1>2. IsShifts(n, w, rest)
  BY <1>1, ShiftsExist
<1> HIDE DEF rest
<1>3. rest[0] = n /\ \A i \in 1 .. w : rest[i] = rest[i - 1] \div 256
  BY <1>2 DEF IsShifts
<1>4. 0 \in G
  BY <1>3
<1>5. ASSUME NEW i \in Nat, i \in G
      PROVE  i + 1 \in G
  BY <1>3, <1>5
<1> HIDE DEF G
<1>6. \A i \in Nat : i \in G
  BY <1>4, <1>5, Induction
<1>7. \A i \in 0 .. w : rest[i] \in Nat
  BY <1>6 DEF G
<1> QED
  BY <1>3, <1>7 DEF rest

LEMMA LittleEndianFacts ==
  ASSUME NEW n \in Nat, NEW w \in Nat
  PROVE  /\ LittleEndian(n, w) \in Seq(Byte)
         /\ Len(LittleEndian(n, w)) = w
         /\ \A i \in 1 .. w : LittleEndian(n, w)[i] = Shifts(n, w)[i - 1] % 256
<1> DEFINE rest == Shifts(n, w)
<1>1. LittleEndian(n, w) = [i \in 1 .. w |-> rest[i - 1] % 256]
  BY DEF LittleEndian
<1>2. \A i \in 0 .. w : rest[i] \in Nat
  BY ShiftsFacts
<1> HIDE DEF rest
<1>3. \A i \in 1 .. w : rest[i - 1] % 256 \in Byte
  <2> SUFFICES ASSUME NEW i \in 1 .. w PROVE rest[i - 1] % 256 \in Byte
    OBVIOUS
  <2>1. rest[i - 1] \in Nat
    BY <1>2
  <2> QED
    BY <2>1 DEF Byte
<1>4. [i \in 1 .. w |-> rest[i - 1] % 256] \in Seq(Byte)
  BY <1>3
<1> QED
  BY <1>1, <1>4 DEF rest

\* A number of a fixed width is a text of that many bytes.
LEMMA WidthFacts ==
  ASSUME NEW n \in Nat, NEW w \in Nat
  PROVE  LittleEndian(n, w) \in Seq(Byte) /\ Len(LittleEndian(n, w)) = w
BY LittleEndianFacts

LEMMA LengthFacts ==
  ASSUME NEW n \in Nat
  PROVE  LittleEndian(n, 4) \in Seq(Byte) /\ Len(LittleEndian(n, 4)) = 4
BY WidthFacts

\* A number of bytes from the top down.
IsUpper(bytes, w, v, upper) ==
  upper = [i \in 0 .. v |->
             IF i = 0 THEN 0 ELSE upper[i - 1] * 256 + bytes[w + 1 - i]]

LEMMA UpperExists ==
  ASSUME NEW bytes, NEW w \in Nat, NEW k \in Nat
  PROVE  \E upper : IsUpper(bytes, w, k, upper)
<1> DEFINE G == {v \in Nat : \E upper : IsUpper(bytes, w, v, upper)}
<1>1. 0 \in G
  <2>1. IsUpper(bytes, w, 0, [i \in 0 .. 0 |-> 0])
    BY DEF IsUpper
  <2> QED
    BY <2>1
<1>2. ASSUME NEW v \in Nat, v \in G
      PROVE  v + 1 \in G
  <2>1. PICK upper : IsUpper(bytes, w, v, upper)
    BY <1>2
  <2> DEFINE more == [i \in 0 .. v + 1 |->
                        IF i = v + 1 THEN upper[v] * 256 + bytes[w - v] ELSE upper[i]]
  <2>2. ASSUME NEW i \in 0 .. v + 1
        PROVE  more[i] = IF i = 0 THEN 0 ELSE more[i - 1] * 256 + bytes[w + 1 - i]
    BY <2>1 DEF IsUpper
  <2>3. IsUpper(bytes, w, v + 1, more)
    BY <2>2 DEF IsUpper
  <2> HIDE DEF more
  <2> QED
    BY <2>3
<1> HIDE DEF G
<1>3. k \in G
  BY <1>1, <1>2, Induction
<1> QED
  BY <1>3 DEF G

\* Writing a number and reading it are inverse as long as it fits.
LEMMA NumberOfBytes ==
  ASSUME NEW n, NEW w \in Nat, FitsIn(n, w)
  PROVE  Number(LittleEndian(n, w)) = n
<1> DEFINE bytes == LittleEndian(n, w)
           rest == Shifts(n, w)
           upper == CHOOSE f : IsUpper(bytes, w, w, f)
           G == {i \in Nat : i <= w => upper[i] = rest[w - i]}
<1>1. n \in Nat /\ rest[w] = 0
  BY DEF FitsIn
<1>2. Len(bytes) = w /\ \A i \in 1 .. w : bytes[i] = rest[i - 1] % 256
  BY <1>1, LittleEndianFacts
<1>3. /\ rest[0] = n
      /\ \A i \in 1 .. w : rest[i] = rest[i - 1] \div 256
      /\ \A i \in 0 .. w : rest[i] \in Nat
  BY <1>1, ShiftsFacts
<1> HIDE DEF bytes, rest
<1>4. Number(bytes) = upper[w]
  BY <1>2 DEF Number, IsUpper
<1>5. IsUpper(bytes, w, w, upper)
  <2>1. \E f : IsUpper(bytes, w, w, f)
    BY UpperExists
  <2> QED
    BY <2>1
<1> HIDE DEF upper
<1>6. upper[0] = 0 /\ \A i \in 1 .. w : upper[i] = upper[i - 1] * 256 + bytes[w + 1 - i]
  BY <1>5 DEF IsUpper
<1>7. 0 \in G
  BY <1>1, <1>6
<1>8. ASSUME NEW i \in Nat, i \in G
      PROVE  i + 1 \in G
  <2> SUFFICES ASSUME i + 1 <= w PROVE upper[i + 1] = rest[w - (i + 1)]
    OBVIOUS
  <2> DEFINE j == w - i
             k == w - (i + 1)
  <2>1. j \in 1 .. w /\ k = j - 1 /\ k \in 0 .. w /\ i + 1 \in 1 .. w
    OBVIOUS
  <2>2. upper[i] = rest[j]
    BY <1>8
  <2>3. upper[i + 1] = upper[i] * 256 + bytes[j]
    <3>1. upper[i + 1] = upper[(i + 1) - 1] * 256 + bytes[w + 1 - (i + 1)]
      BY <1>6, <2>1
    <3> QED
      BY <3>1
  <2> HIDE DEF j, k
  <2>4. rest[j] = rest[k] \div 256 /\ bytes[j] = rest[k] % 256 /\ rest[k] \in Nat
    BY <1>2, <1>3, <2>1
  <2> QED
    BY <2>2, <2>3, <2>4 DEF k
<1>9. w \in G
  <2> HIDE DEF G
  <2> QED
    BY <1>7, <1>8, Induction
<1> QED
  BY <1>3, <1>4, <1>9 DEF bytes

-----------------------------------------------------------------------------
(* Reading what stands at the front.                                       *)

\* What a read returns that can go one way only.
Only(v, rest) == {<<v, rest>>}

\* s and then t.
Joined(s, t) == s \o t

LEMMA JoinedFacts ==
  ASSUME NEW S, NEW s \in Seq(S), NEW t \in Seq(S), NEW u \in Seq(S)
  PROVE  /\ Joined(s, t) \in Seq(S)
         /\ Joined(<<>>, s) = s /\ Joined(s, <<>>) = s
         /\ Joined(Joined(s, t), u) = Joined(s, Joined(t, u))
BY ConcatProperties, ConcatEmptySeq, ConcatAssociative DEF Joined

LEMMA JoinedParts ==
  ASSUME NEW s \in Seq(Byte), NEW t \in Seq(Byte)
  PROVE  /\ Len(Joined(s, t)) = Len(s) + Len(t)
         /\ \A k \in 1 .. Len(s) : Joined(s, t)[k] = s[k]
         /\ \A k \in 1 .. Len(t) : Joined(s, t)[Len(s) + k] = t[k]
<1>1. Len(s) \in Nat /\ Len(t) \in Nat
  BY LenProperties
<1>2. /\ Len(s \o t) = Len(s) + Len(t)
      /\ \A i \in 1 .. Len(s) + Len(t) :
           (s \o t)[i] = IF i <= Len(s) THEN s[i] ELSE t[i - Len(s)]
  BY ConcatProperties
<1> DEFINE m == Len(s)
           n == Len(t)
           all == s \o t
<1> HIDE DEF m, n, all
<1>3. /\ m \in Nat /\ n \in Nat /\ Len(all) = m + n
      /\ \A i \in 1 .. m + n : all[i] = IF i <= m THEN s[i] ELSE t[i - m]
  BY <1>1, <1>2 DEF m, n, all
<1>4. \A k \in 1 .. m : all[k] = s[k]
  BY <1>3
<1>5. ASSUME NEW k \in 1 .. n
      PROVE  all[m + k] = t[k]
  <2>1. m + k \in 1 .. m + n /\ ~ (m + k <= m) /\ (m + k) - m = k
    BY <1>3
  <2> QED
    BY <1>3, <2>1
<1> QED
  BY <1>3, <1>4, <1>5 DEF m, n, all, Joined

LEMMA FixedSeq ==
  ASSUME NEW w \in Nat, NEW a \in [1 .. w -> Byte]
  PROVE  a \in Seq(Byte) /\ Len(a) = w
OBVIOUS

StandsAt(s, p, a) == \A k \in 1 .. Len(a) : s[p + k - 1] = a[k]

LEMMA SubSeqIs ==
  ASSUME NEW s, NEW p \in Int, NEW q \in Int, NEW a \in Seq(Byte),
         Len(a) = q - p + 1, StandsAt(s, p, a)
  PROVE  SubSeq(s, p, q) = a
<1>1. ASSUME NEW j \in p .. q
      PROVE  s[j] \in Byte
  <2> DEFINE k == j - p + 1
  <2>1. k \in 1 .. Len(a) /\ p + k - 1 = j
    OBVIOUS
  <2> HIDE DEF k
  <2>2. a[k] \in Byte
    BY <2>1, ElementOfSeq
  <2>3. s[p + k - 1] = a[k]
    BY <2>1 DEF StandsAt
  <2> QED
    BY <2>1, <2>2, <2>3
<1>2. Len(a) \in Nat
  BY LenProperties
<1> DEFINE b == SubSeq(s, p, q)
<1>3. /\ b \in Seq(Byte) /\ Len(b) = IF p <= q THEN q - p + 1 ELSE 0
      /\ \A k \in 1 .. q - p + 1 : b[k] = s[p + k - 1]
  BY <1>1, SubSeqProperties
<1> HIDE DEF b
<1>4. Len(b) = Len(a)
  BY <1>2, <1>3
<1>5. \A k \in 1 .. Len(b) : b[k] = a[k]
  BY <1>3, <1>4 DEF StandsAt
<1>6. b = a
  BY <1>3, <1>4, <1>5, SeqEqual
<1> QED
  BY <1>6 DEF b

LEMMA BytesBack ==
  ASSUME NEW a \in Seq(Byte), NEW t \in Seq(Byte)
  PROVE  Bytes(Len(a), Joined(a, t)) = Only(a, t)
<1> DEFINE n == Len(a)
           s == a \o t
<1>1. /\ n \in Nat /\ Len(t) \in Nat /\ s \in Seq(Byte)
      /\ Len(s) = n + Len(t)
      /\ \A i \in 1 .. n + Len(t) : s[i] = IF i <= n THEN a[i] ELSE t[i - n]
  BY ConcatProperties, LenProperties
<1> HIDE DEF n, s
<1>2. SubSeq(s, 1, n) = a
  <2>1. \A i \in 1 .. n : s[i] \in Byte
    BY <1>1, ElementOfSeq
  <2>2. /\ SubSeq(s, 1, n) \in Seq(Byte)
        /\ Len(SubSeq(s, 1, n)) = n
        /\ \A i \in 1 .. n : SubSeq(s, 1, n)[i] = s[i]
    BY <1>1, <2>1, SubSeqProperties
  <2> QED
    BY <1>1, <2>2, SeqEqual DEF n
<1>3. SubSeq(s, n + 1, Len(s)) = t
  <2>1. \A i \in n + 1 .. Len(s) : s[i] \in Byte
    BY <1>1, ElementOfSeq
  <2>2. /\ SubSeq(s, n + 1, Len(s)) \in Seq(Byte)
        /\ Len(SubSeq(s, n + 1, Len(s))) = Len(t)
        /\ \A i \in 1 .. Len(t) : SubSeq(s, n + 1, Len(s))[i] = s[n + i]
    BY <1>1, <2>1, SubSeqProperties
  <2>3. \A i \in 1 .. Len(t) : s[n + i] = t[i]
    BY <1>1
  <2> QED
    BY <2>2, <2>3, SeqEqual
<1>4. ~ (Len(s) < n)
  BY <1>1
<1>5. Bytes(n, s) = Only(a, t)
  BY <1>2, <1>3, <1>4 DEF Bytes, Only
<1> QED
  BY <1>5 DEF n, s, Joined

LEMMA NumberRead ==
  ASSUME NEW w, NEW bytes, NEW a, NEW t, Bytes(w, bytes) = Only(a, t)
  PROVE  ReadNumber(w, bytes) = Only(Number(a), t)
BY DEF ReadNumber, Only

LEMMA NumberBack ==
  ASSUME NEW n, NEW w \in Nat, FitsIn(n, w), NEW t \in Seq(Byte)
  PROVE  ReadNumber(w, Joined(LittleEndian(n, w), t)) = Only(n, t)
<1>1. LittleEndian(n, w) \in Seq(Byte) /\ Len(LittleEndian(n, w)) = w
  BY LittleEndianFacts DEF FitsIn
<1>2. Bytes(w, Joined(LittleEndian(n, w), t)) = Only(LittleEndian(n, w), t)
  BY <1>1, BytesBack
<1>3. Number(LittleEndian(n, w)) = n
  BY NumberOfBytes
<1> QED
  BY <1>2, <1>3, NumberRead

\* A single byte.
LEMMA ByteBack ==
  ASSUME NEW b \in Byte, NEW t \in Seq(Byte)
  PROVE  /\ <<b>> \in Seq(Byte)
         /\ ReadNumber(1, Joined(<<b>>, t)) = Only(b, t)
<1>1. <<b>> \in Seq(Byte) /\ Len(<<b>>) = 1 /\ <<b>>[1] = b
  OBVIOUS
<1>2. Bytes(1, Joined(<<b>>, t)) = Only(<<b>>, t)
  BY <1>1, BytesBack
<1>3. Number(<<b>>) = b
  <2> DEFINE upper == CHOOSE f : IsUpper(<<b>>, 1, 1, f)
  <2>1. Number(<<b>>) = upper[1]
    BY <1>1 DEF Number, IsUpper
  <2>2. IsUpper(<<b>>, 1, 1, upper)
    <3>1. \E f : IsUpper(<<b>>, 1, 1, f)
      BY UpperExists
    <3> QED
      BY <3>1
  <2> HIDE DEF upper
  <2>3. upper[0] = 0 /\ upper[1] = upper[0] * 256 + b
    BY <1>1, <2>2 DEF IsUpper
  <2>4. b \in Int
    BY DEF Byte
  <2>5. upper[1] = b
    BY <2>3, <2>4
  <2> QED
    BY <2>1, <2>5
<1>4. ReadNumber(1, Joined(<<b>>, t)) = Only(Number(<<b>>), t)
  BY <1>2, NumberRead
<1> QED
  BY <1>1, <1>3, <1>4

-----------------------------------------------------------------------------
(* A sequence of sequences, written one after the other.                   *)

IsFlat(seqs, n, flat) ==
  flat = [i \in 1 .. n |-> IF i = 1 THEN seqs[i] ELSE flat[i - 1] \o seqs[i]]

LEMMA FlatExists ==
  ASSUME NEW seqs, NEW n \in Nat
  PROVE  \E flat : IsFlat(seqs, n, flat)
<1> DEFINE G == {v \in Nat : \E flat : IsFlat(seqs, v, flat)}
<1>1. 0 \in G
  <2>1. IsFlat(seqs, 0, <<>>)
    BY DEF IsFlat
  <2> QED
    BY <2>1
<1>2. ASSUME NEW v \in Nat, v \in G
      PROVE  v + 1 \in G
  <2>1. PICK flat : IsFlat(seqs, v, flat)
    BY <1>2
  <2> DEFINE last == IF v = 0 THEN seqs[1] ELSE flat[v] \o seqs[v + 1]
  <2> HIDE DEF last
  <2> DEFINE more == [i \in 1 .. v + 1 |-> IF i = v + 1 THEN last ELSE flat[i]]
  <2>2. ASSUME NEW i \in 1 .. v + 1
        PROVE  more[i] = IF i = 1 THEN seqs[i] ELSE more[i - 1] \o seqs[i]
    <3>1. CASE i = v + 1
      <4>1. v # 0 => more[v] = flat[v]
        OBVIOUS
      <4> QED
        BY <3>1, <4>1 DEF last
    <3>2. CASE i \in 1 .. v
      <4>1. more[i] = flat[i] /\ (i # 1 => more[i - 1] = flat[i - 1])
        BY <3>2
      <4>2. flat[i] = IF i = 1 THEN seqs[i] ELSE flat[i - 1] \o seqs[i]
        BY <2>1, <3>2 DEF IsFlat
      <4> HIDE DEF more
      <4> QED
        BY <4>1, <4>2
    <3> QED
      BY <3>1, <3>2
  <2>3. DOMAIN more = 1 .. v + 1 /\ more = [i \in 1 .. v + 1 |-> more[i]]
    OBVIOUS
  <2> HIDE DEF more
  <2>4. IsFlat(seqs, v + 1, more)
    BY <2>2, <2>3 DEF IsFlat
  <2> QED
    BY <2>4
<1> HIDE DEF G
<1>3. n \in G
  BY <1>1, <1>2, Induction
<1> QED
  BY <1>3 DEF G

\* What has been written behind each of them.
IsWritten(S, seqs, n, flat) ==
  /\ flat \in [0 .. n -> Seq(S)]
  /\ flat[0] = <<>> /\ flat[n] = FlattenSeq(seqs)
  /\ \A i \in 1 .. n : flat[i] = Joined(flat[i - 1], seqs[i])

LEMMA FlatFacts ==
  ASSUME NEW S, NEW n \in Nat, NEW seqs \in [1 .. n -> Seq(S)]
  PROVE  \E flat : IsWritten(S, seqs, n, flat)
<1>1. Len(seqs) = n
  OBVIOUS
<1>2. CASE n = 0
  <2>1. seqs = <<>>
    BY <1>2
  <2>2. FlattenSeq(seqs) = <<>>
    BY <1>1, <1>2, <2>1 DEF FlattenSeq
  <2> DEFINE flat == [i \in 0 .. 0 |-> <<>>]
  <2>3. flat \in [0 .. 0 -> Seq(S)] /\ flat[0] = <<>>
    BY EmptySeq
  <2> HIDE DEF flat
  <2>4. IsWritten(S, seqs, n, flat)
    BY <1>2, <2>2, <2>3 DEF IsWritten
  <2> QED
    BY <2>4
<1>3. CASE n # 0
  <2> DEFINE one == CHOOSE f : IsFlat(seqs, n, f)
             flat == [i \in 0 .. n |-> IF i = 0 THEN <<>> ELSE one[i]]
             G == {i \in Nat : i <= n => flat[i] \in Seq(S)}
  <2>1. FlattenSeq(seqs) = one[n]
    BY <1>1, <1>3 DEF FlattenSeq, IsFlat
  <2>2. IsFlat(seqs, n, one)
    <3>1. \E f : IsFlat(seqs, n, f)
      BY FlatExists
    <3> QED
      BY <3>1
  <2> HIDE DEF one
  <2>3. \A i \in 1 .. n : one[i] = IF i = 1 THEN seqs[i] ELSE one[i - 1] \o seqs[i]
    BY <2>2 DEF IsFlat
  <2>4. flat[0] = <<>> /\ \A i \in 1 .. n : flat[i] = one[i]
    OBVIOUS
  <2>5. flat = [i \in 0 .. n |-> flat[i]]
    OBVIOUS
  <2> HIDE DEF flat
  <2>6. ASSUME NEW i \in 1 .. n
        PROVE  flat[i] = Joined(flat[i - 1], seqs[i])
    <3>1. CASE i = 1
      <4>1. seqs[1] \in Seq(S)
        BY <3>1
      <4>2. Joined(<<>>, seqs[1]) = seqs[1]
        BY <4>1, JoinedFacts
      <4> QED
        BY <2>3, <2>4, <3>1, <4>2
    <3>2. CASE i # 1
      <4>1. i - 1 \in 1 .. n
        BY <3>2
      <4>2. one[i] = Joined(one[i - 1], seqs[i])
        BY <2>3, <3>2 DEF Joined
      <4> QED
        BY <2>4, <3>2, <4>1, <4>2
    <3> QED
      BY <3>1, <3>2
  <2>7. 0 \in G
    BY <2>4, EmptySeq
  <2>8. ASSUME NEW i \in Nat, i \in G
        PROVE  i + 1 \in G
    <3> SUFFICES ASSUME i + 1 \in 1 .. n PROVE flat[i + 1] \in Seq(S)
      OBVIOUS
    <3>1. flat[i] \in Seq(S) /\ seqs[i + 1] \in Seq(S)
      BY <2>8
    <3>2. flat[i + 1] = Joined(flat[i], seqs[i + 1])
      <4>1. (i + 1) - 1 = i
        OBVIOUS
      <4> QED
        BY <2>6, <4>1
    <3> QED
      BY <3>1, <3>2, JoinedFacts
  <2> HIDE DEF G
  <2>9. \A i \in Nat : i \in G
    BY <2>7, <2>8, Induction
  <2>10. \A i \in 0 .. n : flat[i] \in Seq(S)
    BY <2>9 DEF G
  <2>11. flat \in [0 .. n -> Seq(S)]
    BY <2>5, <2>10
  <2>12. flat[n] = FlattenSeq(seqs)
    BY <1>3, <2>1, <2>4
  <2>13. IsWritten(S, seqs, n, flat)
    BY <2>4, <2>6, <2>11, <2>12 DEF IsWritten
  <2> QED
    BY <2>13
<1> QED
  BY <1>2, <1>3

\* What is left to read behind each of them from the m-th on, with t behind the
\* last.
IsRest(S, seqs, n, t, m, rest) ==
  /\ rest \in [m .. n -> Seq(S)]
  /\ rest[n] = t
  /\ \A i \in m + 1 .. n : rest[i - 1] = Joined(seqs[i], rest[i])

LEMMA RestFacts ==
  ASSUME NEW S, NEW n \in Nat, NEW seqs \in [1 .. n -> Seq(S)], NEW t \in Seq(S)
  PROVE  \E rest : IsRest(S, seqs, n, t, 0, rest)
<1> DEFINE G == {k \in Nat : k <= n => \E rest : IsRest(S, seqs, n, t, n - k, rest)}
<1>1. 0 \in G
  <2> DEFINE rest == [i \in n .. n |-> t]
  <2>3. rest \in [n .. n -> Seq(S)] /\ rest[n] = t
    OBVIOUS
  <2> HIDE DEF rest
  <2>1. IsRest(S, seqs, n, t, n, rest)
    BY <2>3 DEF IsRest
  <2>2. n - 0 = n
    OBVIOUS
  <2> QED
    BY <2>1, <2>2
<1>2. ASSUME NEW k \in Nat, k \in G
      PROVE  k + 1 \in G
  <2> SUFFICES ASSUME k + 1 <= n PROVE \E rest : IsRest(S, seqs, n, t, n - (k + 1), rest)
    OBVIOUS
  <2> DEFINE m == n - k
  <2>1. PICK rest : IsRest(S, seqs, n, t, m, rest)
    BY <1>2
  <2>2. m \in 1 .. n /\ n - (k + 1) = m - 1
    OBVIOUS
  <2> DEFINE first == Joined(seqs[m], rest[m])
  <2>3. /\ rest \in [m .. n -> Seq(S)]
        /\ rest[n] = t
        /\ \A i \in m + 1 .. n : rest[i - 1] = Joined(seqs[i], rest[i])
    BY <2>1 DEF IsRest
  <2> HIDE DEF m
  <2>4. first \in Seq(S)
    <3>1. seqs[m] \in Seq(S) /\ rest[m] \in Seq(S)
      BY <2>2, <2>3
    <3> QED
      BY <3>1, JoinedFacts
  <2> DEFINE more == [i \in m - 1 .. n |-> IF i = m - 1 THEN first ELSE rest[i]]
  <2>5. more[m - 1] = first /\ \A i \in m .. n : more[i] = rest[i]
    BY <2>2
  <2>6. more \in [m - 1 .. n -> Seq(S)]
    <3> HIDE DEF first
    <3> QED
      BY <2>2, <2>3, <2>4
  <2> HIDE DEF more
  <2>7. ASSUME NEW i \in m .. n
        PROVE  more[i - 1] = Joined(seqs[i], more[i])
    <3>1. CASE i = m
      BY <2>2, <2>5, <3>1
    <3>2. CASE i # m
      <4>1. i \in m + 1 .. n /\ i - 1 \in m .. n /\ i \in m .. n
        BY <2>2, <3>2
      <4> QED
        BY <2>3, <2>5, <4>1
    <3> QED
      BY <3>1, <3>2
  <2>8. more[n] = t
    BY <2>2, <2>3, <2>5
  <2>9. (m - 1) + 1 = m
    BY <2>2
  <2>10. IsRest(S, seqs, n, t, m - 1, more)
    BY <2>6, <2>7, <2>8, <2>9 DEF IsRest
  <2> QED
    BY <2>2, <2>10
<1> HIDE DEF G
<1>3. n \in G
  BY <1>1, <1>2, Induction
<1>4. PICK rest : IsRest(S, seqs, n, t, n - n, rest)
  BY <1>3 DEF G
<1>5. n - n = 0
  OBVIOUS
<1> QED
  BY <1>4, <1>5

LEMMA FlattenRest ==
  ASSUME NEW S, NEW n \in Nat, NEW seqs \in [1 .. n -> Seq(S)], NEW t \in Seq(S)
  PROVE  /\ FlattenSeq(seqs) \in Seq(S)
         /\ \E rest : /\ IsRest(S, seqs, n, t, 0, rest)
                      /\ rest[0] = Joined(FlattenSeq(seqs), t)
<1>1. PICK flat : IsWritten(S, seqs, n, flat)
  BY FlatFacts
<1>2. PICK rest : IsRest(S, seqs, n, t, 0, rest)
  BY RestFacts
<1>3. flat \in [0 .. n -> Seq(S)] /\ rest \in [0 .. n -> Seq(S)]
  BY <1>1, <1>2 DEF IsWritten, IsRest
<1>4. /\ flat[0] = <<>> /\ flat[n] = FlattenSeq(seqs)
      /\ \A i \in 1 .. n : flat[i] = Joined(flat[i - 1], seqs[i])
  BY <1>1 DEF IsWritten
<1>5. rest[n] = t /\ \A i \in 1 .. n : rest[i - 1] = Joined(seqs[i], rest[i])
  BY <1>2 DEF IsRest
<1> DEFINE all == [i \in 0 .. n |-> Joined(flat[i], rest[i])]
           G == {i \in Nat : i <= n => all[i] = rest[0]}
<1>6. \A i \in 0 .. n : all[i] = Joined(flat[i], rest[i])
  OBVIOUS
<1> HIDE DEF all
<1>7. 0 \in G
  <2>1. rest[0] \in Seq(S)
    BY <1>3
  <2>2. Joined(<<>>, rest[0]) = rest[0]
    BY <2>1, JoinedFacts
  <2>3. all[0] = rest[0]
    BY <1>4, <1>6, <2>2
  <2> QED
    BY <2>3
<1>8. ASSUME NEW i \in Nat, i \in G
      PROVE  i + 1 \in G
  <2> SUFFICES ASSUME i + 1 <= n PROVE all[i + 1] = rest[0]
    OBVIOUS
  <2> DEFINE a == flat[i]
             b == seqs[i + 1]
             c == rest[i + 1]
  <2>1. a \in Seq(S) /\ b \in Seq(S) /\ c \in Seq(S)
    BY <1>3
  <2>2. flat[i + 1] = Joined(a, b) /\ rest[i] = Joined(b, c)
    <3>1. i + 1 \in 1 .. n /\ (i + 1) - 1 = i
      OBVIOUS
    <3> QED
      BY <1>4, <1>5, <3>1
  <2>3. all[i] = Joined(a, rest[i]) /\ all[i + 1] = Joined(flat[i + 1], c)
    BY <1>6
  <2>4. all[i] = rest[0]
    BY <1>8
  <2> HIDE DEF a, b, c
  <2>5. Joined(Joined(a, b), c) = Joined(a, Joined(b, c))
    BY <2>1, JoinedFacts
  <2> QED
    BY <2>2, <2>3, <2>4, <2>5
<1> HIDE DEF G
<1>9. n \in G
  BY <1>7, <1>8, Induction
<1>10. all[n] = rest[0]
  BY <1>9 DEF G
<1>11. FlattenSeq(seqs) \in Seq(S)
  BY <1>3, <1>4
<1> QED
  BY <1>2, <1>4, <1>5, <1>6, <1>10, <1>11

-----------------------------------------------------------------------------
(* The list of shares.                                                     *)

ShareBytes(share) == Joined(share.pda, LittleEndian(share.bps, 2))

IsShare(share) == share \in [pda: KeyBytes, bps: Nat] /\ FitsIn(share.bps, 2)

LEMMA ShareFacts ==
  ASSUME NEW share, IsShare(share)
  PROVE  /\ share.pda \in Seq(Byte) /\ Len(share.pda) = 32
         /\ LittleEndian(share.bps, 2) \in Seq(Byte)
         /\ Len(LittleEndian(share.bps, 2)) = 2
         /\ ShareBytes(share) \in Seq(Byte) /\ Len(ShareBytes(share)) = 34
         /\ \A k \in 1 .. 32 : ShareBytes(share)[k] = share.pda[k]
         /\ \A k \in 1 .. 2 : ShareBytes(share)[32 + k] = LittleEndian(share.bps, 2)[k]
<1>1. share.pda \in KeyBytes /\ share.bps \in Nat
  BY DEF IsShare
<1>2. share.pda \in Seq(Byte) /\ Len(share.pda) = 32
  BY <1>1, FixedSeq DEF KeyBytes
<1>3. LittleEndian(share.bps, 2) \in Seq(Byte) /\ Len(LittleEndian(share.bps, 2)) = 2
  BY <1>1, WidthFacts
<1> DEFINE a == share.pda
           b == LittleEndian(share.bps, 2)
<1> HIDE DEF a, b
<1>4. a \in Seq(Byte) /\ b \in Seq(Byte) /\ Len(a) = 32 /\ Len(b) = 2
  BY <1>2, <1>3 DEF a, b
<1>5. Joined(a, b) \in Seq(Byte) /\ Len(Joined(a, b)) = 34
  <2>1. Len(Joined(a, b)) = Len(a) + Len(b)
    BY <1>4, JoinedParts
  <2>2. Joined(a, b) \in Seq(Byte)
    BY <1>4, JoinedFacts
  <2> QED
    BY <1>4, <2>1, <2>2
<1>6. /\ \A k \in 1 .. 32 : Joined(a, b)[k] = a[k]
      /\ \A k \in 1 .. 2 : Joined(a, b)[32 + k] = b[k]
  <2>1. /\ \A k \in 1 .. Len(a) : Joined(a, b)[k] = a[k]
        /\ \A k \in 1 .. Len(b) : Joined(a, b)[Len(a) + k] = b[k]
    BY <1>4, JoinedParts
  <2> QED
    BY <1>4, <2>1
<1> QED
  BY <1>2, <1>3, <1>5, <1>6 DEF a, b, ShareBytes

EndsWith(all, m, tail) ==
  /\ Len(all) = m + Len(tail)
  /\ \A k \in 1 .. Len(tail) : all[m + k] = tail[k]

LEMMA SharesBack ==
  ASSUME NEW n \in Nat, NEW v \in [1 .. n -> {s \in [pda: KeyBytes, bps: Nat] : IsShare(s)}]
  PROVE  LET all == FlattenSeq([i \in 1 .. n |-> ShareBytes(v[i])])
         IN  /\ all \in Seq(Byte) /\ Len(all) = 34 * n
             /\ Shares(n, all) = v
<1> DEFINE seqs == [i \in 1 .. n |-> ShareBytes(v[i])]
           all == FlattenSeq(seqs)
<1>1. \A i \in 1 .. n : IsShare(v[i])
  OBVIOUS
<1>2. \A i \in 1 .. n : seqs[i] = ShareBytes(v[i])
  OBVIOUS
<1>3. \A i \in 1 .. n : ShareBytes(v[i]) \in Seq(Byte)
  BY <1>1, ShareFacts
<1>4. seqs \in [1 .. n -> Seq(Byte)]
  BY <1>3
<1> HIDE DEF seqs
<1>5. all \in Seq(Byte)
  BY <1>4, FlattenRest, EmptySeq
<1>6. PICK rest : IsRest(Byte, seqs, n, <<>>, 0, rest) /\ rest[0] = Joined(all, <<>>)
  BY <1>4, FlattenRest, EmptySeq
<1> HIDE DEF all
<1>7. /\ rest \in [0 .. n -> Seq(Byte)] /\ rest[0] = all /\ rest[n] = <<>>
      /\ \A i \in 1 .. n : rest[i - 1] = Joined(seqs[i], rest[i])
  BY <1>5, <1>6, JoinedFacts DEF IsRest
<1> DEFINE G == {i \in Nat : i <= n => EndsWith(all, 34 * i, rest[i])}
<1>8. 0 \in G
  <2>1. Len(all) \in Nat
    BY <1>5, LenProperties
  <2>2. EndsWith(all, 0, rest[0])
    BY <1>7, <2>1 DEF EndsWith
  <2>3. 34 * 0 = 0
    OBVIOUS
  <2> QED
    BY <2>2, <2>3
<1>9. ASSUME NEW i \in 1 .. n
      PROVE  /\ Len(rest[i - 1]) = 34 + Len(rest[i])
             /\ \A k \in 1 .. 34 : rest[i - 1][k] = ShareBytes(v[i])[k]
             /\ \A k \in 1 .. Len(rest[i]) : rest[i - 1][34 + k] = rest[i][k]
  <2> DEFINE a == ShareBytes(v[i])
             b == rest[i]
  <2>1. a \in Seq(Byte) /\ Len(a) = 34
    BY <1>1, ShareFacts
  <2>2. b \in Seq(Byte) /\ Len(b) \in Nat
    BY <1>7, LenProperties
  <2>3. rest[i - 1] = Joined(a, b)
    BY <1>2, <1>7
  <2> HIDE DEF a, b
  <2>4. /\ Len(Joined(a, b)) = 34 + Len(b)
        /\ \A k \in 1 .. 34 : Joined(a, b)[k] = a[k]
        /\ \A k \in 1 .. Len(b) : Joined(a, b)[34 + k] = b[k]
    <3>1. /\ Len(Joined(a, b)) = Len(a) + Len(b)
          /\ \A k \in 1 .. Len(a) : Joined(a, b)[k] = a[k]
          /\ \A k \in 1 .. Len(b) : Joined(a, b)[Len(a) + k] = b[k]
      BY <2>1, <2>2, JoinedParts
    <3> QED
      BY <2>1, <3>1
  <2> QED
    BY <2>3, <2>4 DEF a, b
<1>10. ASSUME NEW i \in Nat, i \in G
       PROVE  i + 1 \in G
  <2> SUFFICES ASSUME i + 1 <= n PROVE EndsWith(all, 34 * (i + 1), rest[i + 1])
    OBVIOUS
  <2> DEFINE j == i + 1
             m == Len(rest[j])
  <2>1. j \in 1 .. n /\ i = j - 1 /\ m \in Nat
    BY <1>7, LenProperties
  <2>2. EndsWith(all, 34 * (j - 1), rest[j - 1])
    BY <1>10, <2>1
  <2> HIDE DEF j, m
  <2>3. Len(rest[j - 1]) = 34 + m /\ \A k \in 1 .. m : rest[j - 1][34 + k] = rest[j][k]
    BY <1>9, <2>1 DEF m
  <2>4. Len(all) = 34 * j + m
    BY <2>1, <2>2, <2>3 DEF EndsWith
  <2>5. ASSUME NEW k \in 1 .. m
        PROVE  all[34 * j + k] = rest[j][k]
    <3>1. 34 + k \in 1 .. Len(rest[j - 1]) /\ 34 * (j - 1) + (34 + k) = 34 * j + k
      BY <2>1, <2>3
    <3>2. all[34 * (j - 1) + (34 + k)] = rest[j - 1][34 + k]
      BY <2>2, <3>1 DEF EndsWith
    <3> QED
      BY <2>3, <3>1, <3>2
  <2>6. EndsWith(all, 34 * j, rest[j])
    BY <2>4, <2>5 DEF m, EndsWith
  <2> QED
    BY <2>6 DEF j
<1> HIDE DEF G
<1>11. \A i \in Nat : i \in G
  BY <1>8, <1>10, Induction
<1>12. \A i \in 0 .. n : EndsWith(all, 34 * i, rest[i])
  BY <1>11 DEF G
<1>13. Len(all) = 34 * n
  <2>1. EndsWith(all, 34 * n, rest[n])
    BY <1>12
  <2> QED
    BY <1>7, <2>1, EmptySeq DEF EndsWith
<1>14. ASSUME NEW i \in 1 .. n
       PROVE  \A k \in 1 .. 34 : all[34 * (i - 1) + k] = ShareBytes(v[i])[k]
  <2> DEFINE j == i - 1
             c == rest[j]
             m == Len(rest[i])
             x == 34 * (i - 1)
  <2>1. j \in 0 .. n /\ x = 34 * j
    OBVIOUS
  <2>2. m \in Nat
    BY <1>7, LenProperties
  <2>3. Len(c) = 34 + m /\ \A k \in 1 .. 34 : c[k] = ShareBytes(v[i])[k]
    BY <1>9
  <2> HIDE DEF c, j, m, x
  <2>4. EndsWith(all, x, c)
    <3>1. EndsWith(all, 34 * j, rest[j])
      BY <1>12, <2>1
    <3> QED
      BY <2>1, <3>1 DEF c
  <2>5. ASSUME NEW k \in 1 .. 34
        PROVE  all[x + k] = c[k]
    <3> DEFINE y == Len(c)
    <3>1. y = 34 + m
      BY <2>3
    <3> HIDE DEF y
    <3>2. k \in 1 .. y
      BY <2>2, <3>1
    <3>3. k \in 1 .. Len(c)
      BY <3>2 DEF y
    <3> QED
      BY <2>4, <3>3 DEF EndsWith
  <2> QED
    BY <2>3, <2>5 DEF x
<1>15. ASSUME NEW i \in 1 .. n
       PROVE  /\ SubSeq(all, 34 * i - 33, 34 * i - 2) = v[i].pda
              /\ Number(SubSeq(all, 34 * i - 1, 34 * i)) = v[i].bps
  <2> DEFINE a == v[i].pda
             b == LittleEndian(v[i].bps, 2)
             c == ShareBytes(v[i])
             p == 34 * i - 33
             q == 34 * i - 2
             x == 34 * i - 1
             y == 34 * i
  <2>1. /\ a \in Seq(Byte) /\ Len(a) = 32 /\ b \in Seq(Byte) /\ Len(b) = 2
        /\ \A k \in 1 .. 32 : c[k] = a[k]
        /\ \A k \in 1 .. 2 : c[32 + k] = b[k]
    BY <1>1, ShareFacts
  <2>2. \A k \in 1 .. 34 : all[34 * (i - 1) + k] = c[k]
    BY <1>14
  <2>3. i \in Int /\ p \in Int /\ q \in Int /\ x \in Int /\ y \in Int
    OBVIOUS
  <2> HIDE DEF a, b, c
  <2>4. ASSUME NEW k \in 1 .. 32
        PROVE  all[p + k - 1] = a[k]
    <3>1. k \in 1 .. 34 /\ 34 * (i - 1) + k = p + k - 1
      BY <2>3
    <3> QED
      BY <2>1, <2>2, <3>1
  <2>5. ASSUME NEW k \in 1 .. 2
        PROVE  all[x + k - 1] = b[k]
    <3>1. 32 + k \in 1 .. 34 /\ 34 * (i - 1) + (32 + k) = x + k - 1
      BY <2>3
    <3> QED
      BY <2>1, <2>2, <3>1
  <2>6. q - p + 1 = 32 /\ y - x + 1 = 2
    OBVIOUS
  <2> HIDE DEF p, q, x, y
  <2>9. SubSeq(all, p, q) = a
    <3>1. Len(a) = q - p + 1 /\ StandsAt(all, p, a)
      BY <2>1, <2>4, <2>6 DEF StandsAt
    <3> QED
      BY <2>1, <2>3, <3>1, SubSeqIs
  <2>10. SubSeq(all, x, y) = b
    <3>1. Len(b) = y - x + 1 /\ StandsAt(all, x, b)
      BY <2>1, <2>5, <2>6 DEF StandsAt
    <3> QED
      BY <2>1, <2>3, <3>1, SubSeqIs
  <2>11. Number(b) = v[i].bps
    BY <1>1, NumberOfBytes DEF b, IsShare
  <2> QED
    BY <2>9, <2>10, <2>11 DEF a, p, q, x, y
<1>16. Shares(n, all) = v
  <2>1. ASSUME NEW i \in 1 .. n
        PROVE  v[i] = [pda |-> SubSeq(all, 34 * i - 33, 34 * i - 2),
                       bps |-> Number(SubSeq(all, 34 * i - 1, 34 * i))]
    <3>1. v[i] \in [pda: KeyBytes, bps: Nat]
      BY <1>1 DEF IsShare
    <3>2. v[i] = [pda |-> v[i].pda, bps |-> v[i].bps]
      BY <3>1
    <3> QED
      BY <1>15, <3>2
  <2>2. v = [i \in 1 .. n |-> v[i]]
    OBVIOUS
  <2> QED
    BY <2>1, <2>2 DEF Shares
<1> QED
  BY <1>5, <1>13, <1>16 DEF all, seqs

-----------------------------------------------------------------------------
(* What is written as a type is read back as that type.                    *)

Types == {"u16", "u64", "kind", "key", "string", "shares"}

LEMMA NumberTypes ==
  ASSUME NEW v, NEW t \in Seq(Byte), NEW type \in {"u16", "u64"}, IsA(type, v)
  PROVE  /\ PutType(type, v) \in Seq(Byte)
         /\ ReadType(type, Joined(PutType(type, v), t)) = Only(v, t)
<1> DEFINE w == IF type = "u16" THEN 2 ELSE 8
<1>1. w \in Nat
  OBVIOUS
<1>2. /\ FitsIn(v, w) /\ PutType(type, v) = LittleEndian(v, w)
      /\ \A s : ReadType(type, s) = ReadNumber(w, s)
  <2>1. CASE type = "u16"
    BY <2>1 DEF IsA, PutType, ReadType
  <2>2. CASE type = "u64"
    BY <2>2 DEF IsA, PutType, ReadType
  <2> QED
    BY <2>1, <2>2
<1> HIDE DEF w
<1>3. LittleEndian(v, w) \in Seq(Byte)
  BY <1>1, <1>2, WidthFacts DEF FitsIn
<1>4. ReadNumber(w, Joined(LittleEndian(v, w), t)) = Only(v, t)
  BY <1>1, <1>2, NumberBack
<1> QED
  BY <1>2, <1>3, <1>4

\* The client's kinds are numbered as the program's.
LEMMA KindsAgree ==
  \A v \in DOMAIN ClientKind :
    /\ ClientKind[v] \in Byte /\ ClientKind[v] < Len(KindOrder)
    /\ KindOrder[ClientKind[v] + 1] = v
<1>1. DOMAIN ClientKind =
        {"Default", "SBT", "Address", "AddressV2", "AddressV3", "AddressV3j",
         "AddressV4Fraction", "AddressV5", "AddressV6", "Clone", "CloneV2"}
  BY DEF ClientKind
<1>2. Len(KindOrder) = 11
  BY DEF KindOrder
<1> QED
  BY <1>1, <1>2 DEF ClientKind, KindOrder, Byte

LEMMA KindType ==
  ASSUME NEW v, NEW t \in Seq(Byte), IsA("kind", v)
  PROVE  /\ PutType("kind", v) \in Seq(Byte)
         /\ ReadType("kind", Joined(PutType("kind", v), t)) = Only(v, t)
<1> DEFINE b == ClientKind[v]
           s == Joined(<<b>>, t)
<1>1. b \in Byte /\ b < Len(KindOrder) /\ KindOrder[b + 1] = v
  BY KindsAgree DEF IsA
<1>2. PutType("kind", v) = <<b>>
  BY DEF PutType
<1> HIDE DEF b
<1>3. <<b>> \in Seq(Byte) /\ ReadNumber(1, s) = Only(b, t)
  BY <1>1, ByteBack
<1>4. ReadType("kind", s) =
        {<<KindOrder[r[1] + 1], r[2]>> :
           r \in {q \in ReadNumber(1, s) : q[1] < Len(KindOrder)}}
  BY DEF ReadType
<1> HIDE DEF s
<1> DEFINE some == ReadNumber(1, s)
<1>5. some = {<<b, t>>}
  BY <1>3 DEF Only
<1> HIDE DEF some
<1>6. {q \in some : q[1] < Len(KindOrder)} = {<<b, t>>}
  BY <1>1, <1>5
<1>7. {<<KindOrder[r[1] + 1], r[2]>> :
           r \in {q \in some : q[1] < Len(KindOrder)}} = {<<v, t>>}
  <2> DEFINE fit == {q \in some : q[1] < Len(KindOrder)}
             c == b + 1
  <2>1. fit = {<<b, t>>}
    BY <1>6
  <2> HIDE DEF fit
  <2>2. {<<KindOrder[r[1] + 1], r[2]>> : r \in fit} = {<<KindOrder[c], t>>}
    BY <2>1
  <2> QED
    BY <1>1, <2>2 DEF fit
<1>8. ReadType("kind", s) = Only(v, t)
  BY <1>4, <1>7 DEF some, Only
<1> QED
  BY <1>2, <1>3, <1>8 DEF s

LEMMA KeyType ==
  ASSUME NEW v, NEW t \in Seq(Byte), IsA("key", v)
  PROVE  /\ PutType("key", v) \in Seq(Byte)
         /\ ReadType("key", Joined(PutType("key", v), t)) = Only(v, t)
<1>1. v \in KeyBytes /\ PutType("key", v) = v /\ \A s : ReadType("key", s) = Bytes(32, s)
  BY DEF IsA, PutType, ReadType
<1>2. v \in Seq(Byte) /\ Len(v) = 32
  BY <1>1, FixedSeq DEF KeyBytes
<1>3. Bytes(Len(v), Joined(v, t)) = Only(v, t)
  BY <1>2, BytesBack
<1> QED
  BY <1>1, <1>2, <1>3

LEMMA ThenBytes ==
  ASSUME NEW n, NEW s
  PROVE  UNION {Bytes(r[1], r[2]) : r \in Only(n, s)} = Bytes(n, s)
<1>1. {Bytes(r[1], r[2]) : r \in {<<n, s>>}} = {Bytes(n, s)}
  OBVIOUS
<1> QED
  BY <1>1 DEF Only

LEMMA StringType ==
  ASSUME NEW v, NEW t \in Seq(Byte), IsA("string", v)
  PROVE  /\ PutType("string", v) \in Seq(Byte)
         /\ ReadType("string", Joined(PutType("string", v), t)) = Only(v, t)
<1> DEFINE n == Len(v)
           length == LittleEndian(n, 4)
           s == Joined(PutType("string", v), t)
<1>1. v \in Seq(Byte) /\ n \in Nat /\ FitsIn(n, 4)
  BY LenProperties DEF IsA
<1>2. PutType("string", v) = Joined(length, v)
  BY DEF PutType, Joined
<1>3. length \in Seq(Byte)
  <2>1. n \in Nat
    BY <1>1
  <2> HIDE DEF n, s
  <2> QED
    BY <2>1, LengthFacts
<1>4. ReadType("string", s) = UNION {Bytes(r[1], r[2]) : r \in ReadNumber(4, s)}
  BY DEF ReadType
<1>5. Joined(v, t) \in Seq(Byte) /\ Joined(length, v) \in Seq(Byte)
  BY <1>1, <1>3, JoinedFacts
<1>6. s = Joined(length, Joined(v, t))
  BY <1>1, <1>2, <1>3, JoinedFacts
<1>7. ReadNumber(4, s) = Only(n, Joined(v, t))
  BY <1>1, <1>5, <1>6, NumberBack
<1>8. Bytes(n, Joined(v, t)) = Only(v, t)
  BY <1>1, BytesBack
<1> HIDE DEF n, s
<1>9. UNION {Bytes(r[1], r[2]) : r \in ReadNumber(4, s)} = Bytes(n, Joined(v, t))
  BY <1>7, ThenBytes
<1> QED
  BY <1>2, <1>4, <1>5, <1>8, <1>9 DEF s

\* The lists of the lengths read, none longer than the limit.
ListsIn(reads, limit) ==
  UNION {{<<Shares(r[1], q[1]), q[2]>> : q \in Bytes(34 * r[1], r[2])} :
           r \in {p \in reads : p[1] <= limit}}

LEMMA ThenShares ==
  ASSUME NEW n, NEW s, NEW limit, n <= limit, NEW all, NEW t,
         Bytes(34 * n, s) = Only(all, t)
  PROVE  ListsIn(Only(n, s), limit) = Only(Shares(n, all), t)
<1>1. {p \in {<<n, s>>} : p[1] <= limit} = {<<n, s>>}
  OBVIOUS
<1> DEFINE Lists(r) == {<<Shares(r[1], q[1]), q[2]>> : q \in Bytes(34 * r[1], r[2])}
           one == Bytes(34 * n, s)
<1>2. Lists(<<n, s>>) = {<<Shares(n, q[1]), q[2]>> : q \in one}
  OBVIOUS
<1>3. one = {<<all, t>>}
  BY DEF Only
<1> HIDE DEF one
<1>4. {<<Shares(n, q[1]), q[2]>> : q \in one} = {<<Shares(n, all), t>>}
  BY <1>3
<1>5. Lists(<<n, s>>) = {<<Shares(n, all), t>>}
  BY <1>2, <1>4
<1> HIDE DEF Lists
<1>6. UNION {Lists(r) : r \in {<<n, s>>}} = Lists(<<n, s>>)
  OBVIOUS
<1>7. UNION {Lists(r) : r \in {p \in {<<n, s>>} : p[1] <= limit}} = {<<Shares(n, all), t>>}
  BY <1>1, <1>5, <1>6
<1> QED
  BY <1>7 DEF Lists, Only, ListsIn

LEMMA SharesType ==
  ASSUME NEW v, NEW t \in Seq(Byte), IsA("shares", v)
  PROVE  /\ PutType("shares", v) \in Seq(Byte)
         /\ ReadType("shares", Joined(PutType("shares", v), t)) = Only(v, t)
<1> DEFINE n == Len(v)
           length == LittleEndian(n, 4)
           all == FlattenSeq([i \in 1 .. n |-> ShareBytes(v[i])])
           s == Joined(PutType("shares", v), t)
<1>1. /\ v \in Seq([pda: KeyBytes, bps: Nat]) /\ FitsIn(n, 4)
      /\ \A i \in DOMAIN v : FitsIn(v[i].bps, 2)
  BY DEF IsA
<1>2. n \in Nat /\ DOMAIN v = 1 .. n /\ v \in [1 .. n -> [pda: KeyBytes, bps: Nat]]
  BY <1>1, LenProperties
<1>3. v \in [1 .. n -> {x \in [pda: KeyBytes, bps: Nat] : IsShare(x)}]
  BY <1>1, <1>2 DEF IsShare
<1>4. all \in Seq(Byte) /\ Len(all) = 34 * n /\ Shares(n, all) = v
  BY <1>2, <1>3, SharesBack
<1>5. PutType("shares", v) = Joined(length, all)
  <2>1. PutType("shares", v) =
          length \o FlattenSeq([i \in DOMAIN v |-> v[i].pda \o LittleEndian(v[i].bps, 2)])
    BY DEF PutType
  <2> QED
    BY <1>2, <2>1 DEF Joined, ShareBytes
<1>6. length \in Seq(Byte) /\ Len(length) = 4
  <2>1. n \in Nat
    BY <1>2
  <2> HIDE DEF n, all, s
  <2> QED
    BY <2>1, LengthFacts
<1> HIDE DEF all, length
<1>7. Joined(all, t) \in Seq(Byte) /\ Joined(length, all) \in Seq(Byte)
  BY <1>4, <1>6, JoinedFacts
<1>8. s = Joined(length, Joined(all, t))
  BY <1>4, <1>5, <1>6, JoinedFacts
<1>9. ReadNumber(4, s) = Only(n, Joined(all, t))
  BY <1>1, <1>7, <1>8, NumberBack DEF length
<1>10. Bytes(34 * n, Joined(all, t)) = Only(all, t)
  <2>1. Bytes(Len(all), Joined(all, t)) = Only(all, t)
    BY <1>4, BytesBack
  <2> QED
    BY <1>4, <2>1
<1>11. n <= Len(s)
  <2> DEFINE a == Len(length)
             b == Len(all)
             c == Len(t)
             u == Joined(all, t)
  <2>1. Len(s) = a + Len(u)
    <3>1. u \in Seq(Byte) /\ s = Joined(length, u)
      BY <1>7, <1>8
    <3> HIDE DEF u, s
    <3>2. Len(Joined(length, u)) = a + Len(u)
      BY <1>6, <3>1, JoinedParts
    <3> QED
      BY <3>1, <3>2
  <2>2. Len(Joined(all, t)) = b + c
    BY <1>4, JoinedParts
  <2>3. a \in Nat /\ c \in Nat /\ b = 34 * n
    BY <1>4, <1>6, LenProperties
  <2> HIDE DEF a, b, c, n, s
  <2> QED
    BY <1>2, <2>1, <2>2, <2>3
<1>12. ReadType("shares", s) = ListsIn(ReadNumber(4, s), Len(s))
  BY DEF ReadType, ListsIn
<1> HIDE DEF n, s
<1>13. ReadType("shares", s) = Only(Shares(n, all), t)
  BY <1>9, <1>10, <1>11, <1>12, ThenShares
<1> QED
  BY <1>4, <1>5, <1>7, <1>13 DEF s

LEMMA TypeBack ==
  ASSUME NEW type \in Types, NEW v, NEW t \in Seq(Byte), IsA(type, v)
  PROVE  /\ PutType(type, v) \in Seq(Byte)
         /\ ReadType(type, Joined(PutType(type, v), t)) = Only(v, t)
<1>1. CASE type \in {"u16", "u64"}
  BY <1>1, NumberTypes
<1>2. CASE type = "kind"
  BY <1>2, KindType
<1>3. CASE type = "key"
  BY <1>3, KeyType
<1>4. CASE type = "string"
  BY <1>4, StringType
<1>5. CASE type = "shares"
  BY <1>5, SharesType
<1> QED
  BY <1>1, <1>2, <1>3, <1>4, <1>5 DEF Types

-----------------------------------------------------------------------------
(* The same of a field, and of the fields of a layout.                     *)

\* What an optional field of the type reads behind its first byte.
OptionIn(type, r) ==
  CASE r[1] = 0 -> {<<<<>>, r[2]>>}
    [] r[1] = 1 -> {<<<<q[1]>>, q[2]>> : q \in ReadType(type, r[2])}
    [] OTHER -> {}

LEMMA ThenOption ==
  ASSUME NEW type, NEW n, NEW s
  PROVE  UNION {OptionIn(type, r) : r \in Only(n, s)} = OptionIn(type, <<n, s>>)
<1>1. {OptionIn(type, r) : r \in {<<n, s>>}} = {OptionIn(type, <<n, s>>)}
  OBVIOUS
<1> QED
  BY <1>1 DEF Only

LEMMA FieldBack ==
  ASSUME NEW field \in [type: Types, optional: BOOLEAN], NEW v, NEW t \in Seq(Byte),
         Holds(field, v)
  PROVE  /\ Put(field, v) \in Seq(Byte)
         /\ ReadField(field, Joined(Put(field, v), t)) = Only(v, t)
<1> DEFINE type == field.type
<1>1. type \in Types
  OBVIOUS
<1>2. CASE ~ field.optional
  <2>1. /\ IsA(type, v) /\ Put(field, v) = PutType(type, v)
        /\ \A s : ReadField(field, s) = ReadType(type, s)
    BY <1>2 DEF Holds, Put, ReadField
  <2> HIDE DEF type
  <2> QED
    BY <1>1, <2>1, TypeBack
<1>3. CASE field.optional
  <2>1. \A s : ReadField(field, s) = UNION {OptionIn(type, r) : r \in ReadNumber(1, s)}
    BY <1>3 DEF ReadField, OptionIn
  <2>2. CASE v = <<>>
    <3>1. Put(field, v) = <<0>>
      BY <1>3, <2>2 DEF Put
    <3>2. 0 \in Byte
      BY DEF Byte
    <3> DEFINE s == Joined(<<0>>, t)
    <3>3. <<0>> \in Seq(Byte) /\ ReadNumber(1, s) = Only(0, t)
      BY <3>2, ByteBack
    <3> HIDE DEF type, s
    <3>4. ReadField(field, s) = OptionIn(type, <<0, t>>)
      BY <2>1, <3>3, ThenOption
    <3>5. OptionIn(type, <<0, t>>) = Only(<<>>, t)
      BY DEF OptionIn, Only
    <3> QED
      BY <2>2, <3>1, <3>3, <3>4, <3>5 DEF s
  <2>3. CASE v # <<>>
    <3> DEFINE a == v[1]
               b == PutType(type, a)
               s == Joined(Put(field, v), t)
    <3>1. v = <<a>> /\ IsA(type, a)
      BY <1>3, <2>3 DEF Holds
    <3>2. Put(field, v) = Joined(<<1>>, b)
      BY <1>3, <2>3 DEF Put, Joined
    <3>3. 1 \in Byte
      BY DEF Byte
    <3> HIDE DEF type, a
    <3>4. b \in Seq(Byte) /\ ReadType(type, Joined(b, t)) = Only(a, t)
      BY <1>1, <3>1, TypeBack
    <3> HIDE DEF b
    <3> DEFINE one == <<1>>
               rest == Joined(b, t)
    <3>5. one \in Seq(Byte) /\ \A x \in Seq(Byte) : ReadNumber(1, Joined(one, x)) = Only(1, x)
      BY <3>3, ByteBack
    <3>6. rest \in Seq(Byte)
      BY <3>4, JoinedFacts
    <3>7. Put(field, v) \in Seq(Byte) /\ s = Joined(one, rest)
      <4>1. Put(field, v) = Joined(one, b)
        BY <3>2
      <4> HIDE DEF one
      <4>2. Joined(one, b) \in Seq(Byte) /\ Joined(Joined(one, b), t) = Joined(one, rest)
        BY <3>4, <3>5, JoinedFacts
      <4> QED
        BY <4>1, <4>2
    <3> HIDE DEF s, one, rest
    <3>8. ReadField(field, s) = OptionIn(type, <<1, rest>>)
      <4>1. ReadNumber(1, s) = Only(1, rest)
        BY <3>5, <3>6, <3>7
      <4> QED
        <5>1. ReadField(field, s) = UNION {OptionIn(type, r) : r \in ReadNumber(1, s)}
          BY <2>1
        <5>2. UNION {OptionIn(type, r) : r \in Only(1, rest)} = OptionIn(type, <<1, rest>>)
          BY ThenOption
        <5> QED
          BY <4>1, <5>1, <5>2
    <3>9. OptionIn(type, <<1, rest>>) = Only(<<a>>, t)
      <4> DEFINE reads == ReadType(type, rest)
      <4>1. OptionIn(type, <<1, rest>>) = {<<<<q[1]>>, q[2]>> : q \in reads}
        BY DEF OptionIn
      <4>2. reads = {<<a, t>>}
        BY <3>4 DEF Only, rest
      <4> HIDE DEF reads
      <4>3. {<<<<q[1]>>, q[2]>> : q \in reads} = {<<<<a>>, t>>}
        BY <4>2
      <4> QED
        BY <4>1, <4>3 DEF Only
    <3> QED
      BY <3>1, <3>7, <3>8, <3>9 DEF s
  <2> QED
    BY <2>2, <2>3
<1> QED
  BY <1>2, <1>3

\* What is read when one field more is.
Further(field, reads) ==
  UNION {{<<Append(r[1], q[1]), q[2]>> : q \in ReadField(field, r[2])} : r \in reads}

IsReads(layout, bytes, n, reads) ==
  reads = [i \in 0 .. n |->
             IF i = 0 THEN Only(<<>>, bytes) ELSE Further(layout[i], reads[i - 1])]

LEMMA ReadsExist ==
  ASSUME NEW layout, NEW bytes, NEW k \in Nat
  PROVE  \E reads : IsReads(layout, bytes, k, reads)
<1> DEFINE G == {n \in Nat : \E reads : IsReads(layout, bytes, n, reads)}
<1>1. 0 \in G
  <2>1. IsReads(layout, bytes, 0, [i \in 0 .. 0 |-> Only(<<>>, bytes)])
    BY DEF IsReads
  <2> QED
    BY <2>1
<1>2. ASSUME NEW n \in Nat, n \in G
      PROVE  n + 1 \in G
  <2>1. PICK reads : IsReads(layout, bytes, n, reads)
    BY <1>2
  <2> DEFINE last == Further(layout[n + 1], reads[n])
  <2> HIDE DEF last
  <2> DEFINE more == [i \in 0 .. n + 1 |-> IF i = n + 1 THEN last ELSE reads[i]]
  <2>2. ASSUME NEW i \in 0 .. n + 1
        PROVE  more[i] = IF i = 0 THEN Only(<<>>, bytes)
                         ELSE Further(layout[i], more[i - 1])
    <3>1. CASE i = n + 1
      <4>1. more[i] = last /\ more[i - 1] = reads[n] /\ i # 0
        BY <3>1
      <4> QED
        BY <3>1, <4>1 DEF last
    <3>2. CASE i \in 0 .. n
      <4>1. more[i] = reads[i] /\ (i # 0 => more[i - 1] = reads[i - 1])
        BY <3>2
      <4>2. reads[i] = IF i = 0 THEN Only(<<>>, bytes) ELSE Further(layout[i], reads[i - 1])
        BY <2>1, <3>2 DEF IsReads
      <4> HIDE DEF more
      <4> QED
        BY <4>1, <4>2
    <3> QED
      BY <3>1, <3>2
  <2>3. DOMAIN more = 0 .. n + 1 /\ more = [i \in 0 .. n + 1 |-> more[i]]
    OBVIOUS
  <2> HIDE DEF more
  <2>4. IsReads(layout, bytes, n + 1, more)
    BY <2>2, <2>3 DEF IsReads
  <2> QED
    BY <2>4
<1> HIDE DEF G
<1>3. k \in G
  BY <1>1, <1>2, Induction
<1> QED
  BY <1>3 DEF G

\* What is read of the first i fields.
ReadsOf(layout, bytes, n) == CHOOSE reads : IsReads(layout, bytes, n, reads)

LEMMA ReadAllFacts ==
  ASSUME NEW layout, NEW bytes, NEW n \in Nat, Len(layout) = n
  PROVE  /\ ReadAll(layout, bytes) = ReadsOf(layout, bytes, n)[n]
         /\ ReadsOf(layout, bytes, n)[0] = Only(<<>>, bytes)
         /\ \A i \in 1 .. n : ReadsOf(layout, bytes, n)[i]
                              = Further(layout[i], ReadsOf(layout, bytes, n)[i - 1])
<1> DEFINE reads == ReadsOf(layout, bytes, n)
<1>1. ReadAll(layout, bytes) = reads[n]
  BY DEF ReadAll, IsReads, Further, Only, ReadsOf
<1>2. IsReads(layout, bytes, n, reads)
  <2>1. \E f : IsReads(layout, bytes, n, f)
    BY ReadsExist
  <2> QED
    BY <2>1 DEF ReadsOf
<1> HIDE DEF reads
<1>3. reads[0] = Only(<<>>, bytes)
  BY <1>2 DEF IsReads
<1>4. \A i \in 1 .. n : reads[i] = Further(layout[i], reads[i - 1])
  BY <1>2 DEF IsReads
<1> QED
  BY <1>1, <1>3, <1>4 DEF reads

LEMMA FurtherOnly ==
  ASSUME NEW field \in [type: Types, optional: BOOLEAN], NEW v, NEW t \in Seq(Byte),
         Holds(field, v), NEW p
  PROVE  Further(field, Only(p, Joined(Put(field, v), t))) = Only(Append(p, v), t)
<1> DEFINE s == Joined(Put(field, v), t)
           reads == ReadField(field, s)
           After(r) == {<<Append(r[1], q[1]), q[2]>> : q \in ReadField(field, r[2])}
<1>1. reads = {<<v, t>>}
  BY FieldBack DEF Only
<1> HIDE DEF s
<1>2. After(<<p, s>>) = {<<Append(p, q[1]), q[2]>> : q \in reads}
  OBVIOUS
<1> HIDE DEF reads
<1>3. {<<Append(p, q[1]), q[2]>> : q \in reads} = {<<Append(p, v), t>>}
  BY <1>1
<1>4. Further(field, Only(p, s)) = UNION {After(r) : r \in {<<p, s>>}}
  BY DEF Further, Only
<1> HIDE DEF After
<1>5. UNION {After(r) : r \in {<<p, s>>}} = After(<<p, s>>)
  OBVIOUS
<1> QED
  BY <1>2, <1>3, <1>4, <1>5 DEF s, Only

Prefix(v, i) == [j \in 1 .. i |-> v[j]]

LEMMA PrefixFacts ==
  ASSUME NEW v, NEW i \in Nat
  PROVE  Append(Prefix(v, i), v[i + 1]) = Prefix(v, i + 1)
<1> DEFINE S == {v[j] : j \in 1 .. i + 1}
           a == Prefix(v, i)
           b == Prefix(v, i + 1)
           e == v[i + 1]
<1>1. \A j \in 1 .. i + 1 : v[j] \in S
  OBVIOUS
<1> HIDE DEF S
<1>2. /\ a \in [1 .. i -> S] /\ b \in [1 .. i + 1 -> S] /\ e \in S
      /\ (\A j \in 1 .. i : a[j] = v[j]) /\ \A j \in 1 .. i + 1 : b[j] = v[j]
  BY <1>1 DEF Prefix
<1> HIDE DEF a, b
<1>3. a \in Seq(S) /\ Len(a) = i /\ b \in Seq(S) /\ Len(b) = i + 1
  BY <1>2
<1> HIDE DEF e
<1>4. /\ Append(a, e) \in Seq(S) /\ Len(Append(a, e)) = i + 1
      /\ \A j \in 1 .. i : Append(a, e)[j] = a[j]
      /\ Append(a, e)[i + 1] = e
  BY <1>2, <1>3, AppendProperties
<1>5. b[i + 1] = e
  BY <1>2 DEF e
<1>6. \A j \in 1 .. i + 1 : Append(a, e)[j] = b[j]
  BY <1>2, <1>4, <1>5
<1>7. Append(a, e) = b
  BY <1>3, <1>4, <1>6, SeqEqual
<1> QED
  BY <1>7 DEF a, b, e

LEMMA FieldsBack ==
  ASSUME NEW n \in Nat, NEW layout \in [1 .. n -> [type: Types, optional: BOOLEAN]],
         NEW v, v = Prefix(v, n), \A i \in 1 .. n : Holds(layout[i], v[i])
  PROVE  LET bytes == FlattenSeq([i \in 1 .. n |-> Put(layout[i], v[i])])
         IN  bytes \in Seq(Byte) /\ ReadAll(layout, bytes) = Only(v, <<>>)
<1> DEFINE puts == [i \in 1 .. n |-> Put(layout[i], v[i])]
           bytes == FlattenSeq(puts)
<1>1. <<>> \in Seq(Byte)
  BY EmptySeq
<1>2. \A i \in 1 .. n : Put(layout[i], v[i]) \in Seq(Byte)
  BY <1>1, FieldBack
<1>3. puts \in [1 .. n -> Seq(Byte)] /\ \A i \in 1 .. n : puts[i] = Put(layout[i], v[i])
  BY <1>2
<1> HIDE DEF puts
<1>4. bytes \in Seq(Byte)
  BY <1>1, <1>3, FlattenRest
<1>5. PICK rest : IsRest(Byte, puts, n, <<>>, 0, rest) /\ rest[0] = Joined(bytes, <<>>)
  BY <1>1, <1>3, FlattenRest
<1> HIDE DEF bytes
<1>6. /\ rest \in [0 .. n -> Seq(Byte)] /\ rest[0] = bytes /\ rest[n] = <<>>
      /\ \A i \in 1 .. n : rest[i - 1] = Joined(puts[i], rest[i])
  BY <1>4, <1>5, JoinedFacts DEF IsRest
<1>7. Len(layout) = n
  OBVIOUS
<1> DEFINE reads == ReadsOf(layout, bytes, n)
<1>8. /\ ReadAll(layout, bytes) = reads[n]
      /\ reads[0] = Only(<<>>, bytes)
      /\ \A i \in 1 .. n : reads[i] = Further(layout[i], reads[i - 1])
  BY <1>7, ReadAllFacts
<1> HIDE DEF reads
<1> DEFINE G == {i \in Nat : i <= n => reads[i] = Only(Prefix(v, i), rest[i])}
<1>9. 0 \in G
  <2>1. Prefix(v, 0) = <<>>
    BY DEF Prefix
  <2> QED
    BY <1>6, <1>8, <2>1
<1>10. ASSUME NEW i \in Nat, i \in G
       PROVE  i + 1 \in G
  <2> SUFFICES ASSUME i + 1 <= n PROVE reads[i + 1] = Only(Prefix(v, i + 1), rest[i + 1])
    OBVIOUS
  <2> DEFINE j == i + 1
  <2>1. j \in 1 .. n /\ j - 1 = i
    OBVIOUS
  <2>2. reads[i] = Only(Prefix(v, i), rest[i])
    BY <1>10
  <2>3. Append(Prefix(v, i), v[j]) = Prefix(v, j)
    BY PrefixFacts
  <2> HIDE DEF j
  <2>4. rest[i] = Joined(Put(layout[j], v[j]), rest[j])
    BY <1>3, <1>6, <2>1
  <2>5. layout[j] \in [type: Types, optional: BOOLEAN] /\ rest[j] \in Seq(Byte)
    BY <1>6, <2>1
  <2>6. Holds(layout[j], v[j])
    BY <2>1
  <2>7. reads[j] = Further(layout[j], reads[i])
    BY <1>8, <2>1
  <2>8. reads[j] = Only(Prefix(v, j), rest[j])
    <3> DEFINE field == layout[j]
               a == v[j]
               t == rest[j]
               p == Prefix(v, i)
    <3>1. /\ field \in [type: Types, optional: BOOLEAN] /\ t \in Seq(Byte)
          /\ Holds(field, a)
          /\ reads[j] = Further(field, Only(p, Joined(Put(field, a), t)))
      BY <2>2, <2>4, <2>5, <2>6, <2>7
    <3> HIDE DEF field, a, t, p
    <3>2. Further(field, Only(p, Joined(Put(field, a), t))) = Only(Append(p, a), t)
      BY <3>1, FurtherOnly
    <3> QED
      BY <2>3, <3>1, <3>2 DEF a, t, p
  <2> QED
    BY <2>8 DEF j
<1> HIDE DEF G
<1>11. n \in G
  BY <1>9, <1>10, Induction
<1>12. reads[n] = Only(v, <<>>)
  BY <1>6, <1>11 DEF G
<1> QED
  BY <1>4, <1>8, <1>12 DEF bytes, puts

-----------------------------------------------------------------------------
(* The layouts of both sides.                                              *)

FieldTypes == [type: Types, optional: BOOLEAN]

LEMMA PlainFields ==
  ASSUME NEW n \in Nat, NEW types \in [1 .. n -> Types]
  PROVE  /\ [i \in DOMAIN types |-> Plain(types[i])] \in [1 .. n -> FieldTypes]
         /\ \A i \in 1 .. n : [j \in DOMAIN types |-> Plain(types[j])][i] = Plain(types[i])
<1>1. \A x \in Types : Plain(x) \in FieldTypes
  BY DEF Plain, FieldTypes
<1>2. DOMAIN types = 1 .. n
  OBVIOUS
<1> QED
  BY <1>1, <1>2

LEMMA LayoutFacts ==
  ASSUME NEW variant
  PROVE  \E n \in Nat : Layout(variant) \in [1 .. n -> FieldTypes]
<1>1. CASE variant = "InitializeCollection"
  <2> DEFINE types == <<"u64", "u64", "string", "u64", "u64">>
  <2>1. types \in [1 .. 5 -> Types]
    BY DEF Types
  <2> HIDE DEF types
  <2>2. [i \in DOMAIN types |-> Plain(types[i])] \in [1 .. 5 -> FieldTypes]
    BY <2>1, PlainFields
  <2>3. Layout(variant) = [i \in DOMAIN types |-> Plain(types[i])]
    BY <1>1 DEF Layout, types
  <2> QED
    BY <2>2, <2>3
<1>2. CASE variant = "MintNft"
  <2> DEFINE types == <<"string", "string", "string", "u16", "kind", "key", "u16", "shares">>
  <2>1. types \in [1 .. 8 -> Types]
    BY DEF Types
  <2> HIDE DEF types
  <2>2. [i \in DOMAIN types |-> Plain(types[i])] \in [1 .. 8 -> FieldTypes]
    BY <2>1, PlainFields
  <2>3. Layout(variant) = [i \in DOMAIN types |-> Plain(types[i])]
    BY <1>2 DEF Layout, types
  <2> QED
    BY <2>2, <2>3
<1>3. CASE variant = "SplitFraction"
  <2> DEFINE types == <<"string", "string", "string", "u16">>
  <2>1. types \in [1 .. 4 -> Types]
    BY DEF Types
  <2> HIDE DEF types
  <2>2. [i \in DOMAIN types |-> Plain(types[i])] \in [1 .. 4 -> FieldTypes]
    BY <2>1, PlainFields
  <2>3. Layout(variant) = [i \in DOMAIN types |-> Plain(types[i])]
    BY <1>3 DEF Layout, types
  <2> QED
    BY <2>2, <2>3
<1>4. CASE variant = "UpdateFractions"
  <2> DEFINE types == <<"shares">>
  <2>1. types \in [1 .. 1 -> Types]
    BY DEF Types
  <2> HIDE DEF types
  <2>2. [i \in DOMAIN types |-> Plain(types[i])] \in [1 .. 1 -> FieldTypes]
    BY <2>1, PlainFields
  <2>3. Layout(variant) = [i \in DOMAIN types |-> Plain(types[i])]
    BY <1>4 DEF Layout, types
  <2> QED
    BY <2>2, <2>3
<1>5. CASE variant = "AutoMint"
  <2> DEFINE types == <<"kind", "key">>
  <2>1. types \in [1 .. 2 -> Types]
    BY DEF Types
  <2> HIDE DEF types
  <2>2. [i \in DOMAIN types |-> Plain(types[i])] \in [1 .. 2 -> FieldTypes]
    BY <2>1, PlainFields
  <2>3. Layout(variant) = [i \in DOMAIN types |-> Plain(types[i])]
    BY <1>5 DEF Layout, types
  <2> QED
    BY <2>2, <2>3
<1>6. CASE variant \in {"Transfer", "TransferCollection"}
  <2> DEFINE types == <<"key">>
  <2>1. types \in [1 .. 1 -> Types]
    BY DEF Types
  <2> HIDE DEF types
  <2>2. [i \in DOMAIN types |-> Plain(types[i])] \in [1 .. 1 -> FieldTypes]
    BY <2>1, PlainFields
  <2>3. Layout(variant) = [i \in DOMAIN types |-> Plain(types[i])]
    BY <1>6 DEF Layout, types
  <2> QED
    BY <2>2, <2>3
<1>7. CASE variant = "UpdateNft"
  <2> DEFINE s == Option("string")
             u == Option("u16")
             k == Option("key")
  <2>1. s \in FieldTypes /\ u \in FieldTypes /\ k \in FieldTypes
    BY DEF Option, FieldTypes, Types
  <2>2. Layout(variant) = <<s, s, s, u, k, u>>
    BY <1>7 DEF Layout
  <2> HIDE DEF s, u, k
  <2>3. <<s, s, s, u, k, u>> \in [1 .. 6 -> FieldTypes]
    BY <2>1
  <2> QED
    BY <2>2, <2>3
<1>8. CASE variant \notin {"InitializeCollection", "MintNft", "SplitFraction",
                           "UpdateFractions", "AutoMint", "Transfer",
                           "TransferCollection", "UpdateNft"}
  <2>1. Layout(variant) = <<>>
    BY <1>8 DEF Layout
  <2>2. <<>> \in [1 .. 0 -> FieldTypes]
    OBVIOUS
  <2> QED
    BY <2>1, <2>2
<1> QED
  BY <1>1, <1>2, <1>3, <1>4, <1>5, <1>6, <1>7, <1>8

LEMMA ClientLayoutFacts ==
  ASSUME NEW variant
  PROVE  \E n \in Nat : ClientLayout(variant) \in [1 .. n -> FieldTypes]
<1>1. CASE variant \in {"Withdraw", "WithdrawTokens"}
  <2>1. Plain("u64") \in FieldTypes
    BY DEF Plain, FieldTypes, Types
  <2>2. ClientLayout(variant) = <<Plain("u64")>>
    BY <1>1 DEF ClientLayout
  <2>3. <<Plain("u64")>> \in [1 .. 1 -> FieldTypes]
    BY <2>1
  <2> QED
    BY <2>2, <2>3
<1>2. CASE variant = "Transfer"
  <2>1. ClientLayout(variant) = <<>>
    BY <1>2 DEF ClientLayout
  <2>2. <<>> \in [1 .. 0 -> FieldTypes]
    OBVIOUS
  <2> QED
    BY <2>1, <2>2
<1>3. CASE variant \notin {"Withdraw", "WithdrawTokens", "Transfer"}
  <2>1. ClientLayout(variant) = Layout(variant)
    BY <1>3 DEF ClientLayout
  <2> QED
    BY <2>1, LayoutFacts
<1> QED
  BY <1>1, <1>2, <1>3

-----------------------------------------------------------------------------
(* A request, written and read.                                            *)

FieldBytes(r) ==
  LET layout == ClientLayout(r.variant)
  IN  FlattenSeq([i \in DOMAIN layout |-> Put(layout[i], r.fields[i])])

LEMMA FieldBytesFacts ==
  ASSUME NEW r, Serializable(r)
  PROVE  FieldBytes(r) \in Seq(Byte)
<1> DEFINE layout == ClientLayout(r.variant)
           puts == [i \in DOMAIN layout |-> Put(layout[i], r.fields[i])]
<1>1. PICK n \in Nat : layout \in [1 .. n -> FieldTypes]
  BY ClientLayoutFacts
<1>2. \A i \in 1 .. n : Holds(layout[i], r.fields[i])
  BY <1>1 DEF Serializable
<1> HIDE DEF layout
<1>3. \A i \in 1 .. n : Put(layout[i], r.fields[i]) \in Seq(Byte)
  BY <1>1, <1>2, FieldBack, EmptySeq DEF FieldTypes
<1>4. puts \in [1 .. n -> Seq(Byte)]
  BY <1>1, <1>3
<1> HIDE DEF puts
<1>5. FlattenSeq(puts) \in Seq(Byte)
  BY <1>4, FlattenRest, EmptySeq
<1> QED
  BY <1>5 DEF layout, puts, FieldBytes

\* The variant the program reads the client's tag as.
ReadAs(variant) == Enum[ClientTag[variant] + 1]

LEMMA ReadAsFacts ==
  /\ ReadAs("InitializeCollection") = "InitializeCollection"
  /\ ReadAs("MintNft") = "MintNft"
  /\ ReadAs("ProxyForward") = "SplitFraction"
  /\ ReadAs("Withdraw") = "ProxyForward"
  /\ ReadAs("WithdrawTokens") = "ClaimFractionShare"
  /\ ReadAs("ClaimCloneRewards") = "ClaimParentShare"
  /\ ReadAs("UpdateFractions") = "Withdraw"
  /\ ReadAs("AutoMint") = "WithdrawTokens"
  /\ ReadAs("Transfer") = "ClaimCloneRewards"
  /\ ReadAs("BurnNft") = "UpdateFractions"
  /\ ReadAs("UpdateNft") = "AutoMint"
  /\ ReadAs("TransferCollection") = "Transfer"
BY DEF ReadAs, Enum, ClientTag

LEMMA TagFacts ==
  \A variant \in DOMAIN ClientTag : ClientTag[variant] \in Byte
<1>1. DOMAIN ClientTag =
        {"InitializeCollection", "MintNft", "ProxyForward", "Withdraw",
         "WithdrawTokens", "ClaimCloneRewards", "UpdateFractions", "AutoMint",
         "Transfer", "BurnNft", "UpdateNft", "TransferCollection"}
  BY DEF ClientTag
<1> QED
  BY <1>1 DEF ClientTag, Byte

\* Reads with nothing left.
Complete(variant, reads) ==
  {[variant |-> variant, fields |-> q[1]] : q \in {p \in reads : p[2] = <<>>}}

LEMMA DecodeFacts ==
  ASSUME NEW r, Serializable(r)
  PROVE  Decode(Encode(r)) =
           Complete(ReadAs(r.variant), ReadAll(Layout(ReadAs(r.variant)), FieldBytes(r)))
<1> DEFINE tag == ClientTag[r.variant]
           bytes == FieldBytes(r)
           data == Encode(r)
           variant == Enum[Head(data) + 1]
<1>1. tag \in Byte
  BY TagFacts DEF Serializable
<1>2. bytes \in Seq(Byte)
  BY FieldBytesFacts
<1>3. data = <<tag>> \o bytes
  BY DEF Encode, FieldBytes
<1>4. Decode(data) = Complete(variant, ReadAll(Layout(variant), Tail(data)))
  BY DEF Decode, Complete
<1> HIDE DEF tag, bytes, data
<1>5. Head(data) = tag /\ Tail(data) = bytes
  <2>1. <<tag>> \in Seq(Byte) /\ Len(<<tag>>) = 1
    BY <1>1
  <2>2. /\ data \in Seq(Byte) /\ Len(data) = 1 + Len(bytes) /\ data[1] = tag
        /\ \A k \in 1 .. Len(bytes) : data[1 + k] = bytes[k]
    BY <1>1, <1>2, <1>3
  <2>3. Len(bytes) \in Nat /\ data # <<>>
    BY <1>2, <2>2, LenProperties, EmptySeq
  <2>4. /\ Tail(data) \in Seq(Byte) /\ Len(Tail(data)) = Len(bytes)
        /\ \A k \in 1 .. Len(Tail(data)) : Tail(data)[k] = data[k + 1]
    BY <2>2, <2>3, HeadTailProperties
  <2>5. Tail(data) = bytes
    BY <1>2, <2>2, <2>4, SeqEqual
  <2> QED
    BY <2>2, <2>5
<1>6. variant = ReadAs(r.variant)
  BY <1>5 DEF ReadAs, tag
<1> QED
  BY <1>4, <1>5, <1>6 DEF bytes, data

\* What the scripts ask for arrives as it is.
LEMMA ScriptsBack ==
  ASSUME NEW r \in ScriptRequests
  PROVE  Decode(Encode(r)) = {r}
<1> DEFINE variant == r.variant
           layout == Layout(variant)
           v == r.fields
           bytes == FieldBytes(r)
<1>1. /\ variant \in {"InitializeCollection", "MintNft"}
      /\ Serializable(r) /\ Whole(r)
  BY WireScriptsAssumption
<1>2. ClientLayout(variant) = layout /\ ReadAs(variant) = variant
  BY <1>1, ReadAsFacts DEF ClientLayout
<1>3. PICK n \in Nat : layout \in [1 .. n -> FieldTypes]
  BY LayoutFacts
<1>4. \A i \in 1 .. n : Holds(layout[i], v[i])
  BY <1>1, <1>2, <1>3 DEF Serializable
<1>5. r = [variant |-> variant, fields |-> [i \in DOMAIN layout |-> v[i]]]
  BY <1>1 DEF Whole
<1>6. v = [i \in DOMAIN layout |-> v[i]]
  BY <1>5
<1>7. bytes = FlattenSeq([i \in DOMAIN layout |-> Put(layout[i], v[i])])
  BY <1>2 DEF FieldBytes
<1>8. r = [variant |-> variant, fields |-> v]
  BY <1>5, <1>6
<1>9. Decode(Encode(r)) = Complete(variant, ReadAll(layout, bytes))
  BY <1>1, <1>2, DecodeFacts
<1> HIDE DEF variant, layout, v, bytes
<1>10. DOMAIN layout = 1 .. n
  BY <1>3
<1>11. v = Prefix(v, n) /\ bytes = FlattenSeq([i \in 1 .. n |-> Put(layout[i], v[i])])
  BY <1>6, <1>7, <1>10 DEF Prefix
<1>12. ReadAll(layout, bytes) = Only(v, <<>>)
  BY <1>3, <1>4, <1>11, FieldsBack DEF FieldTypes
<1>13. Complete(variant, Only(v, <<>>)) = {[variant |-> variant, fields |-> v]}
  <2>1. {p \in {<<v, <<>>>>} : p[2] = <<>>} = {<<v, <<>>>>}
    OBVIOUS
  <2>2. {[variant |-> variant, fields |-> q[1]] : q \in {<<v, <<>>>>}}
          = {[variant |-> variant, fields |-> v]}
    OBVIOUS
  <2> QED
    BY <2>1, <2>2 DEF Complete, Only
<1> QED
  BY <1>8, <1>9, <1>12, <1>13

-----------------------------------------------------------------------------
(* What is refused.                                                        *)

\* A layout without fields refuses any bytes but none.
LEMMA LeftOver ==
  ASSUME NEW variant, NEW layout, Len(layout) = 0, NEW bytes, bytes # <<>>
  PROVE  Complete(variant, ReadAll(layout, bytes)) = {}
<1>1. 0 \in Nat
  OBVIOUS
<1>2. ReadAll(layout, bytes) = Only(<<>>, bytes)
  BY <1>1, ReadAllFacts
<1>3. {p \in {<<<<>>, bytes>>} : p[2] = <<>>} = {}
  OBVIOUS
<1>4. {[variant |-> variant, fields |-> q[1]] : q \in {}} = {}
  OBVIOUS
<1> QED
  BY <1>2, <1>3, <1>4 DEF Complete, Only

\* One whose first field is refused is refused.
LEMMA FirstRefused ==
  ASSUME NEW variant, NEW n \in Nat, n > 0, NEW layout, Len(layout) = n, NEW bytes,
         ReadField(layout[1], bytes) = {}
  PROVE  Complete(variant, ReadAll(layout, bytes)) = {}
<1> DEFINE reads == ReadsOf(layout, bytes, n)
<1>1. /\ ReadAll(layout, bytes) = reads[n]
      /\ reads[0] = Only(<<>>, bytes)
      /\ \A i \in 1 .. n : reads[i] = Further(layout[i], reads[i - 1])
  BY ReadAllFacts
<1> HIDE DEF reads
<1> DEFINE G == {i \in Nat : i < n => reads[i + 1] = {}}
<1>2. 0 \in G
  <2>1. reads[1] = Further(layout[1], reads[0])
    BY <1>1
  <2>2. Further(layout[1], Only(<<>>, bytes)) = {}
    <3> DEFINE After(r) == {<<Append(r[1], q[1]), q[2]>> : q \in ReadField(layout[1], r[2])}
    <3>1. After(<<<<>>, bytes>>) = {}
      OBVIOUS
    <3>2. Further(layout[1], Only(<<>>, bytes)) = UNION {After(r) : r \in {<<<<>>, bytes>>}}
      BY DEF Further, Only
    <3> HIDE DEF After
    <3> QED
      BY <3>1, <3>2
  <2> QED
    BY <1>1, <2>1, <2>2
<1>3. ASSUME NEW i \in Nat, i \in G
      PROVE  i + 1 \in G
  <2> SUFFICES ASSUME i + 1 < n PROVE reads[(i + 1) + 1] = {}
    OBVIOUS
  <2>1. reads[i + 1] = {}
    BY <1>3
  <2>2. reads[(i + 1) + 1] = Further(layout[(i + 1) + 1], reads[i + 1])
    <3>1. (i + 1) + 1 \in 1 .. n /\ ((i + 1) + 1) - 1 = i + 1
      OBVIOUS
    <3> QED
      BY <1>1, <3>1
  <2>3. \A field : Further(field, {}) = {}
    BY DEF Further
  <2> QED
    BY <2>1, <2>2, <2>3
<1> HIDE DEF G
<1>4. n - 1 \in G
  <2>1. n - 1 \in Nat
    OBVIOUS
  <2> QED
    BY <1>2, <1>3, <2>1, Induction
<1>5. reads[n] = {}
  <2>1. n - 1 < n /\ (n - 1) + 1 = n
    OBVIOUS
  <2> QED
    BY <1>4, <2>1 DEF G
<1> QED
  BY <1>1, <1>5 DEF Complete

\* Nothing can be read of no bytes.
LEMMA NothingToRead ==
  ASSUME NEW type \in {"string", "shares"}
  PROVE  ReadField(Plain(type), <<>>) = {}
<1>1. ReadNumber(4, <<>>) = {}
  <2>1. Len(<<>>) = 0
    OBVIOUS
  <2>2. Bytes(4, <<>>) = {}
    BY <2>1 DEF Bytes
  <2> QED
    BY <2>2 DEF ReadNumber
<1>2. ReadType("string", <<>>) = UNION {Bytes(r[1], r[2]) : r \in ReadNumber(4, <<>>)}
  BY DEF ReadType
<1>3. ReadType("shares", <<>>) = ListsIn(ReadNumber(4, <<>>), 0)
  BY DEF ReadType, ListsIn
<1>4. ListsIn({}, 0) = {}
  BY DEF ListsIn
<1>5. ReadType("string", <<>>) = {}
  BY <1>1, <1>2
<1>6. ReadType("shares", <<>>) = {}
  BY <1>1, <1>3, <1>4
<1>7. ReadField(Plain(type), <<>>) = ReadType(type, <<>>)
  BY DEF ReadField, Plain
<1> QED
  BY <1>5, <1>6, <1>7

LEMMA NothingWritten ==
  ASSUME NEW r, r.variant \in {"ProxyForward", "BurnNft"}
  PROVE  FieldBytes(r) = <<>>
<1>1. ClientLayout(r.variant) = <<>>
  BY DEF ClientLayout, Layout
<1>2. FlattenSeq(<<>>) = <<>>
  BY DEF FlattenSeq
<1>3. FieldBytes(r) = FlattenSeq([i \in DOMAIN <<>> |-> Put(<<>>[i], r.fields[i])])
  BY <1>1 DEF FieldBytes
<1>4. [i \in DOMAIN <<>> |-> Put(<<>>[i], r.fields[i])] = <<>>
  OBVIOUS
<1> QED
  BY <1>2, <1>3, <1>4

\* Every type but a text leaves bytes of its own.
LEMMA TypeWritten ==
  ASSUME NEW type \in {"u64", "kind", "shares"}, NEW v, IsA(type, v)
  PROVE  PutType(type, v) # <<>>
<1>1. CASE type = "u64"
  <2>1. PutType(type, v) = LittleEndian(v, 8) /\ v \in Nat
    BY <1>1 DEF PutType, IsA, FitsIn
  <2>2. Len(LittleEndian(v, 8)) = 8
    BY <2>1, WidthFacts
  <2> QED
    BY <2>1, <2>2, EmptySeq
<1>2. CASE type = "kind"
  BY <1>2 DEF PutType
<1>3. CASE type = "shares"
  <2> SUFFICES ASSUME PutType("shares", v) = <<>> PROVE FALSE
    BY <1>3
  <2>1. <<>> \in Seq(Byte) /\ IsA("shares", v)
    BY <1>3, EmptySeq
  <2>2. Joined(<<>>, <<>>) = <<>>
    BY <2>1, JoinedFacts
  <2>3. ReadType("shares", <<>>) = Only(v, <<>>)
    BY <2>1, <2>2, SharesType
  <2>4. ReadField(Plain("shares"), <<>>) = ReadType("shares", <<>>)
    BY DEF ReadField, Plain
  <2>5. ReadField(Plain("shares"), <<>>) = {}
    BY NothingToRead
  <2> QED
    BY <2>3, <2>4, <2>5 DEF Only
<1> QED
  BY <1>1, <1>2, <1>3

StartsWith(layout, type) ==
  \E n \in Nat : n > 0 /\ layout \in [1 .. n -> FieldTypes] /\ layout[1] = Plain(type)

LEMMA FirstFields ==
  /\ StartsWith(ClientLayout("Withdraw"), "u64")
  /\ StartsWith(ClientLayout("WithdrawTokens"), "u64")
  /\ StartsWith(ClientLayout("UpdateFractions"), "shares")
  /\ StartsWith(ClientLayout("AutoMint"), "kind")
  /\ StartsWith(Layout("SplitFraction"), "string")
  /\ StartsWith(Layout("UpdateFractions"), "shares")
<1>1. ASSUME NEW n \in Nat, n > 0, NEW types \in [1 .. n -> Types]
      PROVE  StartsWith([i \in DOMAIN types |-> Plain(types[i])], types[1])
  <2> DEFINE layout == [i \in DOMAIN types |-> Plain(types[i])]
  <2>1. layout \in [1 .. n -> FieldTypes] /\ \A i \in 1 .. n : layout[i] = Plain(types[i])
    BY PlainFields
  <2> HIDE DEF layout
  <2>2. StartsWith(layout, types[1])
    BY <1>1, <2>1 DEF StartsWith
  <2> QED
    BY <2>2 DEF layout
<1>2. ClientLayout("Withdraw") = <<Plain("u64")>> /\ ClientLayout("WithdrawTokens") = <<Plain("u64")>>
  BY DEF ClientLayout
<1>3. StartsWith(<<Plain("u64")>>, "u64")
  <2>1. Plain("u64") \in FieldTypes
    BY DEF Plain, FieldTypes, Types
  <2>2. 1 \in Nat /\ 1 > 0 /\ <<Plain("u64")>> \in [1 .. 1 -> FieldTypes]
    BY <2>1
  <2>3. <<Plain("u64")>>[1] = Plain("u64")
    OBVIOUS
  <2> DEFINE layout == <<Plain("u64")>>
  <2>4. layout \in [1 .. 1 -> FieldTypes] /\ layout[1] = Plain("u64")
    BY <2>2, <2>3
  <2> HIDE DEF layout
  <2>5. StartsWith(layout, "u64")
    BY <2>2, <2>4 DEF StartsWith
  <2> QED
    BY <2>5 DEF layout
<1>4. /\ ClientLayout("UpdateFractions") = Layout("UpdateFractions")
      /\ ClientLayout("AutoMint") = Layout("AutoMint")
  BY DEF ClientLayout
<1>5. StartsWith(Layout("UpdateFractions"), "shares")
  <2> DEFINE types == <<"shares">>
  <2>1. types \in [1 .. 1 -> Types] /\ types[1] = "shares"
    BY DEF Types
  <2>2. Layout("UpdateFractions") = [i \in DOMAIN types |-> Plain(types[i])]
    BY DEF Layout
  <2>3. 1 \in Nat /\ 1 > 0
    OBVIOUS
  <2> HIDE DEF types
  <2> QED
    BY <1>1, <2>1, <2>2, <2>3
<1>6. StartsWith(Layout("AutoMint"), "kind")
  <2> DEFINE types == <<"kind", "key">>
  <2>1. types \in [1 .. 2 -> Types] /\ types[1] = "kind"
    BY DEF Types
  <2>2. Layout("AutoMint") = [i \in DOMAIN types |-> Plain(types[i])]
    BY DEF Layout
  <2>3. 2 \in Nat /\ 2 > 0
    OBVIOUS
  <2> HIDE DEF types
  <2> QED
    BY <1>1, <2>1, <2>2, <2>3
<1>7. StartsWith(Layout("SplitFraction"), "string")
  <2> DEFINE types == <<"string", "string", "string", "u16">>
  <2>1. types \in [1 .. 4 -> Types] /\ types[1] = "string"
    BY DEF Types
  <2>2. Layout("SplitFraction") = [i \in DOMAIN types |-> Plain(types[i])]
    BY DEF Layout
  <2>3. 4 \in Nat /\ 4 > 0
    OBVIOUS
  <2> HIDE DEF types
  <2> QED
    BY <1>1, <2>1, <2>2, <2>3
<1> QED
  BY <1>2, <1>3, <1>4, <1>5, <1>6, <1>7

\* What begins with such a type is not empty.
LEMMA SomethingWritten ==
  ASSUME NEW r, Serializable(r), NEW type \in {"u64", "kind", "shares"},
         StartsWith(ClientLayout(r.variant), type)
  PROVE  FieldBytes(r) # <<>>
<1> DEFINE layout == ClientLayout(r.variant)
           v == r.fields
           puts == [i \in DOMAIN layout |-> Put(layout[i], v[i])]
<1>1. PICK n \in Nat : n > 0 /\ layout \in [1 .. n -> FieldTypes] /\ layout[1] = Plain(type)
  BY DEF StartsWith
<1>2. \A i \in 1 .. n : Holds(layout[i], v[i])
  BY <1>1 DEF Serializable
<1>3. FieldBytes(r) = FlattenSeq(puts)
  BY DEF FieldBytes
<1> HIDE DEF layout, v
<1>4. <<>> \in Seq(Byte)
  BY EmptySeq
<1>5. \A i \in 1 .. n : Put(layout[i], v[i]) \in Seq(Byte)
  BY <1>1, <1>2, <1>4, FieldBack DEF FieldTypes
<1>6. puts \in [1 .. n -> Seq(Byte)] /\ puts[1] = Put(layout[1], v[1])
  BY <1>1, <1>5
<1>7. Put(layout[1], v[1]) = PutType(type, v[1]) /\ IsA(type, v[1])
  BY <1>1, <1>2 DEF Put, Holds, Plain
<1>8. puts[1] # <<>>
  BY <1>6, <1>7, TypeWritten
<1> HIDE DEF puts
<1>9. FlattenSeq(puts) \in Seq(Byte)
  BY <1>4, <1>6, FlattenRest
<1>10. PICK rest : IsRest(Byte, puts, n, <<>>, 0, rest) /\ rest[0] = Joined(FlattenSeq(puts), <<>>)
  BY <1>4, <1>6, FlattenRest
<1>11. rest[0] = FlattenSeq(puts)
  BY <1>9, <1>10, JoinedFacts
<1>12. rest[0] = Joined(puts[1], rest[1]) /\ rest[1] \in Seq(Byte)
  BY <1>1, <1>10 DEF IsRest
<1>13. puts[1] \in Seq(Byte)
  BY <1>1, <1>6
<1>14. Joined(puts[1], rest[1]) # <<>>
  BY <1>8, <1>12, <1>13, ConcatEqualIffEmpty DEF Joined
<1> QED
  BY <1>3, <1>11, <1>12, <1>14

\* What a request may be read as that it does not name.
Misread ==
  {<<"ClaimCloneRewards", "ClaimParentShare">>, <<"Transfer", "ClaimCloneRewards">>,
   <<"UpdateNft", "AutoMint">>, <<"TransferCollection", "Transfer">>}

LEMMA MisreadsBack ==
  ASSUME NEW r, Serializable(r), NEW d \in Decode(Encode(r)), d.variant # r.variant
  PROVE  <<r.variant, d.variant>> \in Misread
<1> DEFINE variant == ReadAs(r.variant)
           layout == Layout(variant)
           bytes == FieldBytes(r)
<1>1. d \in Complete(variant, ReadAll(layout, bytes))
  BY DecodeFacts
<1>2. d.variant = variant
  BY <1>1 DEF Complete
<1>3. r.variant \in {"InitializeCollection", "MintNft", "ProxyForward", "Withdraw",
                     "WithdrawTokens", "ClaimCloneRewards", "UpdateFractions", "AutoMint",
                     "Transfer", "BurnNft", "UpdateNft", "TransferCollection"}
  BY DEF Serializable, ClientTag
<1>4. CASE r.variant \in {"InitializeCollection", "MintNft"}
  BY <1>2, <1>4, ReadAsFacts
<1>5. CASE r.variant \in {"ClaimCloneRewards", "Transfer", "UpdateNft", "TransferCollection"}
  BY <1>2, <1>5, ReadAsFacts DEF Misread
<1>6. CASE r.variant \in {"ProxyForward", "BurnNft"}
  <2>1. bytes = <<>>
    BY <1>6, NothingWritten
  <2>2. PICK type \in {"string", "shares"} : StartsWith(layout, type)
    BY <1>6, ReadAsFacts, FirstFields
  <2> HIDE DEF variant, layout, bytes
  <2>3. PICK n \in Nat : n > 0 /\ layout \in [1 .. n -> FieldTypes] /\ layout[1] = Plain(type)
    BY <2>2 DEF StartsWith
  <2>4. Len(layout) = n
    BY <2>3
  <2>5. ReadField(layout[1], bytes) = {}
    BY <2>1, <2>3, NothingToRead
  <2>6. Complete(variant, ReadAll(layout, bytes)) = {}
    BY <2>3, <2>4, <2>5, FirstRefused
  <2> QED
    BY <1>1, <2>6
<1>7. CASE r.variant \in {"Withdraw", "WithdrawTokens", "UpdateFractions", "AutoMint"}
  <2>1. PICK type \in {"u64", "kind", "shares"} : StartsWith(ClientLayout(r.variant), type)
    BY <1>7, FirstFields
  <2>2. bytes # <<>>
    BY <2>1, SomethingWritten
  <2>3. variant \in {"ProxyForward", "ClaimFractionShare", "Withdraw", "WithdrawTokens"}
    BY <1>7, ReadAsFacts
  <2> HIDE DEF variant
  <2>4. layout = <<>>
    BY <2>3 DEF Layout
  <2>5. Len(layout) = 0
    BY <2>4
  <2> HIDE DEF layout, bytes
  <2>6. Complete(variant, ReadAll(layout, bytes)) = {}
    BY <2>2, <2>5, LeftOver
  <2> QED
    BY <1>1, <2>6
<1> QED
  BY <1>3, <1>4, <1>5, <1>6, <1>7

-----------------------------------------------------------------------------
(* The theorems.                                                           *)

\* What the program answers is what it decodes of the request's own bytes.
Relayed ==
  /\ request \in ScriptRequests \cup OtherRequests
  /\ wire \in {<<>>, Encode(Filled(request))}
  /\ answered => taken = Decode(Encode(Filled(request)))

LEMMA AlwaysRelayed == Spec => []Relayed
<1>1. Init => Relayed
  BY DEF Init, Relayed
<1>2. Relayed /\ [Next]_vars => Relayed'
  <2> SUFFICES ASSUME Relayed, [Next]_vars PROVE Relayed'
    OBVIOUS
  <2> USE DEF Relayed
  <2>1. CASE Serialize
    BY <2>1 DEF Serialize
  <2>2. CASE Process
    BY <2>2 DEF Process
  <2>3. CASE UNCHANGED vars
    BY <2>3 DEF vars
  <2> QED
    BY <2>1, <2>2, <2>3 DEF Next
<1> QED
  BY <1>1, <1>2, PTL DEF Spec

(***************************************************************************)
(* Whatever collection is created and whatever NFT is minted with the      *)
(* scripts, its texts, numbers, kind, target and list of any length, the   *)
(* handler gets every field as the script asked for it, and nothing else.  *)
(***************************************************************************)
THEOREM ScriptsArrive == Spec => []ScriptsUnderstood
<1>1. \A r \in ScriptRequests : Filled(r) = r
  BY WireScriptsAssumption DEF Filled
<1>2. Relayed => ScriptsUnderstood
  BY <1>1, ScriptsBack DEF Relayed, ScriptsUnderstood
<1> QED
  BY <1>2, AlwaysRelayed, PTL

(***************************************************************************)
(* Whatever else the serializer is asked for, with fields of any value:    *)
(* the handler that runs is the one that was named, one of four others, or *)
(* none.                                                                   *)
(***************************************************************************)
THEOREM MisreadsBounded == Spec => []MisreadsKnown
<1>1. Relayed => MisreadsKnown
  <2> SUFFICES ASSUME Relayed, answered, NEW d \in taken, d.variant # request.variant
               PROVE  <<request.variant, d.variant>> \in Misread
    BY DEF MisreadsKnown, Misread
  <2> DEFINE r == Filled(request)
  <2>1. r.variant = request.variant
    BY DEF Filled
  <2>2. Serializable(r)
    <3>1. CASE request \in ScriptRequests
      <4>1. r = request
        BY <3>1, WireScriptsAssumption DEF Filled
      <4> QED
        BY <3>1, <4>1, WireScriptsAssumption
    <3>2. CASE request \in OtherRequests
      BY <3>2, WireOthersAssumption
    <3> QED
      BY <3>1, <3>2 DEF Relayed
  <2>3. d \in Decode(Encode(r))
    BY DEF Relayed
  <2> HIDE DEF r
  <2> QED
    BY <2>1, <2>2, <2>3, MisreadsBack
<1> QED
  BY <1>1, AlwaysRelayed, PTL
=============================================================================
