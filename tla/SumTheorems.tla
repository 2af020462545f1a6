---------------------------- MODULE SumTheorems -----------------------------
(***************************************************************************)
(* Facts about SumFunctionOnSet, the sum of a function's values over a     *)
(* finite set, by induction over the set's subsets.  Induction is stated   *)
(* with a set of subsets where one usually has a predicate, so that it can *)
(* be cited: SubsetInduction.                                              *)
(***************************************************************************)
EXTENDS Integers, FiniteSets, Functions, FiniteSetTheorems, WellFoundedInduction, TLAPS

-----------------------------------------------------------------------------
(* Induction.                                                              *)

\* A set of subsets that contains each subset all of whose proper subsets it
\* contains, contains them all.
LEMMA SubsetInduction ==
  ASSUME NEW S, IsFiniteSet(S), NEW G,
         \A T \in SUBSET S : (\A U \in SUBSET T : U # T => U \in G) => T \in G
  PROVE  \A T \in SUBSET S : T \in G
<1> DEFINE Bad == {T \in SUBSET S : T \notin G}
<1>1. SUFFICES ASSUME Bad # {} PROVE FALSE
  OBVIOUS
<1>2. IsWellFoundedOn(StrictSubsetOrdering(S), SUBSET S)
  BY FS_StrictSubsetOrderingWellFounded, FS_FiniteSubsetsOfFinite
<1>3. PICK T \in Bad : \A U \in Bad : <<U, T>> \notin StrictSubsetOrdering(S)
  <2>1. Bad \subseteq SUBSET S
    OBVIOUS
  <2> HIDE DEF Bad
  <2> QED
    BY <1>1, <1>2, <2>1, WFMin
<1>4. ASSUME NEW U \in SUBSET T, U # T
      PROVE  U \in G
  <2>1. U \in SUBSET S
    OBVIOUS
  <2>2. <<U, T>> \in StrictSubsetOrdering(S)
    BY <1>4, <2>1 DEF StrictSubsetOrdering
  <2> QED
    BY <1>3, <2>1, <2>2
<1> QED
  BY <1>4

-----------------------------------------------------------------------------
(* The recursion behind SumFunctionOnSet.                                  *)

Chosen(T) == CHOOSE x \in T : TRUE

\* The sums of f over the subsets of S, each from the sum over one less.
Sums(f, S, g) ==
  g = [T \in SUBSET S |->
         IF T = {} THEN 0 ELSE f[Chosen(T)] + g[T \ {Chosen(T)}]]

LEMMA SumIsLast ==
  ASSUME NEW f, NEW S
  PROVE  SumFunctionOnSet(f, S) = (CHOOSE g : Sums(f, S, g))[S]
BY DEF SumFunctionOnSet, FoldFunctionOnSet, MapThenFoldSet, Sums, Chosen

LEMMA ChosenIsIn ==
  ASSUME NEW T, T # {}
  PROVE  Chosen(T) \in T
BY DEF Chosen

\* Two tables of sums agree where both are defined.
LEMMA SumsAgree ==
  ASSUME NEW f, NEW S, NEW R, IsFiniteSet(S), S \subseteq R,
         NEW g, Sums(f, S, g), NEW h, Sums(f, R, h)
  PROVE  \A T \in SUBSET S : g[T] = h[T]
<1> DEFINE G == {T \in SUBSET S : g[T] = h[T]}
<1>1. ASSUME NEW T \in SUBSET S, \A U \in SUBSET T : U # T => U \in G
      PROVE  T \in G
  <2>1. CASE T = {}
    BY <2>1 DEF Sums
  <2>2. CASE T # {}
    <3> DEFINE U == T \ {Chosen(T)}
    <3>1. U \in SUBSET T /\ U # T
      BY <2>2, ChosenIsIn
    <3>2. g[U] = h[U]
      BY <1>1, <3>1
    <3>3. g[T] = f[Chosen(T)] + g[U]
      BY <2>2 DEF Sums
    <3>4. h[T] = f[Chosen(T)] + h[U]
      BY <2>2 DEF Sums
    <3> QED
      BY <3>2, <3>3, <3>4
  <2> QED
    BY <2>1, <2>2
<1> HIDE DEF G
<1>2. \A T \in SUBSET S : T \in G
  BY <1>1, SubsetInduction
<1> QED
  BY <1>2 DEF G

\* There is a table of sums for each finite set.
LEMMA SumsExist ==
  ASSUME NEW f, NEW S, IsFiniteSet(S)
  PROVE  \E g : Sums(f, S, g)
<1> DEFINE G == {T \in SUBSET S : \E g : Sums(f, T, g)}
           Table(T) == CHOOSE g : Sums(f, T, g)
<1>1. ASSUME NEW T \in SUBSET S, \A U \in SUBSET T : U # T => U \in G
      PROVE  T \in G
  <2> DEFINE Rest(U) == U \ {Chosen(U)}
             t == [U \in SUBSET T |->
                     IF U = {} THEN 0 ELSE f[Chosen(U)] + Table(Rest(U))[Rest(U)]]
  <2>1. ASSUME NEW U \in SUBSET T, U # T
        PROVE  Sums(f, U, Table(U))
    BY <1>1, <2>1
  <2>2. ASSUME NEW U \in SUBSET T, U # T
        PROVE  t[U] = Table(U)[U]
    <3>1. CASE U = {}
      <4>1. Sums(f, U, Table(U))
        BY <2>1, <2>2
      <4>2. Table(U)[U] = 0
        <5> HIDE DEF Table
        <5> QED
          BY <3>1, <4>1 DEF Sums
      <4> QED
        BY <3>1, <4>2
    <3>2. CASE U # {}
      <4>1. Rest(U) \in SUBSET U /\ Rest(U) \in SUBSET T /\ Rest(U) # T
        BY <2>2, <3>2, ChosenIsIn
      <4>2. Sums(f, U, Table(U)) /\ Sums(f, Rest(U), Table(Rest(U)))
        BY <2>1, <2>2, <4>1
      <4>3. IsFiniteSet(Rest(U))
        BY <4>1, FS_Subset
      <4>4. Table(Rest(U))[Rest(U)] = Table(U)[Rest(U)]
        <5> HIDE DEF Table, Rest
        <5> QED
          BY <4>1, <4>2, <4>3, SumsAgree
      <4>5. Table(U)[U] = f[Chosen(U)] + Table(U)[Rest(U)]
        BY <3>2, <4>2 DEF Sums
      <4> QED
        BY <3>2, <4>4, <4>5
    <3> QED
      BY <3>1, <3>2
  <2>3. Sums(f, T, t)
    <3>1. ASSUME NEW U \in SUBSET T, U # {}
          PROVE  t[U] = f[Chosen(U)] + t[Rest(U)]
      <4>1. Rest(U) \in SUBSET T /\ Rest(U) # T
        BY <3>1, ChosenIsIn
      <4>2. t[Rest(U)] = Table(Rest(U))[Rest(U)]
        BY <2>2, <4>1
      <4> QED
        BY <3>1, <4>2
    <3>2. {} \in SUBSET T /\ t[{}] = 0
      OBVIOUS
    <3>3. t = [U \in SUBSET T |-> t[U]]
      OBVIOUS
    <3> HIDE DEF t, Rest, Table
    <3>4. \A U \in SUBSET T : t[U] = IF U = {} THEN 0 ELSE f[Chosen(U)] + t[Rest(U)]
      BY <3>1, <3>2
    <3>5. t = [U \in SUBSET T |-> IF U = {} THEN 0 ELSE f[Chosen(U)] + t[Rest(U)]]
      BY <3>3, <3>4
    <3> QED
      BY <3>5 DEF Sums, Rest
  <2> QED
    BY <2>3
<1> HIDE DEF G
<1>2. S \in G
  BY <1>1, SubsetInduction
<1> QED
  BY <1>2 DEF G

\* The sum over S for the whole of its table.
LEMMA SumOfTable ==
  ASSUME NEW f, NEW S, IsFiniteSet(S), NEW T \in SUBSET S, NEW g, Sums(f, S, g)
  PROVE  SumFunctionOnSet(f, T) = g[T]
<1> DEFINE t == CHOOSE h : Sums(f, T, h)
<1>1. IsFiniteSet(T)
  BY FS_Subset
<1>2. Sums(f, T, t)
  BY <1>1, SumsExist
<1> HIDE DEF t
<1>3. t[T] = g[T]
  BY <1>1, <1>2, SumsAgree
<1> QED
  BY <1>3, SumIsLast DEF t

-----------------------------------------------------------------------------
(* What a sum is.                                                          *)

LEMMA SumEmpty ==
  ASSUME NEW f
  PROVE  SumFunctionOnSet(f, {}) = 0
<1>1. IsFiniteSet({})
  BY FS_EmptySet
<1>2. PICK g : Sums(f, {}, g)
  BY <1>1, SumsExist
<1>3. g[{}] = 0
  BY <1>2 DEF Sums
<1> QED
  BY <1>1, <1>2, <1>3, SumOfTable

LEMMA SumChosen ==
  ASSUME NEW f, NEW S, IsFiniteSet(S), S # {}
  PROVE  SumFunctionOnSet(f, S)
           = f[Chosen(S)] + SumFunctionOnSet(f, S \ {Chosen(S)})
<1>1. PICK g : Sums(f, S, g)
  BY SumsExist
<1>2. S \ {Chosen(S)} \in SUBSET S
  OBVIOUS
<1>3. g[S] = f[Chosen(S)] + g[S \ {Chosen(S)}]
  BY <1>1 DEF Sums
<1>4. SumFunctionOnSet(f, S) = g[S]
  BY <1>1, SumOfTable
<1>5. SumFunctionOnSet(f, S \ {Chosen(S)}) = g[S \ {Chosen(S)}]
  BY <1>1, <1>2, SumOfTable
<1> QED
  BY <1>3, <1>4, <1>5

\* A sum of integers is one, of naturals a natural.
LEMMA SumInt ==
  ASSUME NEW S, IsFiniteSet(S), NEW f, \A x \in S : f[x] \in Int
  PROVE  SumFunctionOnSet(f, S) \in Int
<1> DEFINE G == {T \in SUBSET S : SumFunctionOnSet(f, T) \in Int}
<1>1. ASSUME NEW T \in SUBSET S, \A U \in SUBSET T : U # T => U \in G
      PROVE  T \in G
  <2>1. CASE T = {}
    BY <2>1, SumEmpty
  <2>2. CASE T # {}
    <3>1. Chosen(T) \in T
      BY <2>2, ChosenIsIn
    <3>2. SumFunctionOnSet(f, T \ {Chosen(T)}) \in Int
      BY <1>1, <3>1
    <3>3. IsFiniteSet(T)
      BY FS_Subset
    <3> QED
      BY <2>2, <3>1, <3>2, <3>3, SumChosen
  <2> QED
    BY <2>1, <2>2
<1> HIDE DEF G
<1>2. S \in G
  BY <1>1, SubsetInduction
<1> QED
  BY <1>2 DEF G

\* Any element may be taken out first.
LEMMA SumRemove ==
  ASSUME NEW S, IsFiniteSet(S), NEW f, \A x \in S : f[x] \in Int, NEW y \in S
  PROVE  SumFunctionOnSet(f, S) = f[y] + SumFunctionOnSet(f, S \ {y})
<1> DEFINE Sum(T) == SumFunctionOnSet(f, T)
           G == {T \in SUBSET S : \A z \in T : Sum(T) = f[z] + Sum(T \ {z})}
<1>0. ASSUME NEW T \in SUBSET S
      PROVE  IsFiniteSet(T) /\ Sum(T) \in Int
  BY FS_Subset, SumInt
<1>1. ASSUME NEW T \in SUBSET S, \A U \in SUBSET T : U # T => U \in G
      PROVE  T \in G
  <2> SUFFICES ASSUME NEW z \in T PROVE Sum(T) = f[z] + Sum(T \ {z})
    OBVIOUS
  <2> DEFINE x == Chosen(T)
  <2>1. x \in T
    BY ChosenIsIn
  <2>2. Sum(T) = f[x] + Sum(T \ {x})
    BY <1>0, SumChosen
  <2>3. CASE z = x
    BY <2>2, <2>3
  <2>4. CASE z # x
    <3>1. Sum(T \ {x}) = f[z] + Sum((T \ {x}) \ {z})
      BY <1>1, <2>1, <2>4
    <3>2. Sum(T \ {z}) = f[x] + Sum((T \ {z}) \ {x})
      BY <1>1, <2>1, <2>4
    <3>3. (T \ {x}) \ {z} = (T \ {z}) \ {x}
      OBVIOUS
    <3>4. f[x] \in Int /\ f[z] \in Int /\ Sum((T \ {z}) \ {x}) \in Int
      BY <1>0, <2>1
    <3>5. Sum(T) = f[x] + (f[z] + Sum((T \ {z}) \ {x}))
      BY <2>2, <3>1, <3>3
    <3> HIDE DEF x
    <3> QED
      BY <3>2, <3>4, <3>5
  <2> QED
    BY <2>3, <2>4
<1> HIDE DEF G
<1>2. S \in G
  BY <1>1, SubsetInduction
<1> QED
  BY <1>2 DEF G

LEMMA SumAdd ==
  ASSUME NEW S, IsFiniteSet(S), NEW y, y \notin S,
         NEW f, \A x \in S \cup {y} : f[x] \in Int
  PROVE  SumFunctionOnSet(f, S \cup {y}) = f[y] + SumFunctionOnSet(f, S)
<1>1. IsFiniteSet(S \cup {y})
  BY FS_AddElement
<1>2. (S \cup {y}) \ {y} = S
  OBVIOUS
<1>3. SumFunctionOnSet(f, S \cup {y})
        = f[y] + SumFunctionOnSet(f, (S \cup {y}) \ {y})
  BY <1>1, SumRemove
<1> QED
  BY <1>2, <1>3

\* Only the values on the set count.
LEMMA SumSame ==
  ASSUME NEW S, IsFiniteSet(S), NEW f, NEW g, \A x \in S : f[x] = g[x]
  PROVE  SumFunctionOnSet(f, S) = SumFunctionOnSet(g, S)
<1> DEFINE G == {T \in SUBSET S : SumFunctionOnSet(f, T) = SumFunctionOnSet(g, T)}
<1>1. ASSUME NEW T \in SUBSET S, \A U \in SUBSET T : U # T => U \in G
      PROVE  T \in G
  <2>1. CASE T = {}
    BY <2>1, SumEmpty
  <2>2. CASE T # {}
    <3>1. Chosen(T) \in T
      BY <2>2, ChosenIsIn
    <3>2. SumFunctionOnSet(f, T \ {Chosen(T)}) = SumFunctionOnSet(g, T \ {Chosen(T)})
      BY <1>1, <3>1
    <3>3. IsFiniteSet(T)
      BY FS_Subset
    <3> QED
      BY <2>2, <3>1, <3>2, <3>3, SumChosen
  <2> QED
    BY <2>1, <2>2
<1> HIDE DEF G
<1>2. S \in G
  BY <1>1, SubsetInduction
<1> QED
  BY <1>2 DEF G

\* A change of one value changes the sum by as much.
LEMMA SumChange ==
  ASSUME NEW S, IsFiniteSet(S), NEW y \in S, NEW f, NEW g,
         \A x \in S : f[x] \in Int /\ g[x] \in Int,
         \A x \in S \ {y} : f[x] = g[x]
  PROVE  SumFunctionOnSet(g, S) = SumFunctionOnSet(f, S) + (g[y] - f[y])
<1> DEFINE R == S \ {y}
<1>1. IsFiniteSet(R)
  BY FS_RemoveElement
<1>2. SumFunctionOnSet(f, R) = SumFunctionOnSet(g, R)
  BY <1>1, SumSame
<1>3. SumFunctionOnSet(f, R) \in Int
  BY <1>1, SumInt
<1>4. SumFunctionOnSet(f, S) = f[y] + SumFunctionOnSet(f, R)
  BY SumRemove
<1>5. SumFunctionOnSet(g, S) = g[y] + SumFunctionOnSet(g, R)
  BY SumRemove
<1> QED
  BY <1>2, <1>3, <1>4, <1>5

LEMMA SumConstant ==
  ASSUME NEW S, IsFiniteSet(S), NEW c \in Int, NEW f, \A x \in S : f[x] = c
  PROVE  SumFunctionOnSet(f, S) = Cardinality(S) * c
<1> DEFINE G == {T \in SUBSET S : SumFunctionOnSet(f, T) = Cardinality(T) * c}
<1>1. ASSUME NEW T \in SUBSET S, \A U \in SUBSET T : U # T => U \in G
      PROVE  T \in G
  <2>1. CASE T = {}
    BY <2>1, SumEmpty, FS_EmptySet
  <2>2. CASE T # {}
    <3> DEFINE U == T \ {Chosen(T)}
               n == Cardinality(U)
    <3>1. Chosen(T) \in T /\ IsFiniteSet(T)
      BY <2>2, ChosenIsIn, FS_Subset
    <3>2. SumFunctionOnSet(f, U) = n * c
      BY <1>1, <3>1
    <3>3. SumFunctionOnSet(f, T) = c + SumFunctionOnSet(f, U)
      BY <2>2, <3>1, SumChosen
    <3>4. n \in Nat /\ Cardinality(T) = n + 1
      <4>1. IsFiniteSet(U) /\ n = Cardinality(T) - 1
        BY <3>1, FS_RemoveElement
      <4>2. Cardinality(T) \in Nat /\ n \in Nat
        BY <3>1, <4>1, FS_CardinalityType
      <4> QED
        BY <4>1, <4>2
    <3> HIDE DEF n
    <3>5. (n + 1) * c = c + n * c
      BY <3>4
    <3> QED
      BY <3>2, <3>3, <3>4, <3>5 DEF n
  <2> QED
    BY <2>1, <2>2
<1> HIDE DEF G
<1>2. S \in G
  BY <1>1, SubsetInduction
<1> QED
  BY <1>2 DEF G

\* A sum of parts, each rounded down, is no more than the part of the sum.
LEMMA SumOfParts ==
  ASSUME NEW S, IsFiniteSet(S), NEW t \in Nat, NEW d \in Nat,
         NEW f, NEW g, \A x \in S : f[x] \in Int /\ g[x] \in Int,
         \A x \in S : d * g[x] <= t * f[x]
  PROVE  d * SumFunctionOnSet(g, S) <= t * SumFunctionOnSet(f, S)
<1> DEFINE G == {T \in SUBSET S :
                   d * SumFunctionOnSet(g, T) <= t * SumFunctionOnSet(f, T)}
<1>1. ASSUME NEW T \in SUBSET S, \A U \in SUBSET T : U # T => U \in G
      PROVE  T \in G
  <2>1. CASE T = {}
    BY <2>1, SumEmpty
  <2>2. CASE T # {}
    <3> DEFINE x == Chosen(T)
               sf == SumFunctionOnSet(f, T \ {x})
               sg == SumFunctionOnSet(g, T \ {x})
    <3>1. x \in T /\ IsFiniteSet(T) /\ IsFiniteSet(T \ {x})
      BY <2>2, ChosenIsIn, FS_Subset, FS_RemoveElement
    <3>2. sf \in Int /\ sg \in Int
      BY <3>1, SumInt
    <3>3. d * sg <= t * sf
      BY <1>1, <3>1
    <3>4. SumFunctionOnSet(f, T) = f[x] + sf /\ SumFunctionOnSet(g, T) = g[x] + sg
      BY <2>2, <3>1, SumChosen
    <3>5. d * g[x] <= t * f[x] /\ f[x] \in Int /\ g[x] \in Int
      BY <3>1
    <3> HIDE DEF x, sf, sg
    <3>6. d * (g[x] + sg) = d * g[x] + d * sg /\ t * (f[x] + sf) = t * f[x] + t * sf
      BY <3>2, <3>5
    <3>7. /\ d * g[x] \in Int /\ d * sg \in Int /\ t * f[x] \in Int /\ t * sf \in Int
      BY <3>2, <3>5
    <3>8. d * g[x] + d * sg <= t * f[x] + t * sf
      BY <3>3, <3>5, <3>7
    <3>9. d * SumFunctionOnSet(g, T) <= t * SumFunctionOnSet(f, T)
      BY <3>4, <3>6, <3>8
    <3> QED
      BY <3>9
  <2> QED
    BY <2>1, <2>2
<1> HIDE DEF G
<1>2. S \in G
  BY <1>1, SubsetInduction
<1> QED
  BY <1>2 DEF G

LEMMA SumPlus ==
  ASSUME NEW S, IsFiniteSet(S), NEW f, NEW g, NEW h,
         \A x \in S : g[x] \in Int /\ h[x] \in Int /\ f[x] = g[x] + h[x]
  PROVE  SumFunctionOnSet(f, S) = SumFunctionOnSet(g, S) + SumFunctionOnSet(h, S)
<1> DEFINE G == {T \in SUBSET S :
                   SumFunctionOnSet(f, T) = SumFunctionOnSet(g, T) + SumFunctionOnSet(h, T)}
<1>1. ASSUME NEW T \in SUBSET S, \A U \in SUBSET T : U # T => U \in G
      PROVE  T \in G
  <2>1. CASE T = {}
    BY <2>1, SumEmpty
  <2>2. CASE T # {}
    <3> DEFINE x == Chosen(T)
               U == T \ {x}
    <3>1. x \in T /\ IsFiniteSet(T) /\ IsFiniteSet(U)
      BY <2>2, ChosenIsIn, FS_Subset, FS_RemoveElement
    <3>2. SumFunctionOnSet(f, U) = SumFunctionOnSet(g, U) + SumFunctionOnSet(h, U)
      BY <1>1, <3>1
    <3>3. /\ SumFunctionOnSet(f, T) = f[x] + SumFunctionOnSet(f, U)
          /\ SumFunctionOnSet(g, T) = g[x] + SumFunctionOnSet(g, U)
          /\ SumFunctionOnSet(h, T) = h[x] + SumFunctionOnSet(h, U)
      BY <2>2, <3>1, SumChosen
    <3>4. SumFunctionOnSet(g, U) \in Int /\ SumFunctionOnSet(h, U) \in Int
      BY <3>1, SumInt
    <3>5. g[x] \in Int /\ h[x] \in Int /\ f[x] = g[x] + h[x]
      BY <3>1
    <3> HIDE DEF x, U
    <3>6. SumFunctionOnSet(f, T) = SumFunctionOnSet(g, T) + SumFunctionOnSet(h, T)
      BY <3>2, <3>3, <3>4, <3>5
    <3> QED
      BY <3>6
  <2> QED
    BY <2>1, <2>2
<1> HIDE DEF G
<1>2. S \in G
  BY <1>1, SubsetInduction
<1> QED
  BY <1>2 DEF G

LEMMA SumNat ==
  ASSUME NEW S, IsFiniteSet(S), NEW f, \A x \in S : f[x] \in Nat
  PROVE  SumFunctionOnSet(f, S) \in Nat
<1> DEFINE z == [x \in S |-> 0]
<1>1. SumFunctionOnSet(f, S) \in Int /\ SumFunctionOnSet(z, S) = 0
  <2>1. SumFunctionOnSet(z, S) = Cardinality(S) * 0
    BY SumConstant
  <2> QED
    BY <2>1, SumInt, FS_CardinalityType
<1>2. 1 * SumFunctionOnSet(z, S) <= 1 * SumFunctionOnSet(f, S)
  <2>1. \A x \in S : z[x] \in Int /\ f[x] \in Int /\ 1 * z[x] <= 1 * f[x]
    OBVIOUS
  <2> HIDE DEF z
  <2> QED
    BY <2>1, SumOfParts
<1> QED
  BY <1>1, <1>2

LEMMA SumAtLeast ==
  ASSUME NEW S, IsFiniteSet(S), NEW f, \A x \in S : f[x] \in Nat, NEW y \in S
  PROVE  f[y] <= SumFunctionOnSet(f, S)
<1>1. SumFunctionOnSet(f, S) = f[y] + SumFunctionOnSet(f, S \ {y})
  BY SumRemove
<1>2. SumFunctionOnSet(f, S \ {y}) \in Nat
  BY FS_RemoveElement, SumNat
<1> QED
  BY <1>1, <1>2

\* A sum over part of the set, each element counted under a name of its own.
LEMMA SumOfNamed ==
  ASSUME NEW R, IsFiniteSet(R), NEW f, \A y \in R : f[y] \in Nat,
         NEW S, IsFiniteSet(S), NEW g, NEW name \in [S -> R],
         \A x, y \in S : name[x] = name[y] => x = y,
         \A x \in S : g[x] = f[name[x]]
  PROVE  SumFunctionOnSet(g, S) <= SumFunctionOnSet(f, R)
<1> DEFINE Names(T) == {name[x] : x \in T}
           Rest(T) == R \ Names(T)
           G == {T \in SUBSET S :
                   SumFunctionOnSet(g, T) + SumFunctionOnSet(f, Rest(T))
                     = SumFunctionOnSet(f, R)}
<1>1. ASSUME NEW T \in SUBSET S, \A U \in SUBSET T : U # T => U \in G
      PROVE  T \in G
  <2>1. CASE T = {}
    <3>1. Rest(T) = R
      BY <2>1
    <3>2. SumFunctionOnSet(f, R) \in Int
      BY SumInt
    <3> QED
      BY <2>1, <3>1, <3>2, SumEmpty
  <2>2. CASE T # {}
    <3> DEFINE x == Chosen(T)
               U == T \ {x}
    <3>1. x \in T /\ IsFiniteSet(T) /\ IsFiniteSet(U)
      BY <2>2, ChosenIsIn, FS_Subset, FS_RemoveElement
    <3>2. SumFunctionOnSet(g, T) = g[x] + SumFunctionOnSet(g, U)
      BY <2>2, <3>1, SumChosen
    <3>3. name[x] \in Rest(U) /\ Rest(T) = Rest(U) \ {name[x]}
      BY <3>1
    <3>4. IsFiniteSet(Rest(U)) /\ IsFiniteSet(Rest(T))
      BY FS_Subset
    <3>5. SumFunctionOnSet(f, Rest(U)) = f[name[x]] + SumFunctionOnSet(f, Rest(T))
      <4> DEFINE V == Rest(U)
                 y == name[x]
      <4>1. \A w \in V : f[w] \in Int
        OBVIOUS
      <4>2. y \in V /\ Rest(T) = V \ {y} /\ IsFiniteSet(V)
        BY <3>3, <3>4
      <4> HIDE DEF V, y
      <4>3. SumFunctionOnSet(f, V) = f[y] + SumFunctionOnSet(f, V \ {y})
        BY <4>1, <4>2, SumRemove
      <4> QED
        BY <4>2, <4>3 DEF V, y
    <3>6. SumFunctionOnSet(g, U) + SumFunctionOnSet(f, Rest(U)) = SumFunctionOnSet(f, R)
      BY <1>1, <3>1
    <3>7. SumFunctionOnSet(g, U) \in Int /\ SumFunctionOnSet(f, Rest(T)) \in Int
      BY <3>1, <3>4, SumInt
    <3>8. g[x] = f[name[x]] /\ g[x] \in Int
      BY <3>1
    <3> HIDE DEF x, U, Rest
    <3>9. SumFunctionOnSet(g, T) + SumFunctionOnSet(f, Rest(T)) = SumFunctionOnSet(f, R)
      BY <3>2, <3>5, <3>6, <3>7, <3>8
    <3> QED
      BY <3>9
  <2> QED
    BY <2>1, <2>2
<1> HIDE DEF G
<1>2. S \in G
  BY <1>1, SubsetInduction
<1>3. SumFunctionOnSet(g, S) + SumFunctionOnSet(f, Rest(S)) = SumFunctionOnSet(f, R)
  BY <1>2 DEF G
<1>4. SumFunctionOnSet(f, Rest(S)) \in Nat /\ SumFunctionOnSet(g, S) \in Int
  <2>1. IsFiniteSet(Rest(S)) /\ \A y \in Rest(S) : f[y] \in Nat
    BY FS_Subset
  <2>2. \A x \in S : g[x] \in Int
    OBVIOUS
  <2> HIDE DEF Rest
  <2> QED
    BY <2>1, <2>2, SumNat, SumInt
<1> QED
  BY <1>3, <1>4

=============================================================================
