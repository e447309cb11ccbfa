----------------------------- MODULE FeeDebtProofs -----------------------------
(***************************************************************************)
(* Facts about sums and debts over finite sets of entries, for every word  *)
(* size.  A fold is a recursive function, so the facts need induction; it  *)
(* is stated over sets (SubsetInduction) rather than over a predicate, and *)
(* rests on the library's theorems on well-founded orderings.              *)
(***************************************************************************)
EXTENDS FeeDebt, FiniteSetTheorems, WellFoundedInduction, TLAPS

-----------------------------------------------------------------------------
(* Induction.                                                              *)

(* A set with zero that is closed under successor holds the naturals. *)
LEMMA NatSetInduction ==
  ASSUME NEW G, 0 \in G, \A n \in Nat : n \in G => n + 1 \in G
  PROVE  Nat \subseteq G
<1> DEFINE B == Nat \ G
<1> SUFFICES ASSUME B # {} PROVE FALSE
  OBVIOUS
<1>1. PICK n \in B : \A m \in B : ~(<<m, n>> \in OpToRel(<, Nat))
  BY NatLessThanWellFounded, WFMin, Zenon
<1>2. n # 0 /\ n - 1 \in Nat /\ n - 1 < n /\ (n - 1) + 1 = n
  OBVIOUS
<1>3. <<n - 1, n>> \in OpToRel(<, Nat)
  BY <1>2 DEF OpToRel
<1>4. QED BY <1>1, <1>2, <1>3

(* A collection that holds T whenever it holds T less any one element      *)
(* holds every subset of a finite set.                                     *)
LEMMA SubsetInduction ==
  ASSUME NEW S, IsFiniteSet(S), NEW G,
         \A T \in SUBSET S : (\A x \in T : T \ {x} \in G) => T \in G
  PROVE  SUBSET S \subseteq G
<1> DEFINE B == (SUBSET S) \ G
<1> SUFFICES ASSUME B # {} PROVE FALSE
  OBVIOUS
<1>1. B \subseteq FiniteSubsetsOf(S)
  BY FS_FiniteSubsetsOfFinite
<1>2. PICK T \in B : \A U \in B : ~(<<U, T>> \in StrictSubsetOrdering(S))
  BY <1>1, FS_StrictSubsetOrderingWellFounded, WFMin, Zenon
<1>3. ASSUME NEW x \in T PROVE T \ {x} \in G
  <2>1. T \ {x} \in SUBSET S /\ T \in SUBSET S /\ T \ {x} # T /\ T \ {x} \subseteq T
    OBVIOUS
  <2>2. <<T \ {x}, T>> \in StrictSubsetOrdering(S)
    BY <2>1 DEF StrictSubsetOrdering
  <2>3. QED BY <1>2, <2>1, <2>2
<1>4. QED BY <1>3

-----------------------------------------------------------------------------
(* Folds are well defined.                                                 *)

(* The element a fold takes from a set. *)
Pick(s) == CHOOSE x \in s : TRUE

LEMMA PickIn == ASSUME NEW s, s # {} PROVE Pick(s) \in s
  BY DEF Pick

(* g folds op over the subsets of S. *)
Folds(g, op, base, S) ==
  \A s \in SUBSET S : g[s] = IF s = {} THEN base ELSE op[Pick(s)][g[s \ {Pick(s)}]]

(* The equation of a fold has a solution: the one that is right up to      *)
(* cardinality n, put into the equation, is right up to n + 1.             *)
LEMMA FoldExists ==
  ASSUME NEW S, IsFiniteSet(S), NEW V, NEW base \in V, NEW op \in [S -> [V -> V]]
  PROVE  \E g \in [SUBSET S -> V] : Folds(g, op, base, S)
<1> DEFINE At(g, s) == IF s = {} THEN base ELSE op[Pick(s)][g[s \ {Pick(s)}]]
           Right(n, g) == \A s \in SUBSET S : Cardinality(s) <= n => g[s] = At(g, s)
           G == {n \in Nat : \E g \in [SUBSET S -> V] : Right(n, g)}
<1>1. \A s \in SUBSET S :
        /\ Cardinality(s) \in Nat /\ Cardinality(s) <= Cardinality(S)
        /\ s # {} => Cardinality(s) > 0 /\ Cardinality(s \ {Pick(s)}) = Cardinality(s) - 1
  <2> TAKE s \in SUBSET S
  <2>1. IsFiniteSet(s) /\ Cardinality(s) <= Cardinality(S)
    BY FS_Subset
  <2>2. Cardinality(s) \in Nat /\ (s # {} => Cardinality(s) > 0)
    BY <2>1, FS_CardinalityType, FS_EmptySet
  <2>3. s # {} => Cardinality(s \ {Pick(s)}) = Cardinality(s) - 1
    BY <2>1, FS_RemoveElement, PickIn
  <2>4. QED BY <2>1, <2>2, <2>3
<1>2. 0 \in G
  <2> DEFINE g == [s \in SUBSET S |-> base]
  <2>1. g \in [SUBSET S -> V]
    OBVIOUS
  <2>2. \A s \in SUBSET S : Cardinality(s) <= 0 => s = {}
    <3> TAKE s \in SUBSET S
    <3>1. Cardinality(s) \in Nat /\ (s # {} => Cardinality(s) > 0)
      BY <1>1
    <3>2. QED BY <3>1
  <2>3. Right(0, g)
    BY <2>2
  <2>4. QED BY <2>1, <2>3
<1>3. ASSUME NEW n \in Nat, n \in G PROVE n + 1 \in G
  <2>1. PICK g \in [SUBSET S -> V] : Right(n, g)
    BY <1>3
  <2> DEFINE h == [s \in SUBSET S |-> At(g, s)]
  <2>2. h \in [SUBSET S -> V]
    <3>1. ASSUME NEW s \in SUBSET S PROVE At(g, s) \in V
      BY PickIn
    <3>2. QED BY <3>1
  <2>3. ASSUME NEW s \in SUBSET S, Cardinality(s) <= n + 1 PROVE h[s] = At(h, s)
    <3>1. CASE s = {}
      BY <3>1
    <3>2. CASE s # {}
      <4>1. s \ {Pick(s)} \in SUBSET S /\ Cardinality(s \ {Pick(s)}) <= n
        BY <1>1, <2>3, <3>2
      <4>2. h[s \ {Pick(s)}] = g[s \ {Pick(s)}]
        BY <2>1, <4>1
      <4>3. QED BY <3>2, <4>2
    <3>3. QED BY <3>1, <3>2
  <2>4. Right(n + 1, h)
    <3> HIDE DEF h, At
    <3>1. QED BY <2>3
  <2> HIDE DEF h, Right
  <2>5. QED BY <2>2, <2>4
<1>4. PICK g \in [SUBSET S -> V] : Right(Cardinality(S), g)
  <2> HIDE DEF G
  <2>1. Cardinality(S) \in G
    BY <1>2, <1>3, NatSetInduction, FS_CardinalityType
  <2>2. QED BY <2>1 DEF G
<1>5. QED BY <1>1, <1>4 DEF Folds
-----------------------------------------------------------------------------
(* Sums.                                                                   *)

SumFold(m, S) ==
  CHOOSE g : g = [s \in SUBSET S |-> IF s = {} THEN 0 ELSE m[Pick(s)] + g[s \ {Pick(s)}]]

LEMMA SumIsFold == ASSUME NEW m, NEW S PROVE SumOver(m, S) = SumFold(m, S)[S]
  BY Zenon DEF SumOver, MapThenSumSet, MapThenFoldSet, SumFold, Pick

(* m maps the elements of S to integers. *)
Weighs(m, S) == \A x \in S : m[x] \in Int

LEMMA SumFoldEquation ==
  ASSUME NEW S, IsFiniteSet(S), NEW m, Weighs(m, S)
  PROVE  \A s \in SUBSET S :
           SumFold(m, S)[s] = IF s = {} THEN 0 ELSE m[Pick(s)] + SumFold(m, S)[s \ {Pick(s)}]
<1> DEFINE op == [x \in S |-> [v \in Int |-> m[x] + v]]
<1>1. op \in [S -> [Int -> Int]]
  BY DEF Weighs
<1>2. PICK g \in [SUBSET S -> Int] : Folds(g, op, 0, S)
  <2> HIDE DEF op
  <2>1. 0 \in Int
    OBVIOUS
  <2>2. QED BY <1>1, <2>1, FoldExists, Zenon
<1>3. \A s \in SUBSET S : g[s] = IF s = {} THEN 0 ELSE m[Pick(s)] + g[s \ {Pick(s)}]
  <2> TAKE s \in SUBSET S
  <2>1. s # {} => Pick(s) \in S /\ g[s \ {Pick(s)}] \in Int
    BY PickIn
  <2>2. s # {} => op[Pick(s)][g[s \ {Pick(s)}]] = m[Pick(s)] + g[s \ {Pick(s)}]
    BY <2>1
  <2>3. QED BY <1>2, <2>2 DEF Folds
<1>4. g = [s \in SUBSET S |-> IF s = {} THEN 0 ELSE m[Pick(s)] + g[s \ {Pick(s)}]]
  BY <1>3
<1>5. SumFold(m, S) =
        [s \in SUBSET S |-> IF s = {} THEN 0 ELSE m[Pick(s)] + SumFold(m, S)[s \ {Pick(s)}]]
  BY <1>4, Zenon DEF SumFold
<1>6. QED BY <1>5

(* The folds of a set and of its subsets agree. *)
LEMMA SumOfSubset ==
  ASSUME NEW S, IsFiniteSet(S), NEW m, Weighs(m, S), NEW T \in SUBSET S
  PROVE  SumFold(m, S)[T] = SumOver(m, T)
<1>1. IsFiniteSet(T) /\ Weighs(m, T)
  BY FS_Subset DEF Weighs
<1> DEFINE G == {s \in SUBSET T : SumFold(m, S)[s] = SumFold(m, T)[s]}
<1>2. ASSUME NEW s \in SUBSET T, \A x \in s : s \ {x} \in G PROVE s \in G
  <2>1. /\ SumFold(m, S)[s] = IF s = {} THEN 0 ELSE m[Pick(s)] + SumFold(m, S)[s \ {Pick(s)}]
        /\ SumFold(m, T)[s] = IF s = {} THEN 0 ELSE m[Pick(s)] + SumFold(m, T)[s \ {Pick(s)}]
    BY <1>1, SumFoldEquation
  <2>2. s # {} => SumFold(m, S)[s \ {Pick(s)}] = SumFold(m, T)[s \ {Pick(s)}]
    BY <1>2, PickIn
  <2>3. QED BY <2>1, <2>2
<1>3. T \in G
  <2> HIDE DEF G
  <2>1. SUBSET T \subseteq G BY <1>1, <1>2, SubsetInduction
  <2>2. QED BY <2>1
<1>4. QED BY <1>3, SumIsFold

LEMMA SumUnfold ==
  ASSUME NEW S, IsFiniteSet(S), NEW m, Weighs(m, S)
  PROVE  SumOver(m, S) = IF S = {} THEN 0 ELSE m[Pick(S)] + SumOver(m, S \ {Pick(S)})
<1>1. SumFold(m, S)[S] = IF S = {} THEN 0 ELSE m[Pick(S)] + SumFold(m, S)[S \ {Pick(S)}]
  BY SumFoldEquation
<1>2. SumFold(m, S)[S \ {Pick(S)}] = SumOver(m, S \ {Pick(S)})
  BY SumOfSubset
<1>3. QED BY <1>1, <1>2, SumIsFold

LEMMA SumIsInt ==
  ASSUME NEW S, IsFiniteSet(S), NEW m, Weighs(m, S)
  PROVE  \A T \in SUBSET S : SumOver(m, T) \in Int
<1> DEFINE G == {T \in SUBSET S : SumOver(m, T) \in Int}
<1>1. ASSUME NEW T \in SUBSET S, \A x \in T : T \ {x} \in G PROVE T \in G
  <2>1. IsFiniteSet(T) /\ Weighs(m, T)
    BY FS_Subset DEF Weighs
  <2>2. SumOver(m, T) = IF T = {} THEN 0 ELSE m[Pick(T)] + SumOver(m, T \ {Pick(T)})
    BY <2>1, SumUnfold
  <2>3. T # {} => m[Pick(T)] \in Int /\ SumOver(m, T \ {Pick(T)}) \in Int
    BY <1>1, PickIn DEF Weighs
  <2>4. QED BY <2>2, <2>3
<1>2. SUBSET S \subseteq G
  <2> HIDE DEF G
  <2>1. QED BY <1>1, SubsetInduction
<1>3. QED BY <1>2

(* Any element may be taken first. *)
LEMMA SumAnyFirst ==
  ASSUME NEW S, IsFiniteSet(S), NEW m, Weighs(m, S)
  PROVE  \A T \in SUBSET S : \A x \in T : SumOver(m, T) = m[x] + SumOver(m, T \ {x})
<1> DEFINE First(T, x) == SumOver(m, T) = m[x] + SumOver(m, T \ {x})
           G == {T \in SUBSET S : \A x \in T : First(T, x)}
<1>1. ASSUME NEW T \in SUBSET S, \A x \in T : T \ {x} \in G PROVE T \in G
  <2> SUFFICES ASSUME T # {} PROVE \A x \in T : First(T, x)
    OBVIOUS
  <2> DEFINE c == Pick(T)
  <2>1. c \in T /\ First(T, c)
    <3>1. IsFiniteSet(T) /\ Weighs(m, T)
      BY FS_Subset DEF Weighs
    <3>2. QED BY <3>1, PickIn, SumUnfold
  <2> HIDE DEF c
  <2>2. ASSUME NEW x \in T, x # c PROVE First(T, x)
    <3> DEFINE rest == SumOver(m, T \ {c, x})
    <3>1. (T \ {c}) \ {x} = T \ {c, x} /\ (T \ {x}) \ {c} = T \ {c, x}
      OBVIOUS
    <3>2. SumOver(m, T \ {c}) = m[x] + rest
      BY <1>1, <2>1, <2>2, <3>1
    <3>3. SumOver(m, T \ {x}) = m[c] + rest
      BY <1>1, <2>1, <2>2, <3>1
    <3>4. rest \in Int /\ m[x] \in Int /\ m[c] \in Int
      BY <2>1, SumIsInt DEF Weighs
    <3> HIDE DEF rest
    <3>5. SumOver(m, T) = m[c] + (m[x] + rest)
      BY <2>1, <3>2
    <3>6. QED BY <3>3, <3>4, <3>5
  <2>3. QED BY <2>1, <2>2
<1>2. SUBSET S \subseteq G
  <2> HIDE DEF G
  <2>1. QED BY <1>1, SubsetInduction
<1>3. QED BY <1>2

LEMMA SumOfNone == ASSUME NEW m PROVE SumOver(m, {}) = 0
  BY SumUnfold, FS_EmptySet DEF Weighs

LEMMA SumOfUnion ==
  ASSUME NEW S, NEW T, IsFiniteSet(S), IsFiniteSet(T), S \cap T = {},
         NEW m, Weighs(m, S \cup T)
  PROVE  SumOver(m, S \cup T) = SumOver(m, S) + SumOver(m, T)
<1> DEFINE G == {U \in SUBSET T : SumOver(m, S \cup U) = SumOver(m, S) + SumOver(m, U)}
<1>1. IsFiniteSet(S \cup T)
  BY FS_Union
<1>2. ASSUME NEW U \in SUBSET T, \A x \in U : U \ {x} \in G PROVE U \in G
  <2>1. SumOver(m, S) \in Int /\ S \cup {} = S
    BY <1>1, SumIsInt
  <2>2. CASE U = {}
    BY <2>1, <2>2, SumOfNone
  <2>3. CASE U # {}
    <3>1. PICK x \in U : TRUE
      BY <2>3
    <3>2. /\ SumOver(m, S \cup U) = m[x] + SumOver(m, (S \cup U) \ {x})
          /\ SumOver(m, U) = m[x] + SumOver(m, U \ {x})
      BY <1>1, SumAnyFirst
    <3>3. (S \cup U) \ {x} = S \cup (U \ {x})
      BY <3>1
    <3>4. SumOver(m, S \cup (U \ {x})) = SumOver(m, S) + SumOver(m, U \ {x})
      BY <1>2, <3>1
    <3>5. m[x] \in Int /\ SumOver(m, U \ {x}) \in Int
      BY <1>1, SumIsInt DEF Weighs
    <3>6. SumOver(m, S \cup U) = SumOver(m, S) + SumOver(m, U)
      <4> DEFINE mine == SumOver(m, S)
                 rest == SumOver(m, U \ {x})
      <4>1. SumOver(m, S \cup U) = m[x] + (mine + rest) /\ SumOver(m, U) = m[x] + rest
        BY <3>2, <3>3, <3>4
      <4>2. mine \in Int /\ rest \in Int /\ m[x] \in Int
        BY <2>1, <3>5
      <4> HIDE DEF mine, rest
      <4>3. m[x] + (mine + rest) = mine + (m[x] + rest)
        BY <4>2
      <4>4. QED BY <4>1, <4>3 DEF mine
    <3>7. QED BY <3>6
  <2>4. QED BY <2>2, <2>3
<1>3. T \in G
  <2> HIDE DEF G
  <2>1. SUBSET T \subseteq G BY <1>2, SubsetInduction
  <2>2. QED BY <2>1
<1>4. QED BY <1>3

(* The sum over disjoint parts is the sum of the sums of the parts. *)
LEMMA SumOfParts ==
  ASSUME NEW P, IsFiniteSet(P), NEW part, NEW D, IsFiniteSet(D),
         \A t \in P : part[t] \subseteq D,
         \A t, u \in P : t # u => part[t] \cap part[u] = {},
         NEW m, Weighs(m, D),
         NEW a, \A t \in P : a[t] = SumOver(m, part[t])
  PROVE  SumOver(a, P) = SumOver(m, UNION {part[t] : t \in P})
<1> DEFINE All(Q) == UNION {part[t] : t \in Q}
           G == {Q \in SUBSET P : SumOver(a, Q) = SumOver(m, All(Q))}
<1>1. Weighs(a, P)
  BY SumIsInt DEF Weighs
<1>2. ASSUME NEW Q \in SUBSET P, \A x \in Q : Q \ {x} \in G PROVE Q \in G
  <2>1. CASE Q = {}
    <3>1. All(Q) = {}
      BY <2>1
    <3>2. QED BY <2>1, <3>1, SumOfNone
  <2>2. CASE Q # {}
    <3>1. PICK x \in Q : TRUE
      BY <2>2
    <3>2. SumOver(a, Q) = a[x] + SumOver(a, Q \ {x})
      BY <1>1, SumAnyFirst
    <3>3. /\ All(Q) = part[x] \cup All(Q \ {x})
          /\ part[x] \cap All(Q \ {x}) = {}
          /\ part[x] \subseteq D /\ All(Q \ {x}) \subseteq D
      OBVIOUS
    <3> HIDE DEF All
    <3>4. IsFiniteSet(part[x]) /\ IsFiniteSet(All(Q \ {x})) /\ Weighs(m, part[x] \cup All(Q \ {x}))
      BY <3>3, FS_Subset DEF Weighs
    <3>5. SumOver(m, All(Q)) = SumOver(m, part[x]) + SumOver(m, All(Q \ {x}))
      BY <3>3, <3>4, SumOfUnion
    <3>6. SumOver(a, Q \ {x}) = SumOver(m, All(Q \ {x})) /\ a[x] = SumOver(m, part[x])
      BY <1>2, <3>1
    <3>7. QED BY <3>2, <3>5, <3>6
  <2>3. QED BY <2>1, <2>2
<1>3. P \in G
  <2> HIDE DEF G
  <2>1. SUBSET P \subseteq G BY <1>2, SubsetInduction
  <2>2. QED BY <2>1
<1>4. QED BY <1>3

-----------------------------------------------------------------------------
(* Words.                                                                  *)

(* A word that is a multiple of itself other than zero is out of reach of  *)
(* the difference of two int64 values.                                     *)
LEMMA MultipleOfWord ==
  ASSUME NEW k \in Int, k * Word > -Word, k * Word < Word
  PROVE  k = 0
<1>1. Word \in Nat /\ Word > 0
  BY HalfAssumption DEF Word
<1>2. ASSUME NEW w \in Nat, w > 0, k * w > -w, k * w < w
      PROVE  k = 0
  <2>1. CASE k >= 1
    <3>1. k * w >= w BY <1>2, <2>1
    <3>2. QED BY <1>2, <3>1
  <2>2. CASE k <= -1
    <3>1. k * w <= -w BY <1>2, <2>2
    <3>2. QED BY <1>2, <3>1
  <2>3. QED BY <2>1, <2>2
<1>3. QED BY <1>1, <1>2

(* One turn of the loop: the new accumulator is an int64 and has moved by  *)
(* the worth of the entry, give or take one word.                          *)
LEMMA AddFeeWraps ==
  ASSUME NEW d \in Int64, NEW fee \in FeeEntry
  PROVE  /\ AddFee(d, fee) \in Int64
         /\ Worth(fee) \in Int
         /\ \E e \in {-1, 0, 1} : d + Worth(fee) = AddFee(d, fee) + e * Word
<1> DEFINE a == fee.amount
<1>1. a \in Uint64 /\ fee.txType \in TxTypes
  BY DEF FeeEntry
<1>2. Half \in Nat /\ Half > 0 /\ a \in Int /\ a >= 0 /\ a < 2 * Half
      /\ d \in Int /\ d >= -Half /\ d < Half
  BY <1>1, HalfAssumption DEF Uint64, Int64, Word
<1>3. CASE fee.txType = "credit"
  <2>1. AddFee(d, fee) = WrapInt64(d - ToInt64(a)) /\ Worth(fee) = -a
    BY <1>3 DEF AddFee, Worth
  <2>2. \/ WrapInt64(d - ToInt64(a)) = d - a
        \/ WrapInt64(d - ToInt64(a)) = d - a + Word
        \/ WrapInt64(d - ToInt64(a)) = d - a - Word
    BY <1>2 DEF WrapInt64, ToInt64, Word
  <2>3. WrapInt64(d - ToInt64(a)) \in Int64
    BY <1>2 DEF WrapInt64, ToInt64, Int64, Word
  <2>4. QED BY <1>2, <2>1, <2>2, <2>3 DEF Word
<1>4. CASE fee.txType = "debit"
  <2>1. AddFee(d, fee) = WrapInt64(d + ToInt64(a)) /\ Worth(fee) = a
    BY <1>4 DEF AddFee, Worth
  <2>2. \/ WrapInt64(d + ToInt64(a)) = d + a
        \/ WrapInt64(d + ToInt64(a)) = d + a + Word
        \/ WrapInt64(d + ToInt64(a)) = d + a - Word
    BY <1>2 DEF WrapInt64, ToInt64, Word
  <2>3. WrapInt64(d + ToInt64(a)) \in Int64
    BY <1>2 DEF WrapInt64, ToInt64, Int64, Word
  <2>4. QED BY <1>2, <2>1, <2>2, <2>3 DEF Word
<1>5. CASE fee.txType = "other"
  <2>1. AddFee(d, fee) = d /\ Worth(fee) = 0
    BY <1>5 DEF AddFee, Worth
  <2>2. QED BY <1>2, <2>1 DEF Word
<1>6. QED BY <1>1, <1>3, <1>4, <1>5 DEF TxTypes

(* Two int64 values that differ by whole words are equal. *)
LEMMA WholeWordsApart ==
  ASSUME NEW a \in Int64, NEW b \in Int64, NEW k \in Int, a = b + k * Word
  PROVE  a = b
<1>1. Half \in Nat /\ Half > 0 /\ Word \in Nat /\ Word = 2 * Half
  BY HalfAssumption DEF Word
<1>2. a \in Int /\ -Half <= a /\ a < Half /\ b \in Int /\ -Half <= b /\ b < Half
  BY <1>1 DEF Int64
<1>3. k * Word \in Int
  BY <1>1
<1>4. k * Word > -Word /\ k * Word < Word
  BY <1>1, <1>2, <1>3
<1>5. k = 0
  BY <1>4, MultipleOfWord
<1>6. QED BY <1>1, <1>2, <1>5

-----------------------------------------------------------------------------
(* Debts.                                                                  *)

DebtFold(entry, S) ==
  CHOOSE g : g = [s \in SUBSET S |->
                    IF s = {} THEN 0 ELSE AddFee(g[s \ {Pick(s)}], entry[Pick(s)])]

LEMMA DebtIsFold == ASSUME NEW entry, NEW S PROVE DebtOfFees(entry, S) = DebtFold(entry, S)[S]
  BY Zenon DEF DebtOfFees, FoldSet, MapThenFoldSet, DebtFold, Pick

(* entry maps the elements of S to fee entries. *)
Entries(entry, S) == \A f \in S : f \in DOMAIN entry /\ entry[f] \in FeeEntry

LEMMA DebtFoldEquation ==
  ASSUME NEW S, IsFiniteSet(S), NEW entry, Entries(entry, S)
  PROVE  \A s \in SUBSET S :
           DebtFold(entry, S)[s] =
             IF s = {} THEN 0 ELSE AddFee(DebtFold(entry, S)[s \ {Pick(s)}], entry[Pick(s)])
<1> DEFINE op == [f \in S |-> [d \in Int64 |-> AddFee(d, entry[f])]]
<1>1. op \in [S -> [Int64 -> Int64]]
  BY AddFeeWraps DEF Entries
<1>2. PICK g \in [SUBSET S -> Int64] : Folds(g, op, 0, S)
  <2> HIDE DEF op
  <2>1. 0 \in Int64
    BY HalfAssumption DEF Int64
  <2>2. QED BY <1>1, <2>1, FoldExists, Zenon
<1>3. \A s \in SUBSET S :
        g[s] = IF s = {} THEN 0 ELSE AddFee(g[s \ {Pick(s)}], entry[Pick(s)])
  <2> TAKE s \in SUBSET S
  <2>1. s # {} => Pick(s) \in S /\ g[s \ {Pick(s)}] \in Int64
    BY PickIn
  <2>2. s # {} => op[Pick(s)][g[s \ {Pick(s)}]] = AddFee(g[s \ {Pick(s)}], entry[Pick(s)])
    BY <2>1
  <2>3. QED BY <1>2, <2>2 DEF Folds
<1>4. g = [s \in SUBSET S |-> IF s = {} THEN 0 ELSE AddFee(g[s \ {Pick(s)}], entry[Pick(s)])]
  BY <1>3
<1>5. DebtFold(entry, S) =
        [s \in SUBSET S |->
           IF s = {} THEN 0 ELSE AddFee(DebtFold(entry, S)[s \ {Pick(s)}], entry[Pick(s)])]
  BY <1>4, Zenon DEF DebtFold
<1>6. QED BY <1>5

(* The folds of a set and of its subsets agree. *)
LEMMA DebtOfSubset ==
  ASSUME NEW S, IsFiniteSet(S), NEW entry, Entries(entry, S), NEW T \in SUBSET S
  PROVE  DebtFold(entry, S)[T] = DebtOfFees(entry, T)
<1>1. IsFiniteSet(T) /\ Entries(entry, T)
  BY FS_Subset DEF Entries
<1> DEFINE G == {s \in SUBSET T : DebtFold(entry, S)[s] = DebtFold(entry, T)[s]}
<1>2. ASSUME NEW s \in SUBSET T, \A x \in s : s \ {x} \in G PROVE s \in G
  <2>1. /\ DebtFold(entry, S)[s] =
             IF s = {} THEN 0 ELSE AddFee(DebtFold(entry, S)[s \ {Pick(s)}], entry[Pick(s)])
        /\ DebtFold(entry, T)[s] =
             IF s = {} THEN 0 ELSE AddFee(DebtFold(entry, T)[s \ {Pick(s)}], entry[Pick(s)])
    BY <1>1, DebtFoldEquation
  <2>2. s # {} => DebtFold(entry, S)[s \ {Pick(s)}] = DebtFold(entry, T)[s \ {Pick(s)}]
    BY <1>2, PickIn
  <2>3. QED BY <2>1, <2>2
<1>3. T \in G
  <2> HIDE DEF G
  <2>1. SUBSET T \subseteq G BY <1>1, <1>2, SubsetInduction
  <2>2. QED BY <2>1
<1>4. QED BY <1>3, DebtIsFold

LEMMA DebtUnfold ==
  ASSUME NEW S, IsFiniteSet(S), NEW entry, Entries(entry, S)
  PROVE  DebtOfFees(entry, S) =
           IF S = {} THEN 0 ELSE AddFee(DebtOfFees(entry, S \ {Pick(S)}), entry[Pick(S)])
<1>1. DebtFold(entry, S)[S] =
        IF S = {} THEN 0 ELSE AddFee(DebtFold(entry, S)[S \ {Pick(S)}], entry[Pick(S)])
  BY DebtFoldEquation
<1>2. DebtFold(entry, S)[S \ {Pick(S)}] = DebtOfFees(entry, S \ {Pick(S)})
  BY DebtOfSubset
<1>3. QED BY <1>1, <1>2, DebtIsFold

(* The debt is an int64, and whole words apart from what the entries are   *)
(* worth.                                                                  *)
LEMMA DebtWrapsWorth ==
  ASSUME NEW S, IsFiniteSet(S), NEW entry, Entries(entry, S)
  PROVE  /\ DebtOfFees(entry, S) \in Int64
         /\ WorthOf(entry, S) \in Int
         /\ \E k \in Int : WorthOf(entry, S) = DebtOfFees(entry, S) + k * Word
<1> DEFINE w == [f \in DOMAIN entry |-> Worth(entry[f])]
           Apart(T) == \E k \in Int : SumOver(w, T) = DebtOfFees(entry, T) + k * Word
           G == {T \in SUBSET S : DebtOfFees(entry, T) \in Int64 /\ Apart(T)}
<1>1. Weighs(w, S)
  <2>1. ASSUME NEW f \in S PROVE w[f] \in Int
    BY AddFeeWraps, HalfAssumption DEF Entries, Int64
  <2>2. QED BY <2>1 DEF Weighs
<1>2. \A f \in S : w[f] = Worth(entry[f])
  BY DEF Entries
<1>3. Word \in Nat /\ Int64 \subseteq Int /\ 0 \in Int64
  BY HalfAssumption DEF Word, Int64
<1> HIDE DEF w
<1>4. ASSUME NEW T \in SUBSET S, \A x \in T : T \ {x} \in G PROVE T \in G
  <2>1. DebtOfFees(entry, T) = IF T = {} THEN 0 ELSE AddFee(DebtOfFees(entry, T \ {Pick(T)}), entry[Pick(T)])
    <3>1. IsFiniteSet(T) /\ Entries(entry, T)
      BY FS_Subset DEF Entries
    <3>2. QED BY <3>1, DebtUnfold
  <2>2. CASE T = {}
    <3>1. DebtOfFees(entry, T) = 0 /\ SumOver(w, T) = 0
      BY <2>1, <2>2, SumOfNone
    <3>2. SumOver(w, T) = DebtOfFees(entry, T) + 0 * Word
      BY <1>3, <3>1
    <3>3. QED BY <1>3, <3>1, <3>2
  <2>3. CASE T # {}
    <3> DEFINE c == Pick(T)
               d == DebtOfFees(entry, T \ {c})
    <3>1. c \in T /\ DebtOfFees(entry, T) = AddFee(d, entry[c])
      BY <2>1, <2>3, PickIn
    <3> HIDE DEF c
    <3>2. d \in Int64 /\ Apart(T \ {c}) /\ entry[c] \in FeeEntry
      BY <1>4, <3>1 DEF Entries
    <3>3. SumOver(w, T) = Worth(entry[c]) + SumOver(w, T \ {c})
      BY <1>1, <1>2, <3>1, SumAnyFirst
    <3>4. PICK k \in Int : SumOver(w, T \ {c}) = d + k * Word
      BY <3>2
    <3> HIDE DEF d
    <3>5. /\ AddFee(d, entry[c]) \in Int64 /\ Worth(entry[c]) \in Int
          /\ \E e \in {-1, 0, 1} : d + Worth(entry[c]) = AddFee(d, entry[c]) + e * Word
      BY <3>2, AddFeeWraps
    <3>6. PICK e \in {-1, 0, 1} : d + Worth(entry[c]) = AddFee(d, entry[c]) + e * Word
      BY <3>5
    <3>7. SumOver(w, T) = AddFee(d, entry[c]) + (k + e) * Word
      <4>1. (k + e) * Word = k * Word + e * Word /\ k * Word \in Int /\ e * Word \in Int
        BY <1>3
      <4>2. d \in Int /\ AddFee(d, entry[c]) \in Int
        BY <1>3, <3>2, <3>5
      <4>3. QED BY <3>3, <3>4, <3>5, <3>6, <4>1, <4>2
    <3>8. Apart(T)
      <4>1. k + e \in Int
        OBVIOUS
      <4>2. QED BY <3>1, <3>7, <4>1
    <3>9. QED BY <3>1, <3>5, <3>8
  <2>4. QED BY <2>2, <2>3
<1>5. S \in G
  <2> HIDE DEF G
  <2>1. SUBSET S \subseteq G BY <1>4, SubsetInduction
  <2>2. QED BY <2>1
<1>6. SumOver(w, S) \in Int
  BY <1>1, SumIsInt
<1>7. WorthOf(entry, S) = SumOver(w, S)
  BY DEF WorthOf, w
<1>8. QED BY <1>5, <1>6, <1>7

(* A debt that fits an int64 is computed exactly. *)
LEMMA DebtIsWorth ==
  ASSUME NEW S, IsFiniteSet(S), NEW entry, Entries(entry, S), WorthOf(entry, S) \in Int64
  PROVE  DebtOfFees(entry, S) = WorthOf(entry, S)
<1>1. /\ DebtOfFees(entry, S) \in Int64
      /\ \E k \in Int : WorthOf(entry, S) = DebtOfFees(entry, S) + k * Word
  BY DebtWrapsWorth
<1>2. QED BY <1>1, WholeWordsApart

(* The order in which the loop meets the entries does not matter, although *)
(* its sums wrap: any entry may be the last.                               *)
THEOREM DebtIsOrderFree ==
  ASSUME NEW S, IsFiniteSet(S), NEW entry, Entries(entry, S), NEW f \in S
  PROVE  DebtOfFees(entry, S) = AddFee(DebtOfFees(entry, S \ {f}), entry[f])
<1> DEFINE T == S \ {f}
           w == [x \in DOMAIN entry |-> Worth(entry[x])]
<1>1. IsFiniteSet(T) /\ Entries(entry, T) /\ entry[f] \in FeeEntry /\ f \in DOMAIN entry
  BY FS_RemoveElement DEF Entries
<1>2. /\ DebtOfFees(entry, S) \in Int64 /\ WorthOf(entry, S) \in Int
      /\ \E k \in Int : WorthOf(entry, S) = DebtOfFees(entry, S) + k * Word
  BY DebtWrapsWorth
<1>3. /\ DebtOfFees(entry, T) \in Int64 /\ WorthOf(entry, T) \in Int
      /\ \E k \in Int : WorthOf(entry, T) = DebtOfFees(entry, T) + k * Word
  BY <1>1, DebtWrapsWorth
<1>4. WorthOf(entry, S) = Worth(entry[f]) + WorthOf(entry, T)
  <2>1. Weighs(w, S)
    <3>1. ASSUME NEW x \in S PROVE w[x] \in Int
      BY AddFeeWraps, HalfAssumption DEF Entries, Int64
    <3>2. QED BY <3>1 DEF Weighs
  <2>2. w[f] = Worth(entry[f])
    BY <1>1
  <2> HIDE DEF w
  <2>3. SumOver(w, S) = w[f] + SumOver(w, S \ {f})
    BY <2>1, SumAnyFirst
  <2>4. QED BY <2>2, <2>3 DEF WorthOf, w
<1> DEFINE d == DebtOfFees(entry, T)
           a == AddFee(d, entry[f])
<1>5. /\ a \in Int64 /\ Worth(entry[f]) \in Int
      /\ \E e \in {-1, 0, 1} : d + Worth(entry[f]) = a + e * Word
  BY <1>1, <1>3, AddFeeWraps
<1>6. PICK k \in Int : WorthOf(entry, S) = DebtOfFees(entry, S) + k * Word
  BY <1>2
<1>7. PICK j \in Int : WorthOf(entry, T) = d + j * Word
  BY <1>3
<1>8. PICK e \in {-1, 0, 1} : d + Worth(entry[f]) = a + e * Word
  BY <1>5
<1> DEFINE b == DebtOfFees(entry, S)
<1>9. b \in Int64 /\ a \in Int64 /\ d \in Int64 /\ Word \in Nat /\ Int64 \subseteq Int
  BY <1>2, <1>3, <1>5, HalfAssumption DEF Word, Int64
<1>10. b + k * Word = Worth(entry[f]) + (d + j * Word)
  BY <1>4, <1>6, <1>7
<1> HIDE DEF a, b, d, T
<1>11. b = a + (e + j - k) * Word
  <2>1. (e + j - k) * Word = e * Word + j * Word - k * Word
        /\ k * Word \in Int /\ j * Word \in Int /\ e * Word \in Int
    BY <1>9
  <2>2. Worth(entry[f]) = a + e * Word - d
    BY <1>5, <1>8, <1>9, <2>1
  <2>3. QED BY <1>5, <1>9, <1>10, <2>1, <2>2
<1>12. e + j - k \in Int
  OBVIOUS
<1>13. a = b
  BY <1>9, <1>11, <1>12, WholeWordsApart
<1>14. QED BY <1>13 DEF a, b, d, T
=============================================================================
