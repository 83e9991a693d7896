---------------------------- MODULE SumTheorems ----------------------------
(***************************************************************************)
(* Sums over finite sets, as the fold of the community modules defines     *)
(* them: the sum of the empty set, of one element more and of what weighs  *)
(* the same.  Induction is by a least counterexample: a set of numbers, or *)
(* of subsets, that is not empty has a minimal element.  At the end, what  *)
(* one element more or less does to a sequence and to a count.             *)
(***************************************************************************)
EXTENDS FiniteSetsExt, Sequences, FiniteSetTheorems, TLAPS

(* Any set of naturals that is not empty has a least element.              *)
LEMMA LeastNatural ==
  ASSUME NEW T \in SUBSET Nat, T # {}
  PROVE  \E m \in T : \A k \in T : m <= k
  <1>1. PICK m \in T : \A k \in T : <<k, m>> \notin OpToRel(<, Nat)
    BY NatLessThanWellFounded, WFMin
  <1>2. ASSUME NEW k \in T PROVE m <= k
    <2>1. ~(k < m)
      BY <1>1 DEF OpToRel
    <2> QED BY <2>1
  <1> QED BY <1>2

Any(s) == CHOOSE x \in s : TRUE

(* f is what the fold of the weights w computes for every subset of S.     *)
Folds(f, w, S) ==
  /\ DOMAIN f = SUBSET S
  /\ \A s \in SUBSET S : f[s] = IF s = {} THEN 0 ELSE w[Any(s)] + f[s \ {Any(s)}]

LEMMA AnyIn == ASSUME NEW s, s # {} PROVE Any(s) \in s
  BY DEF Any

(* The fold exists.                                                        *)
LEMMA FoldExists ==
  ASSUME NEW S, IsFiniteSet(S), NEW w \in [S -> Int]
  PROVE  \E f \in [SUBSET S -> Int] : Folds(f, w, S)
  <1> DEFINE After(f, s) == IF s = {} THEN 0 ELSE w[Any(s)] + f[s \ {Any(s)}]
             UpTo(f, n) == \A s \in SUBSET S : Cardinality(s) <= n => f[s] = After(f, s)
             Missing == {n \in Nat : ~\E f \in [SUBSET S -> Int] : UpTo(f, n)}
  <1>1. ASSUME NEW s \in SUBSET S
        PROVE  /\ IsFiniteSet(s) /\ Cardinality(s) \in Nat
               /\ s # {} => /\ Any(s) \in s /\ s \ {Any(s)} \in SUBSET S
                            /\ Cardinality(s \ {Any(s)}) = Cardinality(s) - 1
               /\ Cardinality(s) = 0 <=> s = {}
    <2>1. IsFiniteSet(s)
      BY FS_Subset
    <2>2. Cardinality(s) \in Nat /\ (Cardinality(s) = 0 <=> s = {})
      BY <2>1, FS_CardinalityType, FS_EmptySet
    <2>3. s # {} => Any(s) \in s
      BY AnyIn
    <2>4. s # {} => Cardinality(s \ {Any(s)}) = Cardinality(s) - 1
      BY <2>1, <2>3, FS_RemoveElement
    <2> QED BY <2>1, <2>2, <2>3, <2>4
  <1>2. ASSUME NEW f \in [SUBSET S -> Int], NEW s \in SUBSET S PROVE After(f, s) \in Int
    <2>1. s # {} => Any(s) \in S /\ s \ {Any(s)} \in SUBSET S
      BY AnyIn
    <2> QED BY <2>1
  <1>3. 0 \notin Missing
    <2> DEFINE f == [s \in SUBSET S |-> 0]
    <2>1. f \in [SUBSET S -> Int]
      OBVIOUS
    <2>2. ASSUME NEW s \in SUBSET S, Cardinality(s) <= 0 PROVE f[s] = After(f, s)
      <3>0. Cardinality(s) \in Nat /\ (Cardinality(s) = 0 <=> s = {})
        BY <1>1
      <3>1. s = {}
        BY <2>2, <3>0
      <3> QED BY <3>1
    <2> QED BY <2>1, <2>2
  <1>4. ASSUME NEW n \in Nat, n \notin Missing PROVE n + 1 \notin Missing
    <2>1. PICK f \in [SUBSET S -> Int] : UpTo(f, n)
      BY <1>4
    <2> DEFINE g == [s \in SUBSET S |-> After(f, s)]
    <2>2. g \in [SUBSET S -> Int]
      BY <1>2
    <2>3. ASSUME NEW s \in SUBSET S, Cardinality(s) <= n + 1 PROVE g[s] = After(g, s)
      <3>1. CASE s = {}
        BY <3>1
      <3>2. CASE s # {}
        <4>1. s \ {Any(s)} \in SUBSET S /\ Cardinality(s \ {Any(s)}) <= n
          BY <1>1, <2>3, <3>2
        <4>2. g[s \ {Any(s)}] = f[s \ {Any(s)}]
          BY <2>1, <4>1
        <4> QED BY <3>2, <4>2
      <3> QED BY <3>1, <3>2
    <2> QED BY <2>2, <2>3
  <1>5. Missing = {}
    <2> SUFFICES ASSUME Missing # {} PROVE FALSE
      OBVIOUS
    <2> Missing \in SUBSET Nat
      OBVIOUS
    <2>1. PICK m \in Missing : \A k \in Missing : m <= k
      BY LeastNatural
    <2> HIDE DEF Missing
    <2>2. m \in Nat /\ m # 0
      BY <1>3
    <2>3. m - 1 \in Nat /\ m - 1 \notin Missing
      BY <2>1, <2>2
    <2> QED BY <2>1, <2>2, <2>3, <1>4
  <1>6. Cardinality(S) \in Nat
    BY FS_CardinalityType
  <1>7. PICK f \in [SUBSET S -> Int] : UpTo(f, Cardinality(S))
    BY <1>5, <1>6
  <1>8. ASSUME NEW s \in SUBSET S PROVE f[s] = After(f, s)
    BY <1>7, FS_Subset
  <1> QED BY <1>8 DEF Folds

(* Folds that weigh a set's elements alike agree on it.                    *)
LEMMA FoldsAgree ==
  ASSUME NEW S, NEW T, IsFiniteSet(S), T \subseteq S, NEW v, NEW w, \A x \in T : v[x] = w[x],
         NEW f, NEW g, Folds(f, v, S), Folds(g, w, T)
  PROVE  \A s \in SUBSET T : f[s] = g[s]
  <1> DEFINE Bad == {s \in SUBSET T : f[s] # g[s]}
             Sizes == {n \in Nat : \E s \in Bad : Cardinality(s) = n}
  <1> SUFFICES ASSUME NEW b \in Bad PROVE FALSE
    OBVIOUS
  <1>1. ASSUME NEW s \in SUBSET T
        PROVE  IsFiniteSet(s) /\ Cardinality(s) \in Nat
    BY FS_Subset, FS_CardinalityType
  <1>2. Sizes # {} /\ Sizes \in SUBSET Nat
    BY <1>1
  <1>3. PICK m \in Sizes : \A k \in Sizes : m <= k
    BY <1>2, LeastNatural
  <1>4. PICK s \in Bad : Cardinality(s) = m
    BY <1>3
  <1>5. s # {}
    BY <1>4 DEF Folds
  <1> DEFINE rest == s \ {Any(s)}
  <1>6. Any(s) \in s /\ rest \in SUBSET T /\ Cardinality(rest) = m - 1 /\ m \in Nat /\ m - 1 \in Nat
    <2>1. Any(s) \in s
      BY <1>5, AnyIn
    <2>2. IsFiniteSet(s) /\ m \in Nat
      BY <1>1, <1>4
    <2>3. Cardinality(rest) = m - 1
      BY <1>4, <2>1, <2>2, FS_RemoveElement
    <2>4. rest \in SUBSET T
      BY <1>4
    <2>5. m - 1 \in Nat
      BY <1>1, <2>3, <2>4
    <2> QED BY <2>1, <2>2, <2>3, <2>4, <2>5
  <1>7. f[rest] = g[rest]
    <2> SUFFICES ASSUME rest \in Bad PROVE FALSE
      BY <1>6
    <2>1. m - 1 \in Sizes
      BY <1>6
    <2> HIDE DEF Sizes
    <2> QED BY <1>3, <1>6, <2>1
  <1>8. s \in SUBSET S
    BY <1>4
  <1>9. f[s] = v[Any(s)] + f[rest]
    BY <1>5, <1>8 DEF Folds
  <1>10. g[s] = w[Any(s)] + g[rest]
    BY <1>4, <1>5 DEF Folds
  <1>11. v[Any(s)] = w[Any(s)]
    BY <1>4, <1>6
  <1> QED BY <1>4, <1>7, <1>9, <1>10, <1>11

SumFold(w, S) == CHOOSE f : f = [s \in SUBSET S |-> IF s = {} THEN 0 ELSE w[Any(s)] + f[s \ {Any(s)}]]

(* The sum of a function of the community modules is the fold's value.     *)
LEMMA SumIsFold ==
  ASSUME NEW S, IsFiniteSet(S), NEW w \in [S -> Int]
  PROVE  \E f \in [SUBSET S -> Int] : Folds(f, w, S) /\ SumFunctionOnSet(w, S) = f[S]
  <1>1. PICK f \in [SUBSET S -> Int] : Folds(f, w, S)
    BY FoldExists
  <1>2. f = [s \in SUBSET S |-> IF s = {} THEN 0 ELSE w[Any(s)] + f[s \ {Any(s)}]]
    BY <1>1 DEF Folds
  <1>3. SumFold(w, S) = [s \in SUBSET S |-> IF s = {} THEN 0 ELSE w[Any(s)] + SumFold(w, S)[s \ {Any(s)}]]
    BY <1>2 DEF SumFold
  <1>4. SumFunctionOnSet(w, S) = SumFold(w, S)[S]
    BY DEF SumFunctionOnSet, FoldFunctionOnSet, MapThenFoldSet, SumFold, Any
  <1>5. Folds(SumFold(w, S), w, S)
    BY <1>3 DEF Folds
  <1>6. \A s \in SUBSET S : SumFold(w, S)[s] = f[s]
    BY <1>1, <1>5, FoldsAgree
  <1> QED BY <1>1, <1>4, <1>6

(* Folds over a set and over a subset of it agree on the subset, so what   *)
(* follows may speak of the values of one fold.                            *)
LEMMA SumOfSubset ==
  ASSUME NEW S, IsFiniteSet(S), NEW w \in [S -> Int], NEW f \in [SUBSET S -> Int], Folds(f, w, S),
         NEW T \in SUBSET S, NEW v \in [T -> Int], \A x \in T : v[x] = w[x]
  PROVE  SumFunctionOnSet(v, T) = f[T]
  <1>1. IsFiniteSet(T)
    BY FS_Subset
  <1>2. PICK g \in [SUBSET T -> Int] : Folds(g, v, T) /\ SumFunctionOnSet(v, T) = g[T]
    BY <1>1, SumIsFold
  <1>3. f[T] = g[T]
    BY <1>2, FoldsAgree
  <1> QED BY <1>2, <1>3

(* The value of a fold at a set is what one element weighs and the value   *)
(* at the rest, whichever element is taken out.                            *)
TakesAny(f, w, S) == \A s \in SUBSET S : \A x \in s : f[s] = w[x] + f[s \ {x}]

LEMMA FoldTakesAny ==
  ASSUME NEW S, IsFiniteSet(S), NEW w \in [S -> Int], NEW f \in [SUBSET S -> Int], Folds(f, w, S)
  PROVE  TakesAny(f, w, S)
  <1> DEFINE Holds(s) == \A x \in s : f[s] = w[x] + f[s \ {x}]
             Bad == {s \in SUBSET S : ~Holds(s)}
             Sizes == {n \in Nat : \E s \in Bad : Cardinality(s) = n}
  <1> SUFFICES ASSUME NEW b \in Bad PROVE FALSE
    BY DEF TakesAny
  <1>1. ASSUME NEW s \in SUBSET S PROVE IsFiniteSet(s) /\ Cardinality(s) \in Nat
    BY FS_Subset, FS_CardinalityType
  <1>2. Sizes # {} /\ Sizes \in SUBSET Nat
    BY <1>1
  <1>3. PICK m \in Sizes : \A k \in Sizes : m <= k
    BY <1>2, LeastNatural
  <1>4. PICK s \in Bad : Cardinality(s) = m
    BY <1>3
  <1>5. PICK x \in s : f[s] # w[x] + f[s \ {x}]
    BY <1>4
  <1> DEFINE y == Any(s)
             rest == s \ {x, y}
  <1>6. y \in s /\ x \in S /\ y \in S
    BY <1>4, <1>5, AnyIn
  <1>7. f[s] = w[y] + f[s \ {y}]
    BY <1>4, <1>5 DEF Folds
  <1>8. x # y
    BY <1>5, <1>7
  <1>9. ASSUME NEW z \in s PROVE s \ {z} \in SUBSET S /\ Holds(s \ {z})
    <2>1. Cardinality(s \ {z}) = m - 1 /\ m - 1 \in Nat
      <3>1. Cardinality(s \ {z}) = m - 1
        BY <1>1, <1>4, FS_RemoveElement
      <3>2. s \ {z} \in SUBSET S
        BY <1>4
      <3> QED BY <1>1, <3>1, <3>2
    <2>2. s \ {z} \in SUBSET S
      BY <1>4
    <2>3. s \ {z} \notin Bad
      <3> SUFFICES ASSUME s \ {z} \in Bad PROVE FALSE
        OBVIOUS
      <3>1. m - 1 \in Sizes
        BY <2>1
      <3> HIDE DEF Sizes
      <3> QED BY <1>2, <1>3, <2>1, <3>1
    <2> QED BY <2>2, <2>3
  <1>10. f[s \ {y}] = w[x] + f[rest]
    <2>1. x \in s \ {y} /\ (s \ {y}) \ {x} = rest
      BY <1>5, <1>8
    <2> HIDE DEF y, rest
    <2> QED BY <1>6, <1>9, <2>1
  <1>11. f[s \ {x}] = w[y] + f[rest]
    <2>1. y \in s \ {x} /\ (s \ {x}) \ {y} = rest
      BY <1>6, <1>8
    <2> HIDE DEF y, rest
    <2> QED BY <1>5, <1>9, <2>1
  <1>12. rest \in SUBSET S
    BY <1>4
  <1>13. w[x] \in Int /\ w[y] \in Int /\ f[rest] \in Int
    BY <1>6, <1>12
  <1> QED BY <1>5, <1>7, <1>10, <1>11, <1>13

(* What a sum is, in terms of sums alone.                                  *)
LEMMA SumType ==
  ASSUME NEW S, IsFiniteSet(S), NEW w \in [S -> Int]
  PROVE  SumFunctionOnSet(w, S) \in Int
  <1>1. PICK f \in [SUBSET S -> Int] : SumFunctionOnSet(w, S) = f[S]
    BY SumIsFold
  <1> QED BY <1>1

LEMMA SumEmpty == ASSUME NEW w \in [{} -> Int] PROVE SumFunctionOnSet(w, {}) = 0
  <1>1. PICK f \in [SUBSET {} -> Int] : Folds(f, w, {}) /\ SumFunctionOnSet(w, {}) = f[{}]
    BY FS_EmptySet, SumIsFold
  <1> QED BY <1>1 DEF Folds

LEMMA SumAdds ==
  ASSUME NEW S, IsFiniteSet(S), NEW x, x \notin S,
         NEW v \in [S -> Int], NEW w \in [S \cup {x} -> Int], \A y \in S : v[y] = w[y]
  PROVE  SumFunctionOnSet(w, S \cup {x}) = SumFunctionOnSet(v, S) + w[x]
  <1>1. PICK T : T = S \cup {x}
    OBVIOUS
  <1>2. IsFiniteSet(T) /\ w \in [T -> Int]
    BY <1>1, FS_AddElement
  <1>3. PICK f \in [SUBSET T -> Int] : Folds(f, w, T) /\ SumFunctionOnSet(w, T) = f[T]
    BY <1>2, SumIsFold
  <1>4. S \in SUBSET T /\ x \in T /\ T \ {x} = S /\ T \in SUBSET T
    BY <1>1
  <1>5. f[T] = w[x] + f[S]
    <2>1. TakesAny(f, w, T)
      BY <1>2, <1>3, FoldTakesAny
    <2> QED BY <1>4, <2>1 DEF TakesAny
  <1>6. SumFunctionOnSet(v, S) = f[S]
    BY <1>2, <1>3, <1>4, SumOfSubset
  <1>7. f[S] \in Int /\ w[x] \in Int
    BY <1>2, <1>4
  <1>8. SumFunctionOnSet(w, S \cup {x}) = f[T]
    BY <1>1, <1>3
  <1> QED BY <1>4, <1>5, <1>6, <1>7, <1>8

(* Among subsets of a finite set there is a smallest one: to take an       *)
(* element out of it leads out of their family.                            *)
LEMMA SmallestSubset ==
  ASSUME NEW S, IsFiniteSet(S), NEW Bad \in SUBSET SUBSET S, Bad # {}
  PROVE  \E s \in Bad : \A x \in s : s \ {x} \notin Bad
  <1> DEFINE Sizes == {n \in Nat : \E s \in Bad : Cardinality(s) = n}
  <1>1. ASSUME NEW s \in SUBSET S PROVE IsFiniteSet(s) /\ Cardinality(s) \in Nat
    BY FS_Subset, FS_CardinalityType
  <1>2. Sizes # {} /\ Sizes \in SUBSET Nat
    BY <1>1
  <1>3. PICK m \in Sizes : \A k \in Sizes : m <= k
    BY <1>2, LeastNatural
  <1>4. PICK s \in Bad : Cardinality(s) = m
    BY <1>3
  <1>5. ASSUME NEW x \in s, s \ {x} \in Bad PROVE FALSE
    <2>1. s \in SUBSET S /\ m \in Nat
      BY <1>4, <1>2
    <2>2. Cardinality(s \ {x}) = m - 1
      BY <1>1, <1>4, <2>1, FS_RemoveElement
    <2>3. Cardinality(s \ {x}) \in Sizes
      BY <1>1, <1>5
    <2> HIDE DEF Sizes
    <2> QED BY <1>3, <2>1, <2>2, <2>3
  <1> QED BY <1>4, <1>5

(* The sum of what the elements of a part of the domain weigh.             *)
SumOver(w, T) == SumFunctionOnSet([x \in T |-> w[x]], T)

(* f gives that sum of every part.                                         *)
SumsUp(f, w, S) ==
  /\ f \in [SUBSET S -> Int] /\ TakesAny(f, w, S) /\ f[{}] = 0
  /\ \A T \in SUBSET S : SumOver(w, T) = f[T]

LEMMA SumOverIsFold ==
  ASSUME NEW S, IsFiniteSet(S), NEW w \in [S -> Int]
  PROVE  \E f : SumsUp(f, w, S)
  <1>1. PICK f \in [SUBSET S -> Int] : Folds(f, w, S)
    BY FoldExists
  <1>2. TakesAny(f, w, S)
    BY <1>1, FoldTakesAny
  <1>3. f[{}] = 0
    BY <1>1 DEF Folds
  <1>4. ASSUME NEW T \in SUBSET S PROVE SumOver(w, T) = f[T]
    <2>1. PICK v : v = [x \in T |-> w[x]]
      OBVIOUS
    <2>2. v \in [T -> Int] /\ \A x \in T : v[x] = w[x]
      BY <2>1
    <2>3. SumFunctionOnSet(v, T) = f[T]
      BY <1>1, <2>2, SumOfSubset
    <2> QED BY <2>1, <2>3 DEF SumOver
  <1> QED BY <1>2, <1>3, <1>4 DEF SumsUp

Apart(T, U) == T \cap U = {}

(* Two parts with nothing in common weigh together what each weighs.       *)
LEMMA SumOverUnion ==
  ASSUME NEW S, IsFiniteSet(S), NEW w \in [S -> Int],
         NEW T \in SUBSET S, NEW U \in SUBSET S, Apart(T, U)
  PROVE  /\ SumOver(w, T) \in Int /\ SumOver(w, U) \in Int
         /\ SumOver(w, T \cup U) = SumOver(w, T) + SumOver(w, U)
  <1>1. PICK f : SumsUp(f, w, S)
    BY SumOverIsFold
  <1> DEFINE Bad == {V \in SUBSET S : T \cap V = {} /\ f[T \cup V] # f[T] + f[V]}
  <1>2. ASSUME Bad # {} PROVE FALSE
    <2>1. PICK V \in Bad : \A x \in V : V \ {x} \notin Bad
      <3> Bad \in SUBSET SUBSET S
        OBVIOUS
      <3> HIDE DEF Bad
      <3> QED BY <1>2, SmallestSubset
    <2>2. V # {}
      <3> SUFFICES ASSUME V = {} PROVE FALSE
        OBVIOUS
      <3>1. T \cup V = T /\ f[T] \in Int
        BY <1>1 DEF SumsUp
      <3> QED BY <1>1, <2>1, <3>1 DEF SumsUp
    <2>3. PICK x \in V : TRUE
      BY <2>2
    <2> DEFINE rest == V \ {x}
    <2>4. rest \in SUBSET S /\ T \cap rest = {} /\ T \cup V \in SUBSET S /\ T \cup rest \in SUBSET S
          /\ (T \cup V) \ {x} = T \cup rest /\ x \in S
      OBVIOUS
    <2>5. f[T \cup rest] = f[T] + f[rest]
      BY <2>1, <2>4
    <2>6. f[V] = w[x] + f[rest]
      BY <1>1 DEF SumsUp, TakesAny
    <2>7. f[T \cup V] = w[x] + f[T \cup rest]
      BY <1>1, <2>4 DEF SumsUp, TakesAny
    <2>8. w[x] \in Int /\ f[T] \in Int /\ f[rest] \in Int /\ f[T \cup rest] \in Int
      BY <1>1, <2>4 DEF SumsUp
    <2> QED BY <2>1, <2>5, <2>6, <2>7, <2>8
  <1>3. f[T \cup U] = f[T] + f[U]
    BY <1>2 DEF Apart
  <1> QED BY <1>1, <1>3 DEF SumsUp

(* What weighs nothing less than nothing weighs no less with more of it.   *)
LEMMA SumOverGrows ==
  ASSUME NEW S, IsFiniteSet(S), NEW w \in [S -> Nat], NEW T \in SUBSET S, NEW U \in SUBSET T
  PROVE  SumOver(w, U) \in Nat /\ SumOver(w, T) \in Nat /\ SumOver(w, U) <= SumOver(w, T)
  <1>0. w \in [S -> Int]
    OBVIOUS
  <1>1. PICK f : SumsUp(f, w, S)
    BY <1>0, SumOverIsFold
  <1> DEFINE Bad == {V \in SUBSET S : f[V] \notin Nat}
  <1>2. ASSUME Bad # {} PROVE FALSE
    <2>1. PICK V \in Bad : \A x \in V : V \ {x} \notin Bad
      <3> Bad \in SUBSET SUBSET S
        OBVIOUS
      <3> HIDE DEF Bad
      <3> QED BY <1>2, SmallestSubset
    <2>2. PICK x \in V : TRUE
      <3>1. f[{}] \in Nat
        BY <1>1 DEF SumsUp
      <3>2. {} \notin Bad
        BY <3>1
      <3> HIDE DEF Bad
      <3> QED BY <2>1, <3>2
    <2>3. V \ {x} \in SUBSET S /\ x \in S
      OBVIOUS
    <2>4. f[V \ {x}] \in Nat
      BY <2>1, <2>3
    <2>5. f[V] = w[x] + f[V \ {x}]
      BY <1>1 DEF SumsUp, TakesAny
    <2> QED BY <2>1, <2>3, <2>4, <2>5
  <1>3. \A V \in SUBSET S : SumOver(w, V) \in Nat
    BY <1>1, <1>2 DEF SumsUp
  <1>4. PICK V : V = T \ U /\ V \in SUBSET S /\ Apart(U, V)
    <2>1. T \ U \in SUBSET S /\ Apart(U, T \ U)
      BY DEF Apart
    <2> QED BY <2>1
  <1>5. SumOver(w, U \cup V) = SumOver(w, U) + SumOver(w, V)
    BY <1>0, <1>4, SumOverUnion
  <1>6. U \cup V = T
    BY <1>4
  <1>7. SumOver(w, T) = SumOver(w, U) + SumOver(w, V)
    BY <1>5, <1>6
  <1>8. SumOver(w, U) \in Nat /\ SumOver(w, T) \in Nat /\ SumOver(w, V) \in Nat
    BY <1>3, <1>4
  <1> QED BY <1>7, <1>8

LEMMA SumOverOne ==
  ASSUME NEW S, IsFiniteSet(S), NEW w \in [S -> Int], NEW x \in S
  PROVE  SumOver(w, {x}) = w[x]
  <1>1. PICK f : SumsUp(f, w, S)
    BY SumOverIsFold
  <1>2. {x} \in SUBSET S /\ {x} \ {x} = {}
    OBVIOUS
  <1>3. f[{x}] = w[x] + f[{}]
    BY <1>1, <1>2 DEF SumsUp, TakesAny
  <1> QED BY <1>1, <1>2, <1>3 DEF SumsUp

LEMMA SumOverAdds ==
  ASSUME NEW S, IsFiniteSet(S), NEW w \in [S -> Int], NEW T \in SUBSET S, NEW x \in S, x \notin T
  PROVE  SumOver(w, T) \in Int /\ SumOver(w, T \cup {x}) = SumOver(w, T) + w[x]
  <1>1. PICK U \in SUBSET S : U = {x}
    OBVIOUS
  <1>2. Apart(T, U)
    BY <1>1 DEF Apart
  <1>3. SumOver(w, T) \in Int /\ SumOver(w, T \cup U) = SumOver(w, T) + SumOver(w, U)
    BY <1>1, <1>2, SumOverUnion
  <1>4. SumOver(w, U) = w[x]
    BY <1>1, SumOverOne
  <1> QED BY <1>1, <1>3, <1>4

LEMMA SumOverNone ==
  ASSUME NEW w PROVE SumOver(w, {}) = 0
  <1>1. PICK v : v = [x \in {} |-> w[x]]
    OBVIOUS
  <1> QED BY <1>1, SumEmpty DEF SumOver

(* The sum looks at the weights of its part alone.                         *)
LEMMA SumOverSame ==
  ASSUME NEW T, NEW v, NEW w, \A x \in T : v[x] = w[x]
  PROVE  SumOver(v, T) = SumOver(w, T)
  <1>1. [x \in T |-> v[x]] = [x \in T |-> w[x]]
    OBVIOUS
  <1> QED BY <1>1 DEF SumOver

LEMMA SumOverZero ==
  ASSUME NEW S, IsFiniteSet(S), NEW w, \A x \in S : w[x] = 0
  PROVE  SumOver(w, S) = 0
  <1>1. PICK v : v = [x \in S |-> 0]
    OBVIOUS
  <1>2. v \in [S -> Int] /\ \A x \in S : w[x] = v[x]
    BY <1>1
  <1>3. PICK f : SumsUp(f, v, S)
    BY <1>2, SumOverIsFold
  <1> DEFINE Bad == {V \in SUBSET S : f[V] # 0}
  <1>4. ASSUME Bad # {} PROVE FALSE
    <2>1. PICK V \in Bad : \A x \in V : V \ {x} \notin Bad
      <3> Bad \in SUBSET SUBSET S
        OBVIOUS
      <3> HIDE DEF Bad
      <3> QED BY <1>4, SmallestSubset
    <2>2. PICK x \in V : TRUE
      <3>1. {} \notin Bad
        BY <1>3 DEF SumsUp
      <3> HIDE DEF Bad
      <3> QED BY <2>1, <3>1
    <2>3. f[V \ {x}] = 0
      BY <2>1
    <2>4. f[V] = v[x] + f[V \ {x}]
      BY <1>3 DEF SumsUp, TakesAny
    <2> QED BY <1>1, <2>1, <2>3, <2>4
  <1>5. SumOver(v, S) = 0
    BY <1>3, <1>4 DEF SumsUp
  <1> QED BY <1>2, <1>5, SumOverSame

(* Renaming the elements one by one keeps the sum of what they weigh.      *)
LEMMA SumOverRenamed ==
  ASSUME NEW S, IsFiniteSet(S), NEW w \in [S -> Int], NEW g, NEW v,
         \A x \in S : v[g[x]] = w[x],
         \A x, y \in S : g[x] = g[y] => x = y
  PROVE  SumOver(v, {g[x] : x \in S}) = SumOver(w, S)
  <1> DEFINE Im(s) == {g[x] : x \in s}
             Bad == {s \in SUBSET S : SumOver(v, Im(s)) # SumOver(w, s)}
  <1>1. PICK T : T = Im(S)
    OBVIOUS
  <1>2. IsFiniteSet(T)
    <2>1. PICK h : h = [x \in S |-> g[x]]
      OBVIOUS
    <2>2. h \in Surjection(S, T)
      BY <1>1, <2>1 DEF Surjection
    <2> QED BY <2>2, FS_Surjection
  <1>3. PICK u : u = [y \in T |-> v[y]]
    OBVIOUS
  <1>4. u \in [T -> Int] /\ \A x \in S : g[x] \in T /\ u[g[x]] = w[x]
    <2>1. \A x \in S : g[x] \in T /\ w[x] \in Int
      BY <1>1
    <2>2. \A y \in T : \E x \in S : y = g[x]
      BY <1>1
    <2>3. \A y \in T : v[y] \in Int
      BY <2>1, <2>2
    <2> QED BY <1>3, <2>1, <2>3
  <1>5. ASSUME NEW s \in SUBSET S PROVE SumOver(v, Im(s)) = SumOver(u, Im(s)) /\ Im(s) \in SUBSET T
    <2>1. Im(s) \subseteq T
      BY <1>1
    <2>2. \A y \in Im(s) : v[y] = u[y]
      BY <1>3, <2>1
    <2> HIDE DEF Im
    <2> QED BY <2>1, <2>2, SumOverSame
  <1>6. Bad = {}
    <2> SUFFICES ASSUME Bad # {} PROVE FALSE
      OBVIOUS
    <2>1. PICK s \in Bad : \A x \in s : s \ {x} \notin Bad
      <3>1. Bad \in SUBSET SUBSET S
        OBVIOUS
      <3> HIDE DEF Bad
      <3> QED BY <3>1, SmallestSubset
    <2>2. s \in SUBSET S /\ SumOver(v, Im(s)) # SumOver(w, s)
      BY <2>1
    <2>3. s # {}
      <3>1. SumOver(v, {}) = 0 /\ SumOver(w, {}) = 0
        BY SumOverNone
      <3>2. Im({}) = {}
        OBVIOUS
      <3> HIDE DEF Im
      <3> QED BY <2>2, <3>1, <3>2
    <2>4. PICK x \in s : TRUE
      BY <2>3
    <2>5. PICK t : t = s \ {x}
      OBVIOUS
    <2>6. t \in SUBSET S /\ x \in S /\ x \notin t /\ s = t \cup {x} /\ t \notin Bad
      BY <2>1, <2>2, <2>4, <2>5
    <2>7. SumOver(v, Im(t)) = SumOver(w, t)
      BY <2>6
    <2>8. SumOver(w, s) = SumOver(w, t) + w[x]
      BY <2>6, SumOverAdds
    <2>9. Im(s) = Im(t) \cup {g[x]} /\ g[x] \notin Im(t)
      BY <2>6
    <2>10. SumOver(u, Im(t) \cup {g[x]}) = SumOver(u, Im(t)) + u[g[x]]
      <3>1. Im(t) \in SUBSET T /\ g[x] \in T
        BY <1>4, <1>5, <2>6
      <3> HIDE DEF Im
      <3> QED BY <1>2, <1>4, <2>9, <3>1, SumOverAdds
    <2> HIDE DEF Im
    <2> QED BY <1>4, <1>5, <2>2, <2>6, <2>7, <2>8, <2>9, <2>10
  <1>7. S \notin Bad
    BY <1>6
  <1> QED BY <1>7

LEMMA SumOfAll == ASSUME NEW w, NEW S, NEW v, v = [x \in S |-> w[x]] PROVE SumFunction(v) = SumOver(w, S)
  BY DEF SumFunction, SumOver

(***************************************************************************)
(* Sequences.                                                              *)
(***************************************************************************)
LEMMA AppendAdds ==
  ASSUME NEW S, NEW s \in Seq(S), NEW x \in S, NEW t, t = Append(s, x), NEW k, k = Len(s) + 1
  PROVE  /\ t \in Seq(S) /\ DOMAIN t = DOMAIN s \cup {k} /\ k \notin DOMAIN s
         /\ t[k] = x /\ \A i \in DOMAIN s : t[i] = s[i] /\ s[i] \in S
  <1>1. t \in Seq(S) /\ Len(t) = k /\ Len(s) \in Nat /\ DOMAIN t = 1..Len(t) /\ DOMAIN s = 1..Len(s)
    OBVIOUS
  <1>2. t[k] = x /\ \A i \in DOMAIN s : t[i] = s[i] /\ s[i] \in S
    BY <1>1
  <1> QED BY <1>1, <1>2

LEMMA SameLength ==
  ASSUME NEW S, NEW s \in Seq(S), NEW t, t = [i \in DOMAIN s |-> t[i]], \A i \in DOMAIN s : t[i] \in S
  PROVE  t \in Seq(S)
  <1>1. DOMAIN s = 1..Len(s) /\ Len(s) \in Nat
    OBVIOUS
  <1>2. t \in [1..Len(s) -> S]
    BY <1>1
  <1> QED BY <1>1, <1>2

LEMMA ElementsOfSeq ==
  ASSUME NEW S, NEW s \in Seq(S)
  PROVE  /\ DOMAIN s \subseteq Nat /\ DOMAIN s = 1..Len(s) /\ Len(s) \in Nat
         /\ s = [i \in DOMAIN s |-> s[i]] /\ \A i \in DOMAIN s : s[i] \in S
  OBVIOUS

(***************************************************************************)
(* Counting.                                                               *)
(***************************************************************************)
LEMMA SubsetCounts ==
  ASSUME NEW B, IsFiniteSet(B), NEW C, C \subseteq B
  PROVE  IsFiniteSet(C) /\ Cardinality(C) \in Nat /\ Cardinality(B) \in Nat /\ Cardinality(C) <= Cardinality(B)
  BY FS_Subset, FS_CardinalityType

LEMMA OneMoreCounts ==
  ASSUME NEW B, IsFiniteSet(B), NEW y, NEW C, C \subseteq B \cup {y}
  PROVE  IsFiniteSet(C) /\ Cardinality(C) \in Nat /\ Cardinality(B) \in Nat /\ Cardinality(C) <= Cardinality(B) + 1
  <1>1. IsFiniteSet(B \cup {y}) /\ Cardinality(B \cup {y}) <= Cardinality(B) + 1 /\ Cardinality(B) \in Nat
    <2>1. Cardinality(B) \in Nat
      BY FS_CardinalityType
    <2>2. /\ IsFiniteSet(B \cup {y})
          /\ Cardinality(B \cup {y}) = IF y \in B THEN Cardinality(B) ELSE Cardinality(B) + 1
      BY FS_AddElement
    <2> QED BY <2>1, <2>2
  <1> PICK D : D = B \cup {y}
    OBVIOUS
  <1>2. IsFiniteSet(C) /\ Cardinality(C) \in Nat /\ Cardinality(D) \in Nat /\ Cardinality(C) <= Cardinality(D)
    BY <1>1, SubsetCounts
  <1> QED BY <1>1, <1>2

LEMMA OneLessCounts ==
  ASSUME NEW B, IsFiniteSet(B), NEW x \in B
  PROVE  IsFiniteSet(B \ {x}) /\ Cardinality(B \ {x}) \in Nat /\ Cardinality(B) = Cardinality(B \ {x}) + 1
  <1>1. IsFiniteSet(B \ {x}) /\ Cardinality(B \ {x}) = Cardinality(B) - 1
    BY FS_RemoveElement
  <1>2. Cardinality(B \ {x}) \in Nat /\ Cardinality(B) \in Nat
    BY <1>1, FS_CardinalityType
  <1> QED BY <1>1, <1>2
=============================================================================
