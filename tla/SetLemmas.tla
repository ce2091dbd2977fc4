----------------------------- MODULE SetLemmas -----------------------------
(***************************************************************************)
(* Facts about finite sets, and about the sums FiniteSetsExt folds over    *)
(* them, that the theorems of several components rest on.  Induction over  *)
(* a finite set is written as an argument about a smallest counterexample. *)
(***************************************************************************)
EXTENDS Integers, FiniteSetsExt, TLAPS, FiniteSetTheorems

(* Of any natural numbers, one is the smallest. *)
LEMMA SmallestNumber ==
    ASSUME NEW S \in SUBSET Nat, S # {} PROVE \E n \in S : \A k \in S : n <= k
<1> DEFINE below == OpToRel(<, Nat)
<1>1. IsWellFoundedOn(below, Nat)
  BY NatLessThanWellFounded DEF below
<1>2. PICK n \in S : \A k \in S : ~(<<k, n>> \in below)
  <2> HIDE DEF below
  <2> QED BY <1>1, WFMin
<1>3. \A k \in S : ~(k < n)
  BY <1>2 DEF OpToRel
<1> QED BY <1>3

(* Of any subsets of a finite set, some contain no other. *)
LEMMA SmallestSubset ==
    ASSUME NEW S, IsFiniteSet(S), NEW T, \A s \in T : s \subseteq S, T # {}
    PROVE  \E s \in T : \A u \in T : u \subseteq s => u = s
<1> DEFINE sizes == {Cardinality(s) : s \in T}
           below == OpToRel(<, Nat)
<1>1. \A s \in T : IsFiniteSet(s) /\ Cardinality(s) \in Nat
  BY FS_Subset, FS_CardinalityType
<1>2. sizes \subseteq Nat /\ sizes # {}
  BY <1>1
<1>3. PICK n \in sizes : \A m \in sizes : ~(<<m, n>> \in below)
  <2> HIDE DEF sizes, below
  <2>1. IsWellFoundedOn(below, Nat)
    BY NatLessThanWellFounded DEF below
  <2> QED BY <1>2, <2>1, WFMin
<1>4. \A m \in sizes : ~(m < n)
  BY <1>2, <1>3 DEF OpToRel
<1>5. PICK s \in T : n = Cardinality(s)
  OBVIOUS
<1>6. ASSUME NEW u \in T, u \subseteq s PROVE u = s
  <2>1. Cardinality(u) <= Cardinality(s) /\ (Cardinality(s) = Cardinality(u) => s = u)
    BY <1>1, <1>6, FS_Subset
  <2>2. ~(Cardinality(u) < Cardinality(s))
    BY <1>4, <1>5
  <2> QED BY <1>1, <2>1, <2>2
<1> QED BY <1>6

(* A finite set of numbers has a greatest one, and Max is it, *)
LEMMA GreatestExists ==
    ASSUME NEW S \in SUBSET Int, IsFiniteSet(S), S # {}
    PROVE  Max(S) \in S /\ \A y \in S : y <= Max(S)
<1>1. \E x \in S : \A y \in S : x >= y
  <2> DEFINE Bad == {s \in SUBSET S : s # {} /\ \A x \in s : \E y \in s : ~(x >= y)}
  <2> SUFFICES ASSUME Bad # {} PROVE FALSE
    OBVIOUS
  <2>1. PICK s \in Bad : \A u \in Bad : u \subseteq s => u = s
    <3>1. Bad # {} /\ \A s \in Bad : s \subseteq S
      OBVIOUS
    <3> HIDE DEF Bad
    <3> QED BY <3>1, SmallestSubset
  <2>2. PICK x \in s : TRUE
    OBVIOUS
  <2>3. s \ {x} # {}
    <3>1. x \in Int /\ x >= x
      BY <2>1, <2>2
    <3> QED BY <2>1, <2>2, <3>1
  <2>4. PICK m \in s \ {x} : \A y \in s \ {x} : m >= y
    <3>1. s \ {x} \notin Bad
      BY <2>1, <2>2
    <3>2. s \ {x} \in SUBSET S
      BY <2>1
    <3> QED BY <2>3, <3>1, <3>2
  <2>5. m \in Int /\ x \in Int /\ \A y \in s : y \in Int
    OBVIOUS
  <2>6. CASE m >= x
    BY <2>4, <2>5, <2>6
  <2>7. CASE x >= m
    <3>1. \A y \in s : x >= y
      BY <2>4, <2>5, <2>7
    <3> QED BY <3>1
  <2> QED BY <2>5, <2>6, <2>7
<1> QED BY <1>1 DEF Max

(* and a least one, which is Min. *)
LEMMA LeastExists ==
    ASSUME NEW S \in SUBSET Int, IsFiniteSet(S), S # {}
    PROVE  Min(S) \in S /\ \A y \in S : Min(S) <= y
<1>1. \E x \in S : \A y \in S : x <= y
  <2> DEFINE Bad == {s \in SUBSET S : s # {} /\ \A x \in s : \E y \in s : ~(x <= y)}
  <2> SUFFICES ASSUME Bad # {} PROVE FALSE
    OBVIOUS
  <2>1. PICK s \in Bad : \A u \in Bad : u \subseteq s => u = s
    <3>1. Bad # {} /\ \A s \in Bad : s \subseteq S
      OBVIOUS
    <3> HIDE DEF Bad
    <3> QED BY <3>1, SmallestSubset
  <2>2. PICK x \in s : TRUE
    OBVIOUS
  <2>3. s \ {x} # {}
    <3>1. x \in Int /\ x <= x
      BY <2>1, <2>2
    <3> QED BY <2>1, <2>2, <3>1
  <2>4. PICK m \in s \ {x} : \A y \in s \ {x} : m <= y
    <3>1. s \ {x} \notin Bad
      BY <2>1, <2>2
    <3>2. s \ {x} \in SUBSET S
      BY <2>1
    <3> QED BY <2>3, <3>1, <3>2
  <2>5. m \in Int /\ x \in Int /\ \A y \in s : y \in Int
    OBVIOUS
  <2>6. CASE m <= x
    BY <2>4, <2>5, <2>6
  <2>7. CASE x <= m
    <3>1. \A y \in s : x <= y
      BY <2>4, <2>5, <2>7
    <3> QED BY <3>1
  <2> QED BY <2>5, <2>6, <2>7
<1> QED BY <1>1 DEF Min

(* The extremes of one number, *)
LEMMA OfOne == ASSUME NEW a \in Int PROVE Max({a}) = a /\ Min({a}) = a
<1> DEFINE S == {a}
<1>1. S \in SUBSET Int /\ S # {} /\ IsFiniteSet(S)
  BY FS_Singleton
<1>2. Max(S) \in S /\ Min(S) \in S
  <2> HIDE DEF S
  <2> QED BY <1>1, GreatestExists, LeastExists
<1> QED BY <1>2

(* of two, *)
LEMMA OfTwo ==
    ASSUME NEW a \in Int, NEW b \in Int
    PROVE  /\ Max({a, b}) = IF a >= b THEN a ELSE b
           /\ Min({a, b}) = IF a <= b THEN a ELSE b
<1> DEFINE S == {a, b}
<1>1. S \in SUBSET Int /\ S # {} /\ IsFiniteSet(S)
  <2>1. IsFiniteSet({a}) /\ IsFiniteSet({b})
    BY FS_Singleton
  <2>2. S = {a} \cup {b}
    OBVIOUS
  <2> QED BY <2>1, <2>2, FS_Union
<1>2. /\ Max(S) \in S /\ \A y \in S : y <= Max(S)
      /\ Min(S) \in S /\ \A y \in S : Min(S) <= y
  <2> HIDE DEF S
  <2> QED BY <1>1, GreatestExists, LeastExists
<1> QED BY <1>2

(* and of a set with one number more. *)
LEMMA OneMoreExtreme ==
    ASSUME NEW S \in SUBSET Int, IsFiniteSet(S), S # {}, NEW v \in Int
    PROVE  /\ Max(S \cup {v}) = Max({Max(S), v})
           /\ Min(S \cup {v}) = Min({Min(S), v})
<1> DEFINE T == S \cup {v}
<1>1. IsFiniteSet(T) /\ T \in SUBSET Int /\ T # {}
  BY FS_AddElement
<1>2. /\ Max(S) \in S /\ \A y \in S : y <= Max(S)
      /\ Min(S) \in S /\ \A y \in S : Min(S) <= y
  BY GreatestExists, LeastExists
<1>3. /\ Max(T) \in T /\ \A y \in T : y <= Max(T)
      /\ Min(T) \in T /\ \A y \in T : Min(T) <= y
  <2> HIDE DEF T
  <2> QED BY <1>1, GreatestExists, LeastExists
<1>4. Max(S) \in Int /\ Min(S) \in Int
  BY <1>2
<1>5. /\ Max({Max(S), v}) = IF Max(S) >= v THEN Max(S) ELSE v
      /\ Min({Min(S), v}) = IF Min(S) <= v THEN Min(S) ELSE v
  BY <1>4, OfTwo
<1>6. Max(T) = IF Max(S) >= v THEN Max(S) ELSE v
  <2>1. Max(T) \in S \/ Max(T) = v
    BY <1>3
  <2>2. Max(S) <= Max(T) /\ v <= Max(T) /\ Max(T) \in Int
    BY <1>1, <1>2, <1>3
  <2>3. Max(T) \in S => Max(T) <= Max(S)
    BY <1>2
  <2> QED BY <1>4, <2>1, <2>2, <2>3
<1>7. Min(T) = IF Min(S) <= v THEN Min(S) ELSE v
  <2>1. Min(T) \in S \/ Min(T) = v
    BY <1>3
  <2>2. Min(T) <= Min(S) /\ Min(T) <= v /\ Min(T) \in Int
    BY <1>1, <1>2, <1>3
  <2>3. Min(T) \in S => Min(S) <= Min(T)
    BY <1>2
  <2> QED BY <1>4, <2>1, <2>2, <2>3
<1> QED BY <1>5, <1>6, <1>7
-----------------------------------------------------------------------------
(* The function MapThenSumSet(g, S) builds, up to the application to S. *)
FoldStep(g, iter, s) ==
    IF s = {} THEN 0 ELSE g[CHOOSE x \in s : TRUE] + iter[s \ {CHOOSE x \in s : TRUE}]
Fold(g, iter, S) == iter = [s \in SUBSET S |-> FoldStep(g, iter, s)]

(* What a sum over subsets should be: any element may be taken out. *)
Measure(g, m, S) ==
    /\ m \in [SUBSET S -> Int] /\ m[{}] = 0
    /\ \A s \in SUBSET S : \A x \in s : m[s] = g[x] + m[s \ {x}]

(* A measure is a fold ... *)
LEMMA MeasureFolds ==
    ASSUME NEW S, NEW g, NEW m, Measure(g, m, S) PROVE Fold(g, m, S)
<1>1. \A s \in SUBSET S : m[s] = FoldStep(g, m, s)
  <2> SUFFICES ASSUME NEW s \in SUBSET S PROVE m[s] = FoldStep(g, m, s)
    OBVIOUS
  <2>1. CASE s = {}
    BY <2>1 DEF Measure, FoldStep
  <2>2. CASE s # {}
    <3>1. (CHOOSE x \in s : TRUE) \in s
      BY <2>2
    <3> QED BY <2>2, <3>1 DEF Measure, FoldStep
  <2> QED BY <2>1, <2>2
<1>2. m = [s \in SUBSET S |-> m[s]]
  BY DEF Measure
<1> QED BY <1>1, <1>2 DEF Fold

(* ... there is but one ... *)
LEMMA FoldUnique ==
    ASSUME NEW S, IsFiniteSet(S), NEW g, NEW a, Fold(g, a, S), NEW b, Fold(g, b, S)
    PROVE  a = b
<1> DEFINE Bad == {s \in SUBSET S : a[s] # b[s]}
<1>1. Bad = {}
  <2> SUFFICES ASSUME Bad # {} PROVE FALSE
    OBVIOUS
  <2>1. PICK s \in Bad : \A u \in Bad : u \subseteq s => u = s
    <3>1. Bad # {} /\ \A s \in Bad : s \subseteq S
      OBVIOUS
    <3> HIDE DEF Bad
    <3> QED BY <3>1, SmallestSubset
  <2>2. a[s] = FoldStep(g, a, s) /\ b[s] = FoldStep(g, b, s)
    BY DEF Fold
  <2>3. s # {}
    BY <2>2 DEF FoldStep
  <2> DEFINE c == CHOOSE x \in s : TRUE
  <2>4. c \in s
    BY <2>3
  <2>5. s \ {c} \in SUBSET S /\ s \ {c} \notin Bad
    BY <2>1, <2>4
  <2>6. a[s \ {c}] = b[s \ {c}]
    BY <2>5
  <2> QED BY <2>2, <2>3, <2>6 DEF FoldStep
<1>2. DOMAIN a = SUBSET S /\ DOMAIN b = SUBSET S
  BY DEF Fold
<1>3. a = [s \in SUBSET S |-> a[s]] /\ b = [s \in SUBSET S |-> b[s]]
  BY DEF Fold
<1> QED BY <1>1, <1>3

(* ... and there is one. *)
LEMMA FoldExists ==
    ASSUME NEW S, IsFiniteSet(S), NEW g PROVE \E iter : Fold(g, iter, S)
<1> DEFINE Bad == {s \in SUBSET S : ~\E iter : Fold(g, iter, s)}
<1> SUFFICES ASSUME Bad # {} PROVE FALSE
  OBVIOUS
<1>1. PICK s \in Bad : \A u \in Bad : u \subseteq s => u = s
  <2>1. Bad # {} /\ \A s \in Bad : s \subseteq S
    OBVIOUS
  <2> HIDE DEF Bad
  <2> QED BY <2>1, SmallestSubset
<1> DEFINE On(u) == CHOOSE iter : Fold(g, iter, u)
           low == [u \in SUBSET s |-> On(u)[u]]
           iter == [u \in SUBSET s |-> FoldStep(g, low, u)]
<1>2. \A u \in SUBSET s : u # s => Fold(g, On(u), u)
  <2> SUFFICES ASSUME NEW u \in SUBSET s, u # s PROVE Fold(g, On(u), u)
    OBVIOUS
  <2>1. u \in SUBSET S /\ u \notin Bad
    BY <1>1
  <2>2. \E i : Fold(g, i, u)
    BY <2>1
  <2> QED BY <2>2
<1>3. \A u \in SUBSET s : u # s => \A w \in SUBSET u : On(u)[w] = low[w]
  <2> SUFFICES ASSUME NEW u \in SUBSET s, u # s, NEW w \in SUBSET u
               PROVE  On(u)[w] = low[w]
    OBVIOUS
  <2> DEFINE cut == [v \in SUBSET w |-> On(u)[v]]
  <2>1. w \in SUBSET s /\ w # s
    OBVIOUS
  <2>2. Fold(g, On(u), u) /\ Fold(g, On(w), w)
    BY <1>2, <2>1
  <2>3. Fold(g, cut, w)
    <3>1. \A v \in SUBSET w : FoldStep(g, cut, v) = On(u)[v]
      <4> SUFFICES ASSUME NEW v \in SUBSET w PROVE FoldStep(g, cut, v) = On(u)[v]
        OBVIOUS
      <4>1. On(u)[v] = FoldStep(g, On(u), v)
        <5> HIDE DEF On
        <5> QED BY <2>2 DEF Fold
      <4>2. v \ {CHOOSE x \in v : TRUE} \in SUBSET w
        OBVIOUS
      <4> QED BY <4>1, <4>2 DEF FoldStep
    <3>2. cut = [v \in SUBSET w |-> FoldStep(g, cut, v)]
      BY <3>1
    <3> HIDE DEF cut
    <3> QED BY <3>2 DEF Fold
  <2>4. IsFiniteSet(w)
    BY FS_Subset
  <2>5. cut = On(w)
    <3> HIDE DEF cut, On
    <3> QED BY <2>2, <2>3, <2>4, FoldUnique
  <2>6. cut[w] = On(u)[w]
    OBVIOUS
  <2> QED BY <2>1, <2>5, <2>6
<1>4. \A u \in SUBSET s : FoldStep(g, iter, u) = FoldStep(g, low, u)
  <2> SUFFICES ASSUME NEW u \in SUBSET s, u # {} PROVE FoldStep(g, iter, u) = FoldStep(g, low, u)
    BY DEF FoldStep
  <2> DEFINE w == u \ {CHOOSE x \in u : TRUE}
  <2>1. (CHOOSE x \in u : TRUE) \in u
    OBVIOUS
  <2>2. w \in SUBSET s /\ w # s
    BY <2>1
  <2>3. Fold(g, On(w), w) /\ \A v \in SUBSET w : On(w)[v] = low[v]
    BY <1>2, <1>3, <2>2
  <2>4. On(w)[w] = FoldStep(g, On(w), w)
    <3> HIDE DEF On, w, low
    <3> QED BY <2>3 DEF Fold
  <2>5. FoldStep(g, On(w), w) = FoldStep(g, low, w)
    <3>1. w \ {CHOOSE x \in w : TRUE} \in SUBSET w
      OBVIOUS
    <3> HIDE DEF On, w, low
    <3> QED BY <2>3, <3>1 DEF FoldStep
  <2>6. iter[w] = FoldStep(g, low, w) /\ low[w] = On(w)[w]
    BY <2>2
  <2>7. iter[w] = low[w]
    BY <2>4, <2>5, <2>6
  <2> HIDE DEF On, low, iter
  <2> QED BY <2>7 DEF FoldStep
<1>5. Fold(g, iter, s)
  <2>1. iter = [u \in SUBSET s |-> FoldStep(g, iter, u)]
    BY <1>4
  <2> HIDE DEF iter
  <2> QED BY <2>1 DEF Fold
<1> QED BY <1>1, <1>5

(* The fold of integers is a measure, whatever CHOOSE takes out first. *)
LEMMA FoldMeasures ==
    ASSUME NEW S, IsFiniteSet(S), NEW g, \A x \in S : g[x] \in Int,
           NEW m, Fold(g, m, S)
    PROVE  Measure(g, m, S)
<1>1. \A s \in SUBSET S : m[s] = FoldStep(g, m, s)
  BY DEF Fold
<1>2. \A s \in SUBSET S : m[s] \in Int
  <2> DEFINE Bad == {s \in SUBSET S : m[s] \notin Int}
  <2> SUFFICES ASSUME Bad # {} PROVE FALSE
    OBVIOUS
  <2>1. PICK s \in Bad : \A u \in Bad : u \subseteq s => u = s
    <3>1. Bad # {} /\ \A s \in Bad : s \subseteq S
      OBVIOUS
    <3> HIDE DEF Bad
    <3> QED BY <3>1, SmallestSubset
  <2> DEFINE c == CHOOSE x \in s : TRUE
  <2>2. s # {} /\ m[s] = g[c] + m[s \ {c}]
    BY <1>1, SMTT(30) DEF FoldStep
  <2>3. c \in s /\ s \ {c} \in SUBSET S /\ s \ {c} # s
    BY <2>2
  <2>4. m[s \ {c}] \in Int /\ g[c] \in Int
    BY <2>1, <2>3
  <2> QED BY <2>2, <2>4
<1>3. \A s \in SUBSET S : \A x \in s : m[s] = g[x] + m[s \ {x}]
  <2> DEFINE Bad == {s \in SUBSET S : \E x \in s : m[s] # g[x] + m[s \ {x}]}
  <2> SUFFICES ASSUME Bad # {} PROVE FALSE
    OBVIOUS
  <2>1. PICK s \in Bad : \A u \in Bad : u \subseteq s => u = s
    <3>1. Bad # {} /\ \A s \in Bad : s \subseteq S
      OBVIOUS
    <3> HIDE DEF Bad
    <3> QED BY <3>1, SmallestSubset
  <2> DEFINE c == CHOOSE x \in s : TRUE
  <2>2. PICK x \in s : m[s] # g[x] + m[s \ {x}]
    OBVIOUS
  <2>3. c \in s /\ m[s] = g[c] + m[s \ {c}]
    BY <1>1, <2>2 DEF FoldStep
  <2>4. x # c
    BY <2>2, <2>3
  <2> HIDE DEF c
  <2>5. s \ {c} \in SUBSET S /\ s \ {x} \in SUBSET S
        /\ s \ {c} \notin Bad /\ s \ {x} \notin Bad /\ (s \ {c}) \ {x} \in SUBSET S
    BY <2>1, <2>2, <2>3
  <2>6. m[s \ {c}] = g[x] + m[(s \ {c}) \ {x}]
    BY <2>4, <2>5
  <2>7. m[s \ {x}] = g[c] + m[(s \ {x}) \ {c}]
    BY <2>3, <2>4, <2>5
  <2>8. (s \ {c}) \ {x} = (s \ {x}) \ {c}
    OBVIOUS
  <2>9. g[x] \in Int /\ g[c] \in Int /\ m[(s \ {c}) \ {x}] \in Int
    BY <1>2, <2>3, <2>5
  <2>10. m[s] = g[x] + (g[c] + m[(s \ {c}) \ {x}])
    BY <2>3, <2>6, <2>9
  <2> QED BY <2>2, <2>7, <2>8, <2>10
<1>4. m[{}] = 0
  BY <1>1 DEF FoldStep
<1>5. m \in [SUBSET S -> Int]
  BY <1>2 DEF Fold
<1> QED BY <1>3, <1>4, <1>5 DEF Measure
-----------------------------------------------------------------------------
(* The values of a function on a finite set are finitely many. *)
LEMMA ImageIsFinite ==
    ASSUME NEW f, IsFiniteSet(DOMAIN f) PROVE IsFiniteSet({f[x] : x \in DOMAIN f})
<1> DEFINE image == {f[x] : x \in DOMAIN f}
<1>1. [x \in DOMAIN f |-> f[x]] \in Surjection(DOMAIN f, image)
  BY DEF Surjection
<1> QED BY <1>1, FS_Surjection

LEMMA ImageSize ==
    ASSUME NEW f, IsFiniteSet(DOMAIN f)
    PROVE  Cardinality({f[x] : x \in DOMAIN f}) <= Cardinality(DOMAIN f)
<1> DEFINE image == {f[x] : x \in DOMAIN f}
<1>1. [x \in DOMAIN f |-> f[x]] \in Surjection(DOMAIN f, image)
  BY DEF Surjection
<1> QED BY <1>1, FS_Surjection

(* A function that tells the elements of a finite set apart has as many     *)
(* values.                                                                  *)
LEMMA ImageCounts ==
    ASSUME NEW f, IsFiniteSet(DOMAIN f), \A x, y \in DOMAIN f : f[x] = f[y] => x = y
    PROVE  Cardinality({f[x] : x \in DOMAIN f}) = Cardinality(DOMAIN f)
<1> DEFINE image == {f[x] : x \in DOMAIN f}
<1>1. [x \in DOMAIN f |-> f[x]] \in Bijection(DOMAIN f, image)
  BY DEF Bijection, Injection, Surjection, IsInjective
<1> QED BY <1>1, FS_Bijection DEF ExistsBijection

-----------------------------------------------------------------------------
(* The sum of g over S. *)
SumOver(g, S) == (CHOOSE iter : Fold(g, iter, S))[S]

(* Whatever measures g is its sum. *)
LEMMA SumIsMeasure ==
    ASSUME NEW S, IsFiniteSet(S), NEW g, NEW m, Measure(g, m, S)
    PROVE  SumOver(g, S) = m[S]
<1>1. Fold(g, m, S)
  BY MeasureFolds
<1>2. \A iter : Fold(g, iter, S) => iter = m
  BY <1>1, FoldUnique
<1>3. (CHOOSE iter : Fold(g, iter, S)) = m
  BY <1>1, <1>2
<1> QED BY <1>3 DEF SumOver

(* The sum is a measure: *)
LEMMA SumMeasured ==
    ASSUME NEW S, IsFiniteSet(S), NEW g, \A x \in S : g[x] \in Int
    PROVE  Measure(g, [s \in SUBSET S |-> SumOver(g, s)], S)
<1>1. PICK m : Fold(g, m, S)
  BY FoldExists
<1>2. Measure(g, m, S)
  BY <1>1, FoldMeasures
<1>3. ASSUME NEW s \in SUBSET S PROVE SumOver(g, s) = m[s]
  <2> DEFINE cut == [u \in SUBSET s |-> m[u]]
  <2>1. IsFiniteSet(s)
    BY FS_Subset
  <2>2. Measure(g, cut, s)
    BY <1>2 DEF Measure
  <2>3. SumOver(g, s) = cut[s]
    <3> HIDE DEF cut
    <3> QED BY <2>1, <2>2, SumIsMeasure
  <2> QED BY <2>3
<1>4. [s \in SUBSET S |-> SumOver(g, s)] = [s \in SUBSET S |-> m[s]]
  BY <1>3
<1>5. m = [s \in SUBSET S |-> m[s]]
  BY <1>2 DEF Measure
<1> QED BY <1>2, <1>4, <1>5

(* the sum of nothing is 0, and any element may be taken out of it. *)
LEMMA SumFacts ==
    ASSUME NEW S, IsFiniteSet(S), NEW g, \A x \in S : g[x] \in Int
    PROVE  /\ SumOver(g, S) \in Int /\ SumOver(g, {}) = 0
           /\ \A s \in SUBSET S : SumOver(g, s) \in Int
           /\ \A s \in SUBSET S : \A x \in s : SumOver(g, s) = g[x] + SumOver(g, s \ {x})
<1> DEFINE m == [s \in SUBSET S |-> SumOver(g, s)]
<1>1. Measure(g, m, S)
  BY SumMeasured
<1>2. S \in SUBSET S /\ {} \in SUBSET S /\ \A s \in SUBSET S : \A x \in s : s \ {x} \in SUBSET S
  OBVIOUS
<1> QED BY <1>1, <1>2 DEF Measure

(* Only the values of g on S count. *)
LEMMA SumAgrees ==
    ASSUME NEW S, IsFiniteSet(S), NEW g, \A x \in S : g[x] \in Int,
           NEW h, \A x \in S : h[x] = g[x]
    PROVE  SumOver(h, S) = SumOver(g, S)
<1> DEFINE m == [s \in SUBSET S |-> SumOver(g, s)]
<1>1. Measure(g, m, S)
  BY SumMeasured
<1>2. Measure(h, m, S)
  <2> HIDE DEF m
  <2> QED BY <1>1 DEF Measure
<1>3. SumOver(h, S) = m[S]
  <2> HIDE DEF m
  <2> QED BY <1>2, SumIsMeasure
<1> QED BY <1>3

(* The sum over disjoint sets is that of their sums. *)
LEMMA SumSplits ==
    ASSUME NEW A, IsFiniteSet(A), NEW B, IsFiniteSet(B), A \cap B = {},
           NEW g, \A x \in A \cup B : g[x] \in Int
    PROVE  SumOver(g, A \cup B) = SumOver(g, A) + SumOver(g, B)
<1> DEFINE m == [s \in SUBSET A |-> SumOver(g, s \cup B) - SumOver(g, B)]
<1>1. IsFiniteSet(A \cup B)
  BY FS_Union
<1>2. \A s \in SUBSET (A \cup B) : SumOver(g, s) \in Int
  BY <1>1, SumFacts
<1>3. Measure(g, m, A)
  <2>1. m \in [SUBSET A -> Int]
    <3> SUFFICES ASSUME NEW s \in SUBSET A PROVE SumOver(g, s \cup B) - SumOver(g, B) \in Int
      OBVIOUS
    <3>1. s \cup B \in SUBSET (A \cup B) /\ B \in SUBSET (A \cup B)
      OBVIOUS
    <3> QED BY <1>2, <3>1
  <2>2. m[{}] = 0
    <3>1. SumOver(g, B) \in Int /\ {} \cup B = B
      BY <1>2
    <3> QED BY <3>1
  <2>3. ASSUME NEW s \in SUBSET A, NEW x \in s PROVE m[s] = g[x] + m[s \ {x}]
    <3>1. s \cup B \in SUBSET (A \cup B) /\ x \in s \cup B /\ (s \cup B) \ {x} = (s \ {x}) \cup B
      OBVIOUS
    <3>2. SumOver(g, s \cup B) = g[x] + SumOver(g, (s \ {x}) \cup B)
      BY <1>1, <3>1, SumFacts, SMTT(30)
    <3>3. SumOver(g, s \cup B) \in Int /\ SumOver(g, (s \ {x}) \cup B) \in Int
          /\ SumOver(g, B) \in Int /\ g[x] \in Int
      <4>1. (s \ {x}) \cup B \in SUBSET (A \cup B) /\ B \in SUBSET (A \cup B)
        OBVIOUS
      <4> QED BY <1>2, <3>1, <4>1
    <3>4. s \ {x} \in SUBSET A
      OBVIOUS
    <3> QED BY <3>2, <3>3, <3>4
  <2> HIDE DEF m
  <2> QED BY <2>1, <2>2, <2>3 DEF Measure
<1>4. SumOver(g, A) = m[A]
  <2> HIDE DEF m
  <2> QED BY <1>3, SumIsMeasure
<1>5. SumOver(g, A \cup B) \in Int /\ SumOver(g, B) \in Int
  BY <1>2
<1> QED BY <1>4, <1>5

(* Sums by parts: whoever splits S into disjoint parts may sum the parts. *)
LEMMA SumByParts ==
    ASSUME NEW P, IsFiniteSet(P), NEW part, \A p \in P : IsFiniteSet(part[p]),
           \A p, q \in P : p = q \/ part[p] \cap part[q] = {},
           NEW S, IsFiniteSet(S), \A p \in P : part[p] \subseteq S,
           NEW g, \A x \in S : g[x] \in Int
    PROVE  SumOver([p \in P |-> SumOver(g, part[p])], P)
             = SumOver(g, UNION {part[p] : p \in P})
<1> DEFINE all(s) == UNION {part[p] : p \in s}
           sums == [p \in P |-> SumOver(g, part[p])]
           m == [s \in SUBSET P |-> SumOver(g, all(s))]
<1>1. \A s \in SUBSET S : SumOver(g, s) \in Int
  BY SumFacts
<1>2. \A s \in SUBSET P : all(s) \in SUBSET S /\ IsFiniteSet(all(s))
  <2> SUFFICES ASSUME NEW s \in SUBSET P PROVE all(s) \in SUBSET S /\ IsFiniteSet(all(s))
    OBVIOUS
  <2>1. all(s) \in SUBSET S
    OBVIOUS
  <2> HIDE DEF all
  <2> QED BY <2>1, FS_Subset
<1>3. Measure(sums, m, P)
  <2>1. m \in [SUBSET P -> Int]
    <3> HIDE DEF all
    <3> QED BY <1>1, <1>2
  <2>2. m[{}] = 0
    <3>1. all({}) = {}
      OBVIOUS
    <3> HIDE DEF all
    <3> QED BY <3>1, SumFacts
  <2>3. ASSUME NEW s \in SUBSET P, NEW p \in s PROVE m[s] = sums[p] + m[s \ {p}]
    <3>1. all(s) = part[p] \cup all(s \ {p}) /\ part[p] \cap all(s \ {p}) = {}
      OBVIOUS
    <3>2. s \ {p} \in SUBSET P /\ p \in P
      OBVIOUS
    <3> HIDE DEF all
    <3>3. \A x \in part[p] \cup all(s \ {p}) : g[x] \in Int
      BY <1>2, <3>2
    <3>4. IsFiniteSet(part[p]) /\ IsFiniteSet(all(s \ {p}))
      BY <1>2, <3>2
    <3>5. SumOver(g, part[p] \cup all(s \ {p})) = SumOver(g, part[p]) + SumOver(g, all(s \ {p}))
      <4> DEFINE mine == part[p]
                 rest == all(s \ {p})
      <4> HIDE DEF mine, rest
      <4>1. IsFiniteSet(mine) /\ IsFiniteSet(rest) /\ mine \cap rest = {}
            /\ \A x \in mine \cup rest : g[x] \in Int
        BY <3>1, <3>3, <3>4 DEF mine, rest
      <4>2. SumOver(g, mine \cup rest) = SumOver(g, mine) + SumOver(g, rest)
        BY <4>1, SumSplits
      <4> QED BY <4>2 DEF mine, rest
    <3> QED BY <3>1, <3>2, <3>5
  <2> HIDE DEF m, sums
  <2> QED BY <2>1, <2>2, <2>3 DEF Measure
<1>4. SumOver(sums, P) = m[P]
  <2> HIDE DEF m, sums
  <2> QED BY <1>3, SumIsMeasure
<1> QED BY <1>4

(* Counting is summing ones. *)
LEMMA SumOfOnes ==
    ASSUME NEW S, IsFiniteSet(S), NEW g, \A x \in S : g[x] = 1
    PROVE  SumOver(g, S) = Cardinality(S)
<1> DEFINE m == [s \in SUBSET S |-> Cardinality(s)]
<1>1. \A s \in SUBSET S : IsFiniteSet(s) /\ Cardinality(s) \in Nat
  BY FS_Subset, FS_CardinalityType
<1>2. Measure(g, m, S)
  <2>1. m \in [SUBSET S -> Int]
    BY <1>1
  <2>2. m[{}] = 0
    BY FS_EmptySet
  <2>3. ASSUME NEW s \in SUBSET S, NEW x \in s PROVE m[s] = g[x] + m[s \ {x}]
    <3>1. Cardinality(s \ {x}) = Cardinality(s) - 1
      BY <1>1, FS_RemoveElement
    <3>2. s \ {x} \in SUBSET S /\ g[x] = 1
      OBVIOUS
    <3> QED BY <1>1, <3>1, <3>2
  <2> HIDE DEF m
  <2> QED BY <2>1, <2>2, <2>3 DEF Measure
<1>3. SumOver(g, S) = m[S]
  <2> HIDE DEF m
  <2> QED BY <1>2, SumIsMeasure
<1> QED BY <1>3

(* A sum does not change when its elements are renamed. *)
LEMMA SumRenamed ==
    ASSUME NEW S, IsFiniteSet(S), NEW T, NEW f \in Bijection(S, T),
           NEW g, NEW h, \A x \in S : g[x] = h[f[x]] /\ g[x] \in Int
    PROVE  SumOver(g, S) = SumOver(h, T)
<1> DEFINE img(s) == {f[x] : x \in s}
           m == [s \in SUBSET S |-> SumOver(h, img(s))]
<1>1. /\ f \in [S -> T] /\ (\A x, y \in S : f[x] = f[y] => x = y)
      /\ \A y \in T : \E x \in S : f[x] = y
  BY DEF Bijection, Injection, Surjection, IsInjective
<1>2. IsFiniteSet(T)
  BY FS_Bijection DEF ExistsBijection
<1>3. img(S) = T /\ \A s \in SUBSET S : img(s) \in SUBSET T
  BY <1>1
<1>4. \A y \in T : h[y] \in Int
  BY <1>1
<1>5. \A s \in SUBSET T : SumOver(h, s) \in Int
  BY <1>2, <1>4, SumFacts
<1>6. ASSUME NEW s \in SUBSET T, NEW y \in s
      PROVE  SumOver(h, s) = h[y] + SumOver(h, s \ {y})
  BY <1>2, <1>4, SumFacts
<1>7. Measure(g, m, S)
  <2>1. m \in [SUBSET S -> Int]
    <3> HIDE DEF img
    <3> QED BY <1>3, <1>5
  <2>2. m[{}] = 0
    <3>1. img({}) = {}
      OBVIOUS
    <3> HIDE DEF img
    <3> QED BY <1>2, <1>4, <3>1, SumFacts
  <2>3. ASSUME NEW s \in SUBSET S, NEW x \in s PROVE m[s] = g[x] + m[s \ {x}]
    <3>1. img(s) \in SUBSET T /\ f[x] \in img(s) /\ img(s) \ {f[x]} = img(s \ {x})
      BY <1>1, <1>3
    <3>2. s \ {x} \in SUBSET S
      OBVIOUS
    <3> HIDE DEF img
    <3>3. SumOver(h, img(s)) = h[f[x]] + SumOver(h, img(s) \ {f[x]})
      BY <1>6, <3>1
    <3> QED BY <3>1, <3>2, <3>3
  <2> HIDE DEF m
  <2> QED BY <2>1, <2>2, <2>3 DEF Measure
<1>8. SumOver(g, S) = m[S]
  <2> HIDE DEF m
  <2> QED BY <1>7, SumIsMeasure
<1> QED BY <1>3, <1>8

(* Two sums over a set are one. *)
LEMMA SumAdds ==
    ASSUME NEW S, IsFiniteSet(S), NEW g, NEW h, NEW k,
           \A x \in S : g[x] \in Int /\ h[x] \in Int /\ k[x] = g[x] + h[x]
    PROVE  SumOver(k, S) = SumOver(g, S) + SumOver(h, S)
<1> DEFINE m == [s \in SUBSET S |-> SumOver(g, s) + SumOver(h, s)]
<1>1. /\ \A s \in SUBSET S : SumOver(g, s) \in Int /\ SumOver(h, s) \in Int
      /\ SumOver(g, {}) = 0 /\ SumOver(h, {}) = 0
  BY SumFacts
<1>2. ASSUME NEW s \in SUBSET S, NEW x \in s
      PROVE  /\ SumOver(g, s) = g[x] + SumOver(g, s \ {x})
             /\ SumOver(h, s) = h[x] + SumOver(h, s \ {x})
  BY SumFacts
<1>3. Measure(k, m, S)
  <2>1. m \in [SUBSET S -> Int] /\ m[{}] = 0
    BY <1>1
  <2>2. ASSUME NEW s \in SUBSET S, NEW x \in s PROVE m[s] = k[x] + m[s \ {x}]
    <3>1. s \ {x} \in SUBSET S /\ x \in S
      OBVIOUS
    <3>2. /\ g[x] \in Int /\ h[x] \in Int /\ k[x] = g[x] + h[x]
          /\ SumOver(g, s \ {x}) \in Int /\ SumOver(h, s \ {x}) \in Int
      BY <1>1, <3>1
    <3> QED BY <1>2, <3>1, <3>2
  <2> HIDE DEF m
  <2> QED BY <2>1, <2>2 DEF Measure
<1>4. SumOver(k, S) = m[S]
  <2> HIDE DEF m
  <2> QED BY <1>3, SumIsMeasure
<1> QED BY <1>4

(* The extremes of a set are those of a part that holds them. *)
LEMMA ExtremesOfPart ==
    ASSUME NEW T \in SUBSET Int, IsFiniteSet(T), NEW W \in SUBSET T
    PROVE  /\ Min(T) \in W => Min(W) = Min(T)
           /\ Max(T) \in W => Max(W) = Max(T)
<1>1. IsFiniteSet(W) /\ W \in SUBSET Int
  BY FS_Subset
<1>2. W # {} => /\ Max(W) \in W /\ \A y \in W : y <= Max(W)
                /\ Min(W) \in W /\ \A y \in W : Min(W) <= y
  BY <1>1, GreatestExists, LeastExists
<1>3. T # {} => /\ Max(T) \in T /\ \A y \in T : y <= Max(T)
                /\ Min(T) \in T /\ \A y \in T : Min(T) <= y
  BY GreatestExists, LeastExists
<1>4. \A x \in T : x \in Int
  OBVIOUS
<1>5. ASSUME Min(T) \in W PROVE Min(W) = Min(T)
  <2>1. Min(W) <= Min(T) /\ Min(T) <= Min(W) /\ Min(W) \in Int /\ Min(T) \in Int
    BY <1>2, <1>3, <1>4, <1>5
  <2> QED BY <2>1
<1>6. ASSUME Max(T) \in W PROVE Max(W) = Max(T)
  <2>1. Max(W) <= Max(T) /\ Max(T) <= Max(W) /\ Max(W) \in Int /\ Max(T) \in Int
    BY <1>2, <1>3, <1>4, <1>6
  <2> QED BY <2>1
<1> QED BY <1>5, <1>6

(* The sizes of disjoint sets add up. *)
LEMMA DisjointSizes ==
    ASSUME NEW A, IsFiniteSet(A), NEW B, IsFiniteSet(B), A \cap B = {}
    PROVE  /\ IsFiniteSet(A \cup B)
           /\ Cardinality(A \cup B) = Cardinality(A) + Cardinality(B)
           /\ Cardinality(A) \in Nat /\ Cardinality(B) \in Nat
<1>1. Cardinality(A) \in Nat /\ Cardinality(B) \in Nat /\ Cardinality(A \cap B) = 0
  BY FS_CardinalityType, FS_EmptySet
<1>2. /\ IsFiniteSet(A \cup B)
      /\ Cardinality(A \cup B) = Cardinality(A) + Cardinality(B) - Cardinality(A \cap B)
  BY FS_Union
<1> QED BY <1>1, <1>2
=============================================================================
