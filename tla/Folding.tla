------------------------------ MODULE Folding ------------------------------
(***************************************************************************)
(* What a proof needs to know of the folds of the community modules: over  *)
(* a sequence, from its first element to its last, and the sum of weights  *)
(* over a finite set.  Instantiated with the operator of a fold, each fact *)
(* is about that fold.                                                     *)
(***************************************************************************)
EXTENDS Integers, Sequences, SequencesExt, FiniteSetTheorems, WellFoundedInduction, TLAPS

CONSTANTS Op(_, _), Base, Weight(_)

Fold(s) == FoldLeft(Op, Base, s)

Sum(S) == MapThenSumSet(Weight, S)

----------------------------------------------------------------------------
(* Induction, for a set of numbers.                                         *)

\* A set that has 0, and the successor of each of its numbers, has all of them.
LEMMA Induction ==
    ASSUME NEW S, 0 \in S, \A n \in Nat : n \in S => n + 1 \in S
    PROVE  Nat \subseteq S
  <1> DEFINE T == Nat \ S
             R == OpToRel(<, Nat)
  <1> SUFFICES ASSUME T # {} PROVE FALSE
    OBVIOUS
  <1>1. IsWellFoundedOn(R, Nat)
    BY NatLessThanWellFounded
  <1>3. \A n \in T : n # 0 => <<n - 1, n>> \in R
    BY DEF OpToRel
  <1> HIDE DEF R
  <1>4. PICK n \in T : \A m \in T : <<m, n>> \notin R
    BY <1>1, WFMin
  <1>5. n \in Nat /\ n # 0 /\ n - 1 \in Nat /\ (n - 1) + 1 = n /\ n \notin S
    OBVIOUS
  <1>6. n - 1 \in T
    BY <1>5
  <1> QED
    BY <1>3, <1>4, <1>5, <1>6

\* A set of numbers that is not empty has a least one, and a greatest if it is bounded.
LEMMA LeastIsThere ==
    ASSUME NEW S \in SUBSET Int, S # {}, NEW b \in Int, \A n \in S : b <= n
    PROVE  Min(S) \in S /\ \A n \in S : Min(S) <= n
  <1> DEFINE R == OpToRel(<, Nat)
             T == {n \in Nat : n + b \in S}
  <1>1. IsWellFoundedOn(R, Nat)
    BY NatLessThanWellFounded
  <1>2. \A m, n \in Nat : m < n => <<m, n>> \in R
    BY DEF OpToRel
  <1>3. T # {} /\ T \subseteq Nat
    <2> PICK n \in S : TRUE
      OBVIOUS
    <2>1. n - b \in T
      OBVIOUS
    <2> QED
      BY <2>1
  <1> HIDE DEF R
  <1>4. PICK n \in T : \A m \in T : <<m, n>> \notin R
    BY <1>1, <1>3, WFMin
  <1>5. \A m \in S : n + b <= m
    <2> SUFFICES ASSUME NEW m \in S, ~(n + b <= m) PROVE FALSE
      OBVIOUS
    <2>1. m - b \in T /\ m - b < n /\ n \in Nat /\ m - b \in Nat
      BY <1>4
    <2> QED
      BY <2>1, <1>2, <1>4
  <1>6. n + b \in S
    BY <1>4
  <1> QED
    BY <1>5, <1>6 DEF Min

LEMMA GreatestIsThere ==
    ASSUME NEW S \in SUBSET Int, S # {}, NEW b \in Int, \A n \in S : n <= b
    PROVE  Max(S) \in S /\ \A n \in S : n <= Max(S)
  <1> DEFINE R == OpToRel(<, Nat)
             T == {n \in Nat : b - n \in S}
  <1>1. IsWellFoundedOn(R, Nat)
    BY NatLessThanWellFounded
  <1>2. \A m, n \in Nat : m < n => <<m, n>> \in R
    BY DEF OpToRel
  <1>3. T # {} /\ T \subseteq Nat
    <2> PICK n \in S : TRUE
      OBVIOUS
    <2>1. b - n \in T /\ b - (b - n) = n
      OBVIOUS
    <2> QED
      BY <2>1
  <1> HIDE DEF R
  <1>4. PICK n \in T : \A m \in T : <<m, n>> \notin R
    BY <1>1, <1>3, WFMin
  <1>5. \A m \in S : b - n >= m
    <2> SUFFICES ASSUME NEW m \in S, ~(b - n >= m) PROVE FALSE
      OBVIOUS
    <2>1. b - m \in T /\ b - m < n /\ n \in Nat /\ b - m \in Nat
      BY <1>4
    <2> QED
      BY <2>1, <1>2, <1>4
  <1>6. b - n \in S
    BY <1>4
  <1> QED
    BY <1>5, <1>6 DEF Max

----------------------------------------------------------------------------
(* The fold of a sequence.                                                  *)

\* The equation by which the fold is defined.
OneMore(g, T, s) == IF T = {} THEN Base ELSE Op(g[T \ {Max(T)}], s[Max(T)])

Folds(g, s) == g = [T \in SUBSET (DOMAIN s) |-> OneMore(g, T, s)]

LEMMA FoldIsChosen ==
    ASSUME NEW s PROVE Fold(s) = (CHOOSE g : Folds(g, s))[DOMAIN s]
  BY Zenon DEF Fold, FoldLeft, MapThenFoldSet, Folds, OneMore

LEMMA LastOfInterval == ASSUME NEW n \in Nat PROVE Max(1 .. n + 1) = n + 1
  <1>1. \A m \in 1 .. n + 1 : n + 1 >= m
    OBVIOUS
  <1>2. n + 1 \in 1 .. n + 1
    OBVIOUS
  <1>3. \A x \in 1 .. n + 1 : (\A y \in 1 .. n + 1 : x >= y) => x = n + 1
    BY <1>2
  <1> QED
    BY <1>1, <1>2, <1>3 DEF Max

\* It has a solution.
LEMMA FoldExists ==
    ASSUME NEW s, NEW n \in Nat, DOMAIN s = 1 .. n PROVE \E g : Folds(g, s)
  <1> DEFINE Solves(g, m) == g = [T \in SUBSET (1 .. m) |-> OneMore(g, T, s)]
             S == {m \in Nat : \E g : Solves(g, m)}
  <1>1. 0 \in S
    <2> DEFINE g == [T \in SUBSET (1 .. 0) |-> Base]
    <2>1. \A T \in SUBSET (1 .. 0) : T = {}
      OBVIOUS
    <2>2. Solves(g, 0)
      BY <2>1 DEF OneMore
    <2> QED
      BY <2>2
  <1>2. ASSUME NEW m \in Nat, m \in S PROVE m + 1 \in S
    <2> PICK g : Solves(g, m)
      BY <1>2
    <2> DEFINE h == [T \in SUBSET (1 .. m + 1) |->
                        IF m + 1 \in T THEN Op(g[T \ {m + 1}], s[m + 1]) ELSE g[T]]
    <2>1. \A T \in SUBSET (1 .. m) : h[T] = g[T] /\ T \in SUBSET (1 .. m + 1) /\ m + 1 \notin T
      OBVIOUS
    <2>2. ASSUME NEW T \in SUBSET (1 .. m + 1), m + 1 \in T PROVE h[T] = OneMore(h, T, s)
      <3>1. Max(T) = m + 1
        <4>1. \A x \in T : m + 1 >= x
          OBVIOUS
        <4>2. \A x \in T : (\A y \in T : x >= y) => x = m + 1
          BY <2>2
        <4> QED
          BY <4>1, <4>2, <2>2 DEF Max
      <3>2. T \ {m + 1} \in SUBSET (1 .. m)
        OBVIOUS
      <3>3. h[T \ {m + 1}] = g[T \ {m + 1}]
        BY <3>2, <2>1
      <3>4. h[T] = Op(g[T \ {m + 1}], s[m + 1])
        BY <2>2
      <3> HIDE DEF h
      <3> QED
        BY <3>1, <3>3, <3>4, <2>2 DEF OneMore
    <2>3. ASSUME NEW T \in SUBSET (1 .. m + 1), m + 1 \notin T PROVE h[T] = OneMore(h, T, s)
      <3>1. T \in SUBSET (1 .. m) /\ T \ {Max(T)} \in SUBSET (1 .. m)
        <4>1. \A x \in T : x \in 1 .. m
          BY <2>3
        <4> QED
          BY <4>1
      <3>2. h[T] = g[T] /\ h[T \ {Max(T)}] = g[T \ {Max(T)}]
        BY <3>1, <2>1
      <3>3. g[T] = OneMore(g, T, s)
        BY <3>1
      <3> HIDE DEF h
      <3> QED
        BY <3>2, <3>3 DEF OneMore
    <2>4. \A T \in SUBSET (1 .. m + 1) : h[T] = OneMore(h, T, s)
      BY <2>2, <2>3
    <2>5. h = [T \in SUBSET (1 .. m + 1) |-> h[T]]
      OBVIOUS
    <2> HIDE DEF h
    <2>6. Solves(h, m + 1)
      BY <2>4, <2>5
    <2> QED
      BY <2>6
  <1>3. n \in S
    <2> HIDE DEF S
    <2> QED
      BY <1>1, <1>2, Induction
  <1> QED
    BY <1>3 DEF Folds

\* It takes the elements one by one.
LEMMA FoldGoesOn ==
    ASSUME NEW s, NEW n \in Nat, DOMAIN s = 1 .. n
    PROVE  \E g : /\ Fold(s) = g[1 .. n] /\ g[{}] = Base
                  /\ \A m \in 0 .. n - 1 : g[1 .. m + 1] = Op(g[1 .. m], s[m + 1])
  <1> DEFINE g == CHOOSE h : Folds(h, s)
  <1>1. Folds(g, s) /\ Fold(s) = g[1 .. n]
    BY FoldExists, FoldIsChosen
  <1> HIDE DEF g
  <1>2. \A T \in SUBSET (1 .. n) : g[T] = OneMore(g, T, s)
    BY <1>1 DEF Folds
  <1>3. g[{}] = Base
    BY <1>2 DEF OneMore
  <1>4. ASSUME NEW m \in 0 .. n - 1 PROVE g[1 .. m + 1] = Op(g[1 .. m], s[m + 1])
    <2>1. 1 .. m + 1 \in SUBSET (1 .. n) /\ 1 .. m + 1 # {} /\ (1 .. m + 1) \ {m + 1} = 1 .. m
      OBVIOUS
    <2>2. Max(1 .. m + 1) = m + 1
      BY LastOfInterval
    <2> QED
      BY <1>2, <2>1, <2>2 DEF OneMore
  <1> QED
    BY <1>1, <1>3, <1>4

\* Of no elements, it is the base; of one more, one more step.
LEMMA FoldEmpty == Fold(<<>>) = Base
  <1>1. DOMAIN <<>> = 1 .. 0 /\ 1 .. 0 = {}
    OBVIOUS
  <1> QED
    BY <1>1, FoldGoesOn

LEMMA FoldAppend ==
    ASSUME NEW S, NEW s \in Seq(S), NEW e \in S
    PROVE  Fold(Append(s, e)) = Op(Fold(s), e)
  <1> DEFINE n == Len(s)  t == Append(s, e)
  <1>1. n \in Nat /\ DOMAIN s = 1 .. n /\ DOMAIN t = 1 .. n + 1
    OBVIOUS
  <1>2. t[n + 1] = e /\ \A i \in 1 .. n : t[i] = s[i]
    OBVIOUS
  <1> HIDE DEF n, t
  <1>3. PICK f : /\ Fold(s) = f[1 .. n] /\ f[{}] = Base
                 /\ \A m \in 0 .. n - 1 : f[1 .. m + 1] = Op(f[1 .. m], s[m + 1])
    BY <1>1, FoldGoesOn
  <1>4. PICK g : /\ Fold(t) = g[1 .. n + 1] /\ g[{}] = Base
                 /\ \A m \in 0 .. (n + 1) - 1 : g[1 .. m + 1] = Op(g[1 .. m], t[m + 1])
    <2>1. n + 1 \in Nat
      BY <1>1
    <2> QED
      BY <1>1, <2>1, FoldGoesOn
  <1> DEFINE Same == {m \in Nat : m <= n => f[1 .. m] = g[1 .. m]}
  <1>5. 0 \in Same
    <2>1. 1 .. 0 = {}
      OBVIOUS
    <2> QED
      BY <2>1, <1>3, <1>4
  <1>6. ASSUME NEW m \in Nat, m \in Same PROVE m + 1 \in Same
    <2> SUFFICES ASSUME m + 1 <= n PROVE f[1 .. m + 1] = g[1 .. m + 1]
      OBVIOUS
    <2>1. m \in 0 .. n - 1 /\ m \in 0 .. (n + 1) - 1 /\ m <= n /\ m + 1 \in 1 .. n
      BY <1>1
    <2>2. f[1 .. m] = g[1 .. m]
      BY <1>6, <2>1
    <2>3. s[m + 1] = t[m + 1]
      BY <2>1, <1>2
    <2> QED
      BY <1>3, <1>4, <2>1, <2>2, <2>3
  <1>7. n \in Same
    <2> HIDE DEF Same
    <2> QED
      BY <1>1, <1>5, <1>6, Induction
  <1>8. n \in 0 .. (n + 1) - 1 /\ f[1 .. n] = g[1 .. n]
    BY <1>1, <1>7
  <1>9. g[1 .. n + 1] = Op(g[1 .. n], t[n + 1])
    BY <1>4, <1>8
  <1>10. Fold(t) = Op(Fold(s), e)
    BY <1>2, <1>3, <1>4, <1>8, <1>9
  <1> QED
    BY <1>10 DEF t

\* It stays in a set that no element leaves.
LEMMA FoldWithin ==
    ASSUME NEW S, NEW T, Base \in T, \A t \in T, e \in S : Op(t, e) \in T, NEW s \in Seq(S)
    PROVE  Fold(s) \in T
  <1> DEFINE n == Len(s)
  <1>1. n \in Nat /\ DOMAIN s = 1 .. n /\ \A i \in 1 .. n : s[i] \in S
    OBVIOUS
  <1> HIDE DEF n
  <1>2. PICK f : /\ Fold(s) = f[1 .. n] /\ f[{}] = Base
                 /\ \A m \in 0 .. n - 1 : f[1 .. m + 1] = Op(f[1 .. m], s[m + 1])
    BY <1>1, FoldGoesOn
  <1> DEFINE Kept == {m \in Nat : m <= n => f[1 .. m] \in T}
  <1>3. 0 \in Kept
    <2>1. 1 .. 0 = {}
      OBVIOUS
    <2> QED
      BY <2>1, <1>2
  <1>4. ASSUME NEW m \in Nat, m \in Kept PROVE m + 1 \in Kept
    <2> SUFFICES ASSUME m + 1 <= n PROVE f[1 .. m + 1] \in T
      OBVIOUS
    <2>1. m \in 0 .. n - 1 /\ m <= n /\ m + 1 \in 1 .. n
      BY <1>1
    <2> QED
      BY <1>1, <1>2, <1>4, <2>1
  <1>5. n \in Kept
    <2> HIDE DEF Kept
    <2> QED
      BY <1>1, <1>3, <1>4, Induction
  <1> QED
    BY <1>1, <1>2, <1>5

\* The fold of each prefix.
LEMMA FoldOfPrefix ==
    ASSUME NEW S, NEW s \in Seq(S), NEW n \in 0 .. Len(s) - 1
    PROVE  Fold(SubSeq(s, 1, n + 1)) = Op(Fold(SubSeq(s, 1, n)), s[n + 1])
  <1>1. SubSeq(s, 1, n) \in Seq(S) /\ s[n + 1] \in S
    OBVIOUS
  <1>2. SubSeq(s, 1, n + 1) = Append(SubSeq(s, 1, n), s[n + 1])
    OBVIOUS
  <1> QED
    BY <1>1, <1>2, FoldAppend

----------------------------------------------------------------------------
(* The sum of a finite set.                                                 *)

Least(T) == CHOOSE x \in T : TRUE

Adds(g, S) == g = [T \in SUBSET S |-> IF T = {} THEN 0 ELSE Weight(Least(T)) + g[T \ {Least(T)}]]

LEMMA SumIsChosen == ASSUME NEW S PROVE Sum(S) = (CHOOSE g : Adds(g, S))[S]
  BY Zenon DEF Sum, MapThenSumSet, MapThenFoldSet, Adds, Least

LEMMA SmallerSet ==
    ASSUME NEW T, IsFiniteSet(T), NEW x \in T
    PROVE  IsFiniteSet(T \ {x}) /\ Cardinality(T \ {x}) = Cardinality(T) - 1
             /\ Cardinality(T) \in Nat /\ Cardinality(T) # 0
  BY FS_RemoveElement, FS_CardinalityType, FS_EmptySet

LEMMA SumExists ==
    ASSUME NEW S, IsFiniteSet(S) PROVE \E g : Adds(g, S)
  <1> DEFINE Sets(m) == {T \in SUBSET S : Cardinality(T) <= m}
             Value(g, T) == IF T = {} THEN 0 ELSE Weight(Least(T)) + g[T \ {Least(T)}]
             Solves(g, m) == g = [T \in Sets(m) |-> Value(g, T)]
             Solved == {m \in Nat : \E g : Solves(g, m)}
  <1>1. \A T \in SUBSET S : IsFiniteSet(T) /\ Cardinality(T) \in Nat /\ Cardinality(T) <= Cardinality(S)
    BY FS_Subset, FS_CardinalityType
  <1>2. \A T \in SUBSET S : T # {} => Least(T) \in T
    BY DEF Least
  <1>3. 0 \in Solved
    <2> DEFINE g == [T \in Sets(0) |-> 0]
    <2>1. \A T \in Sets(0) : T = {}
      BY <1>1, FS_EmptySet
    <2>2. Solves(g, 0)
      BY <2>1
    <2> QED
      BY <2>2
  <1>4. ASSUME NEW m \in Nat, m \in Solved PROVE m + 1 \in Solved
    <2> PICK g : Solves(g, m)
      BY <1>4
    <2> DEFINE h == [T \in Sets(m + 1) |-> Value(g, T)]
    <2>1. ASSUME NEW T \in Sets(m + 1), T # {} PROVE T \ {Least(T)} \in Sets(m)
      <3>1. Least(T) \in T /\ IsFiniteSet(T) /\ T \in SUBSET S
        BY <2>1, <1>1, <1>2
      <3>2. Cardinality(T \ {Least(T)}) = Cardinality(T) - 1 /\ Cardinality(T) \in Nat
        BY <3>1, SmallerSet
      <3> QED
        BY <3>1, <3>2
    <2>2. ASSUME NEW T \in Sets(m) PROVE h[T] = g[T]
      <3>1. T \in Sets(m + 1)
        BY <1>1
      <3>2. g[T] = Value(g, T)
        OBVIOUS
      <3> HIDE DEF Value
      <3> QED
        BY <3>1, <3>2
    <2>3. ASSUME NEW T \in Sets(m + 1) PROVE h[T] = Value(h, T)
      <3>1. CASE T = {}
        BY <3>1
      <3>2. CASE T # {}
        <4>1. h[T \ {Least(T)}] = g[T \ {Least(T)}]
          BY <3>2, <2>1, <2>2
        <4>2. h[T] = Value(g, T)
          OBVIOUS
        <4> HIDE DEF h
        <4> QED
          BY <4>1, <4>2, <3>2
      <3> QED
        BY <3>1, <3>2
    <2>4. h = [T \in Sets(m + 1) |-> h[T]]
      OBVIOUS
    <2> HIDE DEF h, Value, Sets
    <2>5. Solves(h, m + 1)
      BY <2>3, <2>4
    <2> QED
      BY <2>5
  <1>5. Cardinality(S) \in Solved
    <2> HIDE DEF Solved
    <2> QED
      BY <1>1, <1>3, <1>4, Induction
  <1>6. Sets(Cardinality(S)) = SUBSET S
    BY <1>1
  <1> HIDE DEF Sets
  <1>7. PICK g : Solves(g, Cardinality(S))
    BY <1>5
  <1>8. Adds(g, S)
    BY <1>6, <1>7 DEF Adds
  <1> QED
    BY <1>8

\* It is a number, whichever element is taken first.
LEMMA SumTakesAny ==
    ASSUME NEW S, IsFiniteSet(S), \A x \in S : Weight(x) \in Int, NEW g, Adds(g, S)
    PROVE  \A T \in SUBSET S : g[T] \in Int /\ \A x \in T : g[T] = Weight(x) + g[T \ {x}]
  <1> DEFINE Good(T) ==
               g[T] \in Int /\ \A x \in T : g[T \ {x}] \in Int /\ g[T] = Weight(x) + g[T \ {x}]
             Sets(m) == {T \in SUBSET S : Cardinality(T) = m}
             All == {m \in Nat : \A T \in Sets(m) : Good(T)}
  <1>1. \A T \in SUBSET S : IsFiniteSet(T) /\ Cardinality(T) \in Nat
    BY FS_Subset, FS_CardinalityType
  <1>2. \A T \in SUBSET S : T # {} => Least(T) \in T
    BY DEF Least
  <1>3. \A T \in SUBSET S :
           g[T] = IF T = {} THEN 0 ELSE Weight(Least(T)) + g[T \ {Least(T)}]
    BY DEF Adds
  <1>4. 0 \in All
    <2>1. \A T \in Sets(0) : T = {}
      BY <1>1, FS_EmptySet
    <2>2. g[{}] = 0
      BY <1>3
    <2>3. Good({})
      BY <2>2
    <2> HIDE DEF Good, Sets
    <2> QED
      BY <2>1, <2>3
  <1>5. ASSUME NEW m \in Nat, m \in All PROVE m + 1 \in All
    <2> SUFFICES ASSUME NEW T \in SUBSET S, Cardinality(T) = m + 1 PROVE Good(T)
      OBVIOUS
    <2>1. IsFiniteSet(T) /\ T # {}
      BY <1>1, FS_EmptySet
    <2> PICK c \in T : c = Least(T)
      BY <1>2, <2>1
    <2>2. \A x \in T : /\ T \ {x} \in SUBSET S /\ Cardinality(T \ {x}) = m
      BY <2>1, SmallerSet
    <2>3. \A x \in T : Good(T \ {x})
      BY <1>5, <2>2
    <2>4. g[T] = Weight(c) + g[T \ {c}]
      BY <1>3, <2>1
    <2>5. g[T] \in Int
      BY <2>3, <2>4
    <2>6. ASSUME NEW x \in T, x # c PROVE g[T] = Weight(x) + g[T \ {x}]
      <3>1. x \in T \ {c} /\ c \in T \ {x} /\ (T \ {c}) \ {x} = (T \ {x}) \ {c}
        BY <2>6
      <3>2. g[T \ {c}] = Weight(x) + g[(T \ {c}) \ {x}]
        BY <2>3, <3>1
      <3>3. g[T \ {x}] = Weight(c) + g[(T \ {x}) \ {c}]
        BY <2>3, <3>1
      <3>4. g[T \ {c}] \in Int /\ g[T \ {x}] \in Int /\ Weight(x) \in Int /\ Weight(c) \in Int
        BY <2>3
      <3>5. g[(T \ {c}) \ {x}] = g[(T \ {x}) \ {c}] /\ g[(T \ {x}) \ {c}] \in Int
        BY <2>3, <3>1
      <3> HIDE DEF Good
      <3> QED
        BY <2>4, <3>2, <3>3, <3>4, <3>5
    <2>7. \A x \in T : g[T \ {x}] \in Int
      BY <2>3
    <2> QED
      BY <2>4, <2>5, <2>6, <2>7
  <1>6. Nat \subseteq All
    <2> HIDE DEF All
    <2> QED
      BY <1>4, <1>5, Induction
  <1> QED
    BY <1>1, <1>6

\* Of no elements it is zero; of one more, its weight more.
LEMMA SumEmpty == Sum({}) = 0
  <1> PICK g : Adds(g, {}) /\ Sum({}) = g[{}]
    BY SumExists, SumIsChosen, FS_EmptySet
  <1> QED
    BY DEF Adds

LEMMA SumAdd ==
    ASSUME NEW S, IsFiniteSet(S), NEW x, x \notin S, \A y \in S \cup {x} : Weight(y) \in Int
    PROVE  Sum(S \cup {x}) = Weight(x) + Sum(S) /\ Sum(S) \in Int
  <1> DEFINE R == S \cup {x}
             Sets(m) == {T \in SUBSET S : Cardinality(T) = m}
  <1>1. IsFiniteSet(R) /\ R \ {x} = S /\ x \in R /\ \A T \in SUBSET S : T \in SUBSET R
    BY FS_AddElement
  <1>2. PICK g : Adds(g, S) /\ Sum(S) = g[S]
    BY SumExists, SumIsChosen
  <1>3. PICK h : Adds(h, R) /\ Sum(R) = h[R]
    BY <1>1, SumExists, SumIsChosen
  <1>4. h[R] = Weight(x) + h[S]
    BY <1>1, <1>3, SumTakesAny
  <1>5. g[S] \in Int
    BY <1>2, SumTakesAny
  <1> DEFINE Same == {m \in Nat : \A T \in Sets(m) : g[T] = h[T]}
  <1>6. \A T \in SUBSET S : IsFiniteSet(T) /\ Cardinality(T) \in Nat
    BY FS_Subset, FS_CardinalityType
  <1>7. \A T \in SUBSET S : T # {} => Least(T) \in T
    BY DEF Least
  <1>8. \A T \in SUBSET S :
           /\ g[T] = IF T = {} THEN 0 ELSE Weight(Least(T)) + g[T \ {Least(T)}]
           /\ h[T] = IF T = {} THEN 0 ELSE Weight(Least(T)) + h[T \ {Least(T)}]
    BY <1>1, <1>2, <1>3 DEF Adds
  <1>9. 0 \in Same
    <2>1. \A T \in Sets(0) : T = {}
      BY <1>6, FS_EmptySet
    <2>2. g[{}] = h[{}]
      BY <1>8
    <2> HIDE DEF Sets
    <2> QED
      BY <2>1, <2>2
  <1>10. ASSUME NEW m \in Nat, m \in Same PROVE m + 1 \in Same
    <2> SUFFICES ASSUME NEW T \in SUBSET S, Cardinality(T) = m + 1 PROVE g[T] = h[T]
      OBVIOUS
    <2>1. IsFiniteSet(T) /\ T # {}
      BY <1>6, FS_EmptySet
    <2>2. Least(T) \in T
      BY <1>7, <2>1
    <2>3. T \ {Least(T)} \in SUBSET S /\ Cardinality(T \ {Least(T)}) = m
      BY <2>1, <2>2, SmallerSet
    <2>4. g[T \ {Least(T)}] = h[T \ {Least(T)}]
      BY <1>10, <2>3
    <2> QED
      BY <1>8, <2>1, <2>4
  <1>11. Cardinality(S) \in Same
    <2> HIDE DEF Same
    <2> QED
      BY <1>6, <1>9, <1>10, Induction
  <1>12. g[S] = h[S]
    BY <1>11
  <1> QED
    BY <1>2, <1>3, <1>4, <1>5, <1>12

LEMMA SumIsInt ==
    ASSUME NEW S, IsFiniteSet(S), \A x \in S : Weight(x) \in Int
    PROVE  Sum(S) \in Int
  BY SumExists, SumIsChosen, SumTakesAny

\* Weights that are not negative add up to no less for a larger set.
LEMMA SumGrows ==
    ASSUME NEW T, IsFiniteSet(T), \A x \in T : Weight(x) \in Nat, NEW S \in SUBSET T
    PROVE  Sum(S) <= Sum(T)
  <1> DEFINE D == {n \in Nat : \A R \in SUBSET T :
                     S \subseteq R /\ Cardinality(R \ S) = n => Sum(S) <= Sum(R)}
  <1>1. \A R \in SUBSET T : /\ IsFiniteSet(R) /\ IsFiniteSet(R \ S)
                            /\ Cardinality(R \ S) \in Nat /\ Sum(R) \in Int
    <2> TAKE R \in SUBSET T
    <2>1. IsFiniteSet(R) /\ IsFiniteSet(R \ S)
      BY FS_Subset
    <2>2. \A x \in R : Weight(x) \in Int
      OBVIOUS
    <2> QED
      BY <2>1, <2>2, SumIsInt, FS_CardinalityType
  <1>2. 0 \in D
    <2> SUFFICES ASSUME NEW R \in SUBSET T, S \subseteq R, Cardinality(R \ S) = 0
                 PROVE  Sum(S) <= Sum(R)
      OBVIOUS
    <2>1. R = S
      BY <1>1, FS_EmptySet
    <2> QED
      BY <1>1, <2>1
  <1>3. ASSUME NEW n \in Nat, n \in D PROVE n + 1 \in D
    <2> SUFFICES ASSUME NEW R \in SUBSET T, S \subseteq R, Cardinality(R \ S) = n + 1
                 PROVE  Sum(S) <= Sum(R)
      OBVIOUS
    <2>1. IsFiniteSet(R \ S) /\ R \ S # {}
      BY <1>1, FS_EmptySet
    <2> PICK x \in R \ S : TRUE
      BY <2>1
    <2> PICK Q \in SUBSET T : Q = R \ {x}
      OBVIOUS
    <2>2. S \subseteq Q /\ Q \ S = (R \ S) \ {x} /\ x \notin Q /\ R = Q \cup {x}
      OBVIOUS
    <2>3. Cardinality(Q \ S) = n
      BY <2>1, <2>2, SmallerSet
    <2>4. Sum(S) <= Sum(Q)
      BY <1>3, <2>2, <2>3
    <2>5. Sum(R) = Weight(x) + Sum(Q)
      <3>1. \A y \in Q \cup {x} : Weight(y) \in Int
        OBVIOUS
      <3> QED
        BY <1>1, <2>2, <3>1, SumAdd
    <2>6. Weight(x) \in Nat /\ Sum(S) \in Int /\ Sum(Q) \in Int
      BY <1>1
    <2> QED
      BY <2>4, <2>5, <2>6
  <1>4. Cardinality(T \ S) \in D
    <2> HIDE DEF D
    <2>1. Cardinality(T \ S) \in Nat
      BY <1>1
    <2> QED
      BY <1>2, <1>3, <2>1, Induction
  <1> QED
    BY <1>4
============================================================================
