--------------------------- MODULE ContextsProofs ---------------------------
(***************************************************************************)
(* What the experiments show a model, for all values of their constants:   *)
(* nothing the dual memory must not know, nothing the episodic memory      *)
(* cannot pay for, and no step of the long context with a fault in it.     *)
(***************************************************************************)
EXTENDS Contexts, FiniteSetTheorems, TLAPS

(* The tokens of events are a sum, the packing of what was retrieved a      *)
(* fold.                                                                    *)
Packing == INSTANCE Folding WITH
    Op <- LAMBDA taken, i :
            IF Len(taken.kept) < TopEvents /\ size[i] <= RetrievedBudget - taken.used
            THEN [kept |-> Append(taken.kept, i), used |-> taken.used + size[i]]
            ELSE taken,
    Base <- [kept |-> <<>>, used |-> 0], Weight <- LAMBDA i : size[i]

----------------------------------------------------------------------------
(* Finite sets in an order.                                                 *)

\* What is below an element, and the element.
Below(x, S, R) == {y \in S : <<y, x>> \in R} \cup {x}

StrictOrder(S, R) ==
    /\ \A x, y \in S : x # y => <<x, y>> \in R \/ <<y, x>> \in R
    /\ \A x \in S : <<x, x>> \notin R
    /\ \A x, y, z \in S : <<x, y>> \in R /\ <<y, z>> \in R => <<x, z>> \in R

LEMMA BelowGrows ==
    ASSUME NEW S, IsFiniteSet(S), NEW R, StrictOrder(S, R)
    PROVE  /\ \A x \in S : /\ IsFiniteSet(Below(x, S, R))
                           /\ Cardinality(Below(x, S, R)) \in 1 .. Cardinality(S)
           /\ \A x, y \in S : <<x, y>> \in R =>
                 Cardinality(Below(x, S, R)) < Cardinality(Below(y, S, R))
  <1>1. \A x \in S : Below(x, S, R) \in SUBSET S /\ x \in Below(x, S, R)
    BY DEF Below
  <1>2. ASSUME NEW x \in S
        PROVE  /\ IsFiniteSet(Below(x, S, R)) /\ Cardinality(Below(x, S, R)) \in Nat
               /\ Cardinality(Below(x, S, R)) \in 1 .. Cardinality(S)
    <2>1. /\ IsFiniteSet(Below(x, S, R)) /\ Cardinality(Below(x, S, R)) <= Cardinality(S)
      BY <1>1, FS_Subset
    <2>2. /\ Cardinality(Below(x, S, R)) \in Nat /\ Cardinality(S) \in Nat
          /\ Cardinality(Below(x, S, R)) # 0
      BY <1>1, <2>1, FS_CardinalityType, FS_EmptySet
    <2> QED
      BY <2>1, <2>2
  <1>3. ASSUME NEW x \in S, NEW y \in S, <<x, y>> \in R
        PROVE  Cardinality(Below(x, S, R)) < Cardinality(Below(y, S, R))
    <2>1. Below(x, S, R) \in SUBSET Below(y, S, R)
      BY <1>3 DEF Below, StrictOrder
    <2>2. y \in Below(y, S, R) /\ y \notin Below(x, S, R)
      BY <1>3 DEF Below, StrictOrder
    <2>3. /\ Cardinality(Below(x, S, R)) <= Cardinality(Below(y, S, R))
          /\ Cardinality(Below(y, S, R)) # Cardinality(Below(x, S, R))
      BY <1>2, <2>1, <2>2, FS_Subset
    <2> QED
      BY <1>2, <2>3
  <1> QED
    BY <1>2, <1>3

\* A finite set has a sequence in any strict order.
LEMMA OrderExists ==
    ASSUME NEW S, IsFiniteSet(S), NEW R, StrictOrder(S, R)
    PROVE  \E s \in [1 .. Cardinality(S) -> S] :
              \A i, j \in 1 .. Cardinality(S) :
                  /\ i # j => s[i] # s[j]
                  /\ i < j => <<s[i], s[j]>> \in R
  <1> DEFINE n == Cardinality(S)
             rank == [x \in S |-> Cardinality(Below(x, S, R))]
             s == [i \in 1 .. n |-> CHOOSE x \in S : rank[x] = i]
  <1>1. n \in Nat /\ IsFiniteSet(1 .. n) /\ Cardinality(1 .. n) = n
    BY FS_CardinalityType, FS_Interval
  <1>2. rank \in [S -> 1 .. n] /\ \A x, y \in S : <<x, y>> \in R => rank[x] < rank[y]
    BY BelowGrows
  <1> HIDE DEF rank
  <1>3. \A x, y \in S : x # y => rank[x] # rank[y]
    <2> SUFFICES ASSUME NEW x \in S, NEW y \in S, x # y PROVE rank[x] # rank[y]
      OBVIOUS
    <2>1. rank[x] \in Int /\ rank[y] \in Int
      BY <1>1, <1>2
    <2>2. <<x, y>> \in R \/ <<y, x>> \in R
      BY DEF StrictOrder
    <2> QED
      BY <1>2, <2>1, <2>2
  <1>4. rank \in Injection(S, 1 .. n)
    BY <1>2, <1>3 DEF Injection, IsInjective
  <1>5. rank \in Surjection(S, 1 .. n)
    BY <1>1, <1>4, FS_Injection
  <1>6. \A i \in 1 .. n : \E x \in S : rank[x] = i
    BY <1>5 DEF Surjection
  <1>7. \A i \in 1 .. n : s[i] \in S /\ rank[s[i]] = i
    BY <1>6
  <1>8. s \in [1 .. n -> S]
    BY <1>7
  <1> HIDE DEF s
  <1>9. ASSUME NEW i \in 1 .. n, NEW j \in 1 .. n
        PROVE  (i # j => s[i] # s[j]) /\ (i < j => <<s[i], s[j]>> \in R)
    <2>1. s[i] \in S /\ s[j] \in S /\ rank[s[i]] = i /\ rank[s[j]] = j
      BY <1>7
    <2>2. i < j => s[i] # s[j] /\ <<s[j], s[i]>> \notin R
      BY <1>1, <1>2, <2>1
    <2> QED
      BY <2>1, <2>2 DEF StrictOrder
  <1> QED
    BY <1>8, <1>9

\* And a best element in any order in which all its elements can be compared.
LEMMA BestExists ==
    ASSUME NEW S, IsFiniteSet(S), S # {}, NEW R,
           \A x, y \in S : <<x, y>> \in R \/ <<y, x>> \in R,
           \A x, y, z \in S : <<x, y>> \in R /\ <<y, z>> \in R => <<x, z>> \in R
    PROVE  \E x \in S : \A y \in S : <<x, y>> \in R
  <1> DEFINE Worse(x) == {y \in S : <<x, y>> \in R}
  <1>1. \A x \in S : /\ IsFiniteSet(Worse(x)) /\ Cardinality(Worse(x)) \in Nat
                     /\ Cardinality(Worse(x)) <= Cardinality(S)
    <2> TAKE x \in S
    <2>1. Worse(x) \in SUBSET S
      OBVIOUS
    <2> QED
      BY <2>1, FS_Subset, FS_CardinalityType
  <1>2. PICK x \in S : \A y \in S : Cardinality(Worse(y)) <= Cardinality(Worse(x))
    <2> DEFINE count == [x \in S |-> Cardinality(Worse(x))]
               Counts == {count[x] : x \in S}
    <2>1. \A x \in S : count[x] \in Int /\ count[x] <= Cardinality(S)
      BY <1>1
    <2>2. Cardinality(S) \in Int
      BY FS_CardinalityType
    <2>3. \A x \in S : count[x] = Cardinality(Worse(x))
      OBVIOUS
    <2> HIDE DEF count, Worse
    <2>4. Counts \in SUBSET Int /\ Counts # {} /\ \A n \in Counts : n <= Cardinality(S)
      BY <2>1
    <2>5. PICK n \in Counts : \A m \in Counts : m <= n
      <3> HIDE DEF Counts
      <3> QED
        BY <2>2, <2>4, Packing!GreatestIsThere
    <2>6. PICK x \in S : n = count[x]
      OBVIOUS
    <2>7. \A y \in S : count[y] <= count[x]
      BY <2>5, <2>6
    <2> QED
      BY <2>3, <2>7
  <1>3. ASSUME NEW y \in S, <<x, y>> \notin R PROVE FALSE
    <2>1. <<y, x>> \in R /\ <<y, y>> \in R
      BY <1>3
    <2>2. Worse(x) \in SUBSET Worse(y)
      BY <2>1
    <2>3. y \in Worse(y) /\ y \notin Worse(x)
      BY <1>3, <2>1
    <2> HIDE DEF Worse
    <2>4. Cardinality(Worse(x)) <= Cardinality(Worse(y))
            /\ Cardinality(Worse(y)) # Cardinality(Worse(x))
      BY <1>1, <2>2, <2>3, FS_Subset
    <2> QED
      BY <1>1, <1>2, <2>4
  <1> QED
    BY <1>3

\* Fractions with positive denominators, greater or equal and greater.
LEMMA FractionsCompose ==
    ASSUME NEW a \in Int, NEW b \in Nat \ {0}, NEW c \in Int, NEW d \in Nat \ {0},
           NEW e \in Int, NEW f \in Nat \ {0}
    PROVE  /\ a * d >= c * b /\ c * f >= e * d => a * f >= e * b
           /\ a * d > c * b /\ c * f >= e * d => a * f > e * b
           /\ a * d >= c * b /\ c * f > e * d => a * f > e * b
  <1>1. /\ (a * d) * f = (a * f) * d /\ (c * b) * f = (c * f) * b
        /\ (e * d) * b = (e * b) * d
    OBVIOUS
  <1>2. \A x, y \in Int, k \in Nat \ {0} :
           (x >= y => x * k >= y * k) /\ (x > y => x * k > y * k)
    OBVIOUS
  <1>3. \A x, y \in Int, k \in Nat \ {0} :
           (x * k >= y * k => x >= y) /\ (x * k > y * k => x > y)
    OBVIOUS
  <1>4. /\ a * d \in Int /\ c * b \in Int /\ c * f \in Int /\ e * d \in Int
        /\ a * f \in Int /\ e * b \in Int
    OBVIOUS
  <1>5. /\ a * d >= c * b => (a * f) * d >= (c * f) * b
        /\ a * d > c * b => (a * f) * d > (c * f) * b
    BY <1>1, <1>2, <1>4
  <1>6. /\ c * f >= e * d => (c * f) * b >= (e * b) * d
        /\ c * f > e * d => (c * f) * b > (e * b) * d
    BY <1>1, <1>2, <1>4
  <1> PICK p \in Int, q \in Int, r \in Int :
         p = (a * f) * d /\ q = (c * f) * b /\ r = (e * b) * d
    OBVIOUS
  <1>7. /\ a * d >= c * b /\ c * f >= e * d => p >= r
        /\ a * d > c * b /\ c * f >= e * d => p > r
        /\ a * d >= c * b /\ c * f > e * d => p > r
    BY <1>5, <1>6
  <1> QED
    BY <1>3, <1>4, <1>7

Fractions == Int \X (Nat \ {0})

LEMMA FractionsCompare ==
    ASSUME NEW x \in Fractions, NEW y \in Fractions
    PROVE  /\ Memory!Better(x, y) \/ Memory!Ties(x, y) \/ Memory!Better(y, x)
           /\ Memory!Ties(x, y) <=> Memory!Ties(y, x)
           /\ Memory!Better(x, y) => ~Memory!Better(y, x) /\ ~Memory!Ties(x, y)
  <1>1. x[1] * y[2] \in Int /\ y[1] * x[2] \in Int
    BY DEF Fractions
  <1> QED
    BY <1>1 DEF Memory!Better, Memory!Ties

LEMMA FractionsFollow ==
    ASSUME NEW x \in Fractions, NEW y \in Fractions, NEW z \in Fractions
    PROVE  /\ Memory!Better(x, y) /\ Memory!Better(y, z) => Memory!Better(x, z)
           /\ Memory!Better(x, y) /\ Memory!Ties(y, z) => Memory!Better(x, z)
           /\ Memory!Ties(x, y) /\ Memory!Better(y, z) => Memory!Better(x, z)
           /\ Memory!Ties(x, y) /\ Memory!Ties(y, z) => Memory!Ties(x, z)
  <1> PICK a \in Int, b \in Nat \ {0} : x = <<a, b>>
    BY DEF Fractions
  <1> PICK c \in Int, d \in Nat \ {0} : y = <<c, d>>
    BY DEF Fractions
  <1> PICK e \in Int, f \in Nat \ {0} : z = <<e, f>>
    BY DEF Fractions
  <1>1. /\ Memory!Better(x, y) <=> a * d > c * b
        /\ Memory!Better(y, z) <=> c * f > e * d
        /\ Memory!Better(x, z) <=> a * f > e * b
        /\ Memory!Ties(x, y) <=> a * d = c * b
        /\ Memory!Ties(y, z) <=> c * f = e * d
        /\ Memory!Ties(x, z) <=> a * f = e * b
    BY DEF Memory!Better, Memory!Ties
  <1>2. /\ a * d \in Int /\ c * b \in Int /\ c * f \in Int /\ e * d \in Int
        /\ a * f \in Int /\ e * b \in Int
    OBVIOUS
  <1>3. /\ a * d >= c * b /\ c * f >= e * d => a * f >= e * b
        /\ a * d > c * b /\ c * f >= e * d => a * f > e * b
        /\ a * d >= c * b /\ c * f > e * d => a * f > e * b
    BY FractionsCompose
  <1>4. e * d >= c * f /\ c * b >= a * d => e * b >= a * f
    BY FractionsCompose
  <1> QED
    BY <1>1, <1>2, <1>3, <1>4

----------------------------------------------------------------------------
(* The dual memory: what is known of the conversation.                      *)

Ranges == [from : Int, to : Int]

\* The chunks of what was said before the query.
Known ==
    {c \in Memory!Chunks : c.ordinal <= Len(pieces[c.event]) /\ c.event \in Memory!Prefix}

\* The rankings hold nothing else, the threshold lets no prohibited fact through, and what the
\* arms were shown is safe.
MemoryInv ==
    /\ pieces \in [Memory!Events -> Seq(Ranges)]
    /\ dense \in Seq(Known) /\ lexical \in Seq(Known)
    /\ stage = "cut" => dense = <<>> /\ lexical = <<>>
    /\ stage = "policy" => Memory!Prohibited(threshold) = {}
    /\ stage # "composed" => contexts = <<>>
    /\ Memory!NothingLeaks

LEMMA ConversationIs ==
    /\ Memory!Events = 1 .. Len(DualSettings.Length) /\ Len(DualSettings.Length) \in Nat
    /\ IsFiniteSet(Memory!Events)
    /\ Memory!Prefix \in SUBSET Memory!Events /\ Memory!Prefix \in SUBSET Int
    /\ \A i \in Memory!Events : i < DualSettings.Query <=> i \in Memory!Prefix
    /\ \A i \in Memory!Events : DualSettings.Length[i] \in Nat
  <1>1. /\ Memory!Events = 1 .. Len(DualSettings.Length) /\ Len(DualSettings.Length) \in Nat
        /\ DualSettings.Query \in Memory!Events
        /\ \A i \in Memory!Events : DualSettings.Length[i] \in Nat
    BY DualBounds DEF DualBounds, Memory!Events
  <1>2. IsFiniteSet(Memory!Events)
    BY <1>1, FS_Interval
  <1>3. Memory!Prefix = 1 .. DualSettings.Query - 1
    BY DEF Memory!Prefix
  <1> QED
    BY <1>1, <1>2, <1>3

LEMMA KnownIs ==
    ASSUME MemoryInv, NEW c \in Known
    PROVE  /\ c.event \in Memory!Prefix /\ c.event \in Int /\ c.ordinal \in Int
           /\ c = [event |-> c.event, ordinal |-> c.ordinal]
           /\ Memory!CostOf(c) \in Int
  <1>1. PICK i \in Memory!Events, n \in 1 .. DualSettings.MaxChunks :
           c = [event |-> i, ordinal |-> n]
    BY DEF Known, Memory!Chunks
  <1>2. n <= Len(pieces[i]) /\ i \in Memory!Prefix
    BY <1>1 DEF Known
  <1>3. n \in Int /\ i \in Int
    BY <1>2, ConversationIs
  <1>4. pieces[i][n] \in Ranges
    <2>1. pieces[i] \in Seq(Ranges)
      BY DEF MemoryInv
    <2> PICK s \in Seq(Ranges) : s = pieces[i]
      BY <2>1
    <2>2. n \in 1 .. Len(s)
      BY <1>2, <1>3, DualBounds DEF DualBounds
    <2> QED
      BY <2>2
  <1>5. Memory!CostOf(c) = pieces[i][n].to - pieces[i][n].from
    BY <1>1 DEF Memory!CostOf
  <1> QED
    BY <1>1, <1>2, <1>3, <1>4, <1>5 DEF Ranges

(* build_chunks: the fragments.                                             *)
LEMMA EndsAreNumbers ==
    ASSUME NEW start \in Int, NEW length \in Int, NEW end \in Memory!EndsAfter(start, length)
    PROVE  end \in Int
  <1> PICK most \in Nat : most = DualSettings.MaxChars
    BY DualBounds DEF DualBounds
  <1> QED
    BY DEF Memory!EndsAfter

LEMMA CutNextKeeps == ASSUME MemoryInv, Memory!CutNext PROVE MemoryInv'
  <1> DEFINE i == Memory!Min(Memory!Uncut)
             from == IF pieces[i] = <<>> THEN 0
                     ELSE Memory!Larger(Memory!Last(pieces[i]).to - DualSettings.Overlap,
                                        Memory!Last(pieces[i]).from + 1)
  <1>1. /\ stage = "cut" /\ Memory!Uncut # {} /\ stage' = stage
        /\ dense' = dense /\ lexical' = lexical /\ contexts' = contexts /\ facts' = facts
    BY DEF Memory!CutNext
  <1>2. PICK end \in Memory!EndsAfter(from, DualSettings.Length[i]) :
           pieces' = [pieces EXCEPT ![i] = Append(@, [from |-> from, to |-> end])]
    BY DEF Memory!CutNext
  <1>3. i \in Memory!Events
    <2>1. Memory!Uncut \in SUBSET Int /\ \A n \in Memory!Uncut : 1 <= n
      BY ConversationIs DEF Memory!Uncut
    <2>2. Memory!Min(Memory!Uncut) = Packing!Min(Memory!Uncut)
      BY Zenon DEF Memory!Min, Packing!Min
    <2>3. Memory!Min(Memory!Uncut) \in Memory!Uncut
      BY <1>1, <2>1, <2>2, Packing!LeastIsThere
    <2> QED
      BY <2>3 DEF Memory!Uncut
  <1>4. pieces[i] \in Seq(Ranges)
    BY <1>3 DEF MemoryInv
  <1>5. from \in Int
    <2> PICK s \in Seq(Ranges) : s = pieces[i]
      BY <1>4
    <2>1. CASE s = <<>>
      BY <2>1
    <2>2. CASE s # <<>>
      <3>1. s[Len(s)] \in Ranges
        BY <2>2
      <3>2. Memory!Last(s).to \in Int /\ Memory!Last(s).from \in Int
        BY <3>1 DEF Memory!Last, Ranges
      <3> QED
        BY <2>2, <3>2, DualBounds DEF DualBounds, Memory!Larger
    <2> QED
      BY <2>1, <2>2
  <1> HIDE DEF from, i
  <1>6. end \in Int
    <2>1. DualSettings.Length[i] \in Int
      BY <1>3, ConversationIs
    <2> QED
      BY <1>5, <2>1, EndsAreNumbers
  <1>7. pieces' \in [Memory!Events -> Seq(Ranges)]
    <2>1. [from |-> from, to |-> end] \in Ranges
      BY <1>5, <1>6 DEF Ranges
    <2>2. Append(pieces[i], [from |-> from, to |-> end]) \in Seq(Ranges)
      BY <1>4, <2>1
    <2> QED
      BY <1>2, <2>2 DEF MemoryInv
  <1>8. dense' = <<>> /\ lexical' = <<>> /\ contexts' = <<>>
    BY <1>1 DEF MemoryInv
  <1>9. Memory!NothingLeaks'
    BY <1>8 DEF Memory!NothingLeaks
  <1> QED
    BY <1>1, <1>7, <1>8, <1>9 DEF MemoryInv

LEMMA MemoryBegins == ASSUME Memory!Init PROVE MemoryInv
  <1>1. /\ stage = "cut" /\ pieces = [i \in Memory!Events |-> <<>>]
        /\ dense = <<>> /\ lexical = <<>> /\ contexts = <<>>
    BY DEF Memory!Init
  <1> QED
    BY <1>1 DEF MemoryInv, Memory!NothingLeaks

\* A step that leaves the fragments and the rankings alone.
LEMMA KnownStays ==
    ASSUME MemoryInv, pieces' = pieces PROVE Known' = Known
  BY DEF Known

LEMMA CalibrateKeeps == ASSUME MemoryInv, Memory!Calibrate PROVE MemoryInv'
  <1>1. /\ stage = "cut" /\ stage' \in {"invalid", "retrieve"}
        /\ pieces' = pieces /\ dense' = dense /\ lexical' = lexical /\ contexts' = contexts
    BY DEF Memory!Calibrate
  <1>2. contexts' = <<>>
    BY <1>1 DEF MemoryInv
  <1>3. Memory!NothingLeaks'
    BY <1>2 DEF Memory!NothingLeaks
  <1> QED
    BY <1>1, <1>2, <1>3, KnownStays DEF MemoryInv

LEMMA RankingsAreKnown ==
    ASSUME MemoryInv, NEW s \in Memory!Rankings PROVE s \in Seq(Known)
  <1>1. PICK T \in SUBSET {c \in Memory!Chunks : Memory!Eligible(c)} :
           s \in Memory!SetToSeqs(T)
    BY DEF Memory!Rankings, Memory!SetToAllKPermutations
  <1>2. IsFiniteSet(Memory!Chunks)
    <2>1. IsFiniteSet(1 .. DualSettings.MaxChunks)
      <3>1. DualSettings.MaxChunks \in Int
        BY DualBounds DEF DualBounds
      <3> QED
        BY <3>1, FS_Interval
    <2>2. IsFiniteSet(Memory!Events \X (1 .. DualSettings.MaxChunks))
      BY <2>1, ConversationIs, FS_Product
    <2> DEFINE chunk == [p \in Memory!Events \X (1 .. DualSettings.MaxChunks) |->
                           [event |-> p[1], ordinal |-> p[2]]]
    <2>3. chunk \in Surjection(Memory!Events \X (1 .. DualSettings.MaxChunks), Memory!Chunks)
      <3>1. chunk \in [Memory!Events \X (1 .. DualSettings.MaxChunks) -> Memory!Chunks]
        BY DEF Memory!Chunks
      <3>2. \A c \in Memory!Chunks :
               \E p \in Memory!Events \X (1 .. DualSettings.MaxChunks) : chunk[p] = c
        <4> SUFFICES ASSUME NEW c \in Memory!Chunks
                     PROVE  \E p \in Memory!Events \X (1 .. DualSettings.MaxChunks) :
                               chunk[p] = c
          OBVIOUS
        <4>1. PICK i \in Memory!Events, n \in 1 .. DualSettings.MaxChunks :
                 c = [event |-> i, ordinal |-> n]
          BY DEF Memory!Chunks
        <4>2. <<i, n>> \in Memory!Events \X (1 .. DualSettings.MaxChunks)
          OBVIOUS
        <4>3. chunk[<<i, n>>] = c
          BY <4>1, <4>2
        <4> QED
          BY <4>2, <4>3
      <3> QED
        BY <3>1, <3>2 DEF Surjection
    <2> QED
      BY <2>2, <2>3, FS_Surjection
  <1>3. T \in SUBSET Memory!Chunks /\ T \in SUBSET Known
    BY ConversationIs DEF Known, Memory!Eligible, Memory!Chunks
  <1>4. Cardinality(T) \in Nat
    BY <1>2, <1>3, FS_Subset, FS_CardinalityType
  <1>5. Memory!Cardinality(T) = Cardinality(T)
    BY Zenon DEF Memory!Cardinality, Cardinality
  <1>6. s \in [1 .. Cardinality(T) -> T]
    BY <1>1, <1>5 DEF Memory!SetToSeqs
  <1> QED
    BY <1>3, <1>4, <1>6

LEMMA RetrieveKeeps == ASSUME MemoryInv, Memory!Retrieve PROVE MemoryInv'
  <1>1. /\ stage = "retrieve" /\ stage' = "extract" /\ pieces' = pieces /\ contexts' = contexts
        /\ dense' \in Memory!Rankings /\ lexical' \in Memory!Rankings
    BY DEF Memory!Retrieve
  <1>2. contexts' = <<>>
    BY <1>1 DEF MemoryInv
  <1>3. Memory!NothingLeaks'
    BY <1>2 DEF Memory!NothingLeaks
  <1>4. dense' \in Seq(Known) /\ lexical' \in Seq(Known)
    BY <1>1, RankingsAreKnown
  <1> QED
    BY <1>1, <1>2, <1>3, <1>4, KnownStays DEF MemoryInv

LEMMA ExtractKeeps == ASSUME MemoryInv, Memory!Extract PROVE MemoryInv'
  <1>1. /\ stage = "extract" /\ stage' = "threshold" /\ pieces' = pieces
        /\ dense' = dense /\ lexical' = lexical /\ contexts' = contexts
    BY DEF Memory!Extract
  <1>2. contexts' = <<>>
    BY <1>1 DEF MemoryInv
  <1>3. Memory!NothingLeaks'
    BY <1>2 DEF Memory!NothingLeaks
  <1> QED
    BY <1>1, <1>2, <1>3, KnownStays DEF MemoryInv

----------------------------------------------------------------------------
(* _select_confidence_threshold.                                            *)

LEMMA MeasuresAreFractions ==
    \A t : Memory!F1(t) \in Fractions /\ Memory!Precision(t) \in Fractions
  <1> SUFFICES ASSUME NEW t
               PROVE  Memory!F1(t) \in Fractions /\ Memory!Precision(t) \in Fractions
    OBVIOUS
  <1>1. \A S : Memory!Cardinality(S) = Cardinality(S)
    BY Zenon DEF Memory!Cardinality, Cardinality
  <1>2. \A S \in SUBSET Memory!Events : Cardinality(S) \in Nat
    BY ConversationIs, FS_Subset, FS_CardinalityType
  <1>3. /\ Memory!Right(t) \in SUBSET Memory!Events
        /\ Memory!Found(t) \ Memory!Right(t) \in SUBSET Memory!Events
        /\ Memory!Gold \in SUBSET Memory!Events
    BY DEF Memory!Found, Memory!Right, Memory!Gold
  <1>4. PICK tp \in Nat, fp \in Nat, all \in Nat :
          /\ tp = Memory!Cardinality(Memory!Right(t))
          /\ fp = Memory!Cardinality(Memory!Found(t) \ Memory!Right(t))
          /\ all = Memory!Cardinality(Memory!Gold)
    BY <1>1, <1>2, <1>3
  <1>5. Memory!F1(t) = <<2 * tp, Memory!Larger(1, tp + fp + all)>>
    BY <1>4 DEF Memory!F1
  <1>6. Memory!Precision(t) = <<tp, Memory!Larger(1, tp + fp)>>
    BY <1>4 DEF Memory!Precision
  <1>7. \A n \in Nat : Memory!Larger(1, n) \in Nat \ {0}
    BY DEF Memory!Larger
  <1> QED
    BY <1>5, <1>6, <1>7 DEF Fractions

\* One of the thresholds is preferred to all others.
LEMMA ThresholdIsThere ==
    ASSUME Memory!Harmless # {}
    PROVE  (CHOOSE t \in Memory!Harmless : \A u \in Memory!Harmless : Memory!Preferred(t, u))
             \in Memory!Harmless
  <1> DEFINE H == Memory!Harmless
             R == {p \in H \X H : Memory!Preferred(p[1], p[2])}
  <1>1. H \in SUBSET Int /\ IsFiniteSet(H)
    <2>1. H \in SUBSET DualSettings.Thresholds
      BY DEF Memory!Harmless
    <2>2. DualSettings.Thresholds \subseteq Int /\ IsFiniteSet(DualSettings.Thresholds)
      BY DualBounds DEF DualBounds
    <2> HIDE DEF H
    <2> QED
      BY <2>1, <2>2, FS_Subset
  <1> HIDE DEF H
  <1>2. \A t, u \in H : <<t, u>> \in R <=> Memory!Preferred(t, u)
    OBVIOUS
  <1> HIDE DEF R
  <1>3. ASSUME NEW t \in H, NEW u \in H
        PROVE  Memory!Preferred(t, u) \/ Memory!Preferred(u, t)
    <2>1. t <= u \/ u <= t
      BY <1>1
    <2> QED
      BY <2>1, MeasuresAreFractions, FractionsCompare DEF Memory!Preferred
  <1>4. ASSUME NEW t \in H, NEW u \in H, NEW v \in H,
               Memory!Preferred(t, u), Memory!Preferred(u, v)
        PROVE  Memory!Preferred(t, v)
    <2>1. t <= u /\ u <= v => t <= v
      BY <1>1
    <2>2. PICK x \in Fractions, y \in Fractions, z \in Fractions,
               k \in Fractions, m \in Fractions, n \in Fractions :
             /\ x = Memory!F1(t) /\ y = Memory!F1(u) /\ z = Memory!F1(v)
             /\ k = Memory!Precision(t) /\ m = Memory!Precision(u) /\ n = Memory!Precision(v)
      BY MeasuresAreFractions
    <2>3. /\ Memory!Better(x, y) /\ Memory!Better(y, z) => Memory!Better(x, z)
          /\ Memory!Better(x, y) /\ Memory!Ties(y, z) => Memory!Better(x, z)
          /\ Memory!Ties(x, y) /\ Memory!Better(y, z) => Memory!Better(x, z)
          /\ Memory!Ties(x, y) /\ Memory!Ties(y, z) => Memory!Ties(x, z)
      BY FractionsFollow
    <2>4. /\ Memory!Better(k, m) /\ Memory!Better(m, n) => Memory!Better(k, n)
          /\ Memory!Better(k, m) /\ Memory!Ties(m, n) => Memory!Better(k, n)
          /\ Memory!Ties(k, m) /\ Memory!Better(m, n) => Memory!Better(k, n)
          /\ Memory!Ties(k, m) /\ Memory!Ties(m, n) => Memory!Ties(k, n)
      BY FractionsFollow
    <2> QED
      BY <1>4, <2>1, <2>2, <2>3, <2>4 DEF Memory!Preferred
  <1>5. \E t \in H : \A u \in H : <<t, u>> \in R
    <2>1. H # {}
      BY DEF H
    <2>2. \A t, u \in H : <<t, u>> \in R \/ <<u, t>> \in R
      BY <1>2, <1>3
    <2>3. \A t, u, v \in H : <<t, u>> \in R /\ <<u, v>> \in R => <<t, v>> \in R
      BY <1>2, <1>4
    <2> QED
      BY <1>1, <2>1, <2>2, <2>3, BestExists
  <1>6. \E t \in H : \A u \in H : Memory!Preferred(t, u)
    BY <1>2, <1>5
  <1> QED
    BY <1>6 DEF H

LEMMA SelectThresholdKeeps == ASSUME MemoryInv, Memory!SelectThreshold PROVE MemoryInv'
  <1>1. /\ stage = "threshold" /\ stage' \in {"invalid", "policy"} /\ pieces' = pieces
        /\ dense' = dense /\ lexical' = lexical /\ contexts' = contexts /\ facts' = facts
    BY DEF Memory!SelectThreshold
  <1>2. contexts' = <<>>
    BY <1>1 DEF MemoryInv
  <1>3. Memory!NothingLeaks'
    BY <1>2 DEF Memory!NothingLeaks
  <1>4. stage' = "policy" => threshold' \in Memory!Harmless
    BY ThresholdIsThere DEF Memory!SelectThreshold
  <1>5. stage' = "policy" => Memory!Prohibited(threshold') = {}
    BY <1>4 DEF Memory!Harmless
  <1>6. Memory!Prohibited(threshold)' = Memory!Prohibited(threshold')
    BY <1>1 DEF Memory!Found, Memory!Prohibited, Memory!SaidInGold
  <1> QED
    BY <1>1, <1>2, <1>3, <1>5, <1>6, KnownStays DEF MemoryInv

----------------------------------------------------------------------------
(* What an arm is offered.                                                  *)

\* A finite set has a sequence in a strict order, which is chosen.
LEMMA OrderIsThere ==
    ASSUME NEW S, IsFiniteSet(S), NEW R, StrictOrder(S, R), NEW s,
           s = CHOOSE s_ \in Memory!SetToSeqs(S) :
                  \A i, j \in DOMAIN s_ : i < j => <<s_[i], s_[j]>> \in R
    PROVE  s \in Seq(S) /\ s \in Memory!SetToSeqs(S)
  <1>1. Memory!Cardinality(S) = Cardinality(S)
    BY Zenon DEF Memory!Cardinality, Cardinality
  <1>2. PICK t \in [1 .. Cardinality(S) -> S] :
           \A i, j \in 1 .. Cardinality(S) :
               (i # j => t[i] # t[j]) /\ (i < j => <<t[i], t[j]>> \in R)
    BY OrderExists
  <1>3. t \in Memory!SetToSeqs(S)
    BY <1>1, <1>2 DEF Memory!SetToSeqs
  <1>4. s \in Memory!SetToSeqs(S)
    BY <1>2, <1>3
  <1>5. s \in [1 .. Cardinality(S) -> S]
    BY <1>1, <1>4 DEF Memory!SetToSeqs
  <1>6. Cardinality(S) \in Nat
    BY FS_CardinalityType
  <1> QED
    BY <1>4, <1>5, <1>6

LEMMA CutIsKnown ==
    ASSUME NEW s \in Seq(Known), NEW n \in Nat PROVE Memory!Cut(s, n) \in Seq(Known)
  <1>1. Memory!Smaller(Len(s), n) \in 0 .. Len(s)
    BY DEF Memory!Smaller
  <1> QED
    BY <1>1 DEF Memory!Cut

\* The set of the elements of a sequence is finite.
LEMMA ElementsAreFinite ==
    ASSUME NEW S, NEW s \in Seq(S)
    PROVE  IsFiniteSet(Memory!ToSet(s)) /\ Memory!ToSet(s) \in SUBSET S
  <1>1. DOMAIN s = 1 .. Len(s) /\ Len(s) \in Nat /\ \A i \in 1 .. Len(s) : s[i] \in S
    OBVIOUS
  <1>2. Memory!ToSet(s) = {s[i] : i \in 1 .. Len(s)}
    BY <1>1 DEF Memory!ToSet
  <1>3. IsFiniteSet(1 .. Len(s))
    BY <1>1, FS_Interval
  <1> DEFINE f == [i \in 1 .. Len(s) |-> s[i]]
             T == {s[i] : i \in 1 .. Len(s)}
  <1>4. f \in Surjection(1 .. Len(s), T)
    BY DEF Surjection
  <1>5. IsFiniteSet(T)
    BY <1>3, <1>4, FS_Surjection
  <1> QED
    BY <1>1, <1>2, <1>5

\* reciprocal_rank_fusion: the scores put the chunks in an order.
LEMMA FusedIsKnown == ASSUME MemoryInv PROVE Memory!Fused \in Seq(Known)
  <1> DEFINE S == Memory!ToSet(dense) \cup Memory!ToSet(lexical)
             p(c) == Memory!Part(dense, c)
             q(c) == Memory!Part(lexical, c)
             score(c) == <<p(c)[1] * q(c)[2] + q(c)[1] * p(c)[2], p(c)[2] * q(c)[2]>>
             before(c, d) == \/ score(c)[1] * score(d)[2] > score(d)[1] * score(c)[2]
                             \/ /\ score(c)[1] * score(d)[2] = score(d)[1] * score(c)[2]
                                /\ Memory!Precedes(c, d)
             R == {x \in S \X S : before(x[1], x[2])}
             s == CHOOSE t \in Memory!SetToSeqs(S) :
                     \A i, j \in DOMAIN t : i < j => before(t[i], t[j])
  <1>1. Memory!Fused = Memory!Cut(s, DualSettings.TopK)
    BY Zenon DEF Memory!Fused, Memory!InOrder
  <1>2. IsFiniteSet(S) /\ S \in SUBSET Known
    BY ElementsAreFinite, FS_Union DEF MemoryInv
  <1>3. ASSUME NEW r, r \in {dense, lexical}, NEW c
        PROVE  Memory!Part(r, c) \in Int \X (Nat \ {0}) /\ Memory!Part(r, c)[1] \in Nat
    <2>1. r \in Seq(Known)
      BY <1>3 DEF MemoryInv
    <2>2. c \in Memory!ToSet(r) => Memory!RankIn(r, c) \in 1 .. Len(r)
      <3>1. c \in Memory!ToSet(r) => \E i \in 1 .. Len(r) : r[i] = c
        BY <2>1 DEF Memory!ToSet
      <3> QED
        BY <3>1 DEF Memory!RankIn
    <2>3. c \in Memory!ToSet(r) => DualSettings.Rrf + Memory!RankIn(r, c) \in Nat \ {0}
      BY <2>1, <2>2, DualBounds DEF DualBounds
    <2> QED
      BY <2>3 DEF Memory!Part
  <1>4. ASSUME NEW c PROVE score(c) \in Fractions
    <2>1. PICK a \in Nat, b \in Nat \ {0} : p(c) = <<a, b>>
      BY <1>3
    <2>2. PICK k \in Nat, m \in Nat \ {0} : q(c) = <<k, m>>
      BY <1>3
    <2> HIDE DEF p, q
    <2>3. score(c) = <<a * m + k * b, b * m>>
      BY <2>1, <2>2
    <2>4. a * m + k * b \in Int /\ b * m \in Nat \ {0}
      OBVIOUS
    <2> QED
      BY <2>3, <2>4 DEF Fractions
  <1>5. \A c, d : before(c, d) <=> \/ Memory!Better(score(c), score(d))
                                   \/ /\ Memory!Ties(score(c), score(d))
                                      /\ Memory!Precedes(c, d)
    BY DEF Memory!Better, Memory!Ties
  <1>6. \A c, d \in S : <<c, d>> \in R <=> before(c, d)
    OBVIOUS
  <1>7. \A c \in S : c.event \in Int /\ c.ordinal \in Int
                       /\ c = [event |-> c.event, ordinal |-> c.ordinal]
    BY <1>2, KnownIs
  <1> HIDE DEF S, R, before, score
  <1>8. /\ \A c, d \in S : c # d => Memory!Precedes(c, d) \/ Memory!Precedes(d, c)
        /\ \A c \in S : ~Memory!Precedes(c, c)
        /\ \A c, d, x \in S :
              Memory!Precedes(c, d) /\ Memory!Precedes(d, x) => Memory!Precedes(c, x)
    <2>1. \A c, d \in S : c # d => c.event # d.event \/ c.ordinal # d.ordinal
      BY <1>7
    <2> QED
      BY <1>7, <2>1 DEF Memory!Precedes
  <1>9. StrictOrder(S, R)
    <2>1. ASSUME NEW c \in S, NEW d \in S, c # d PROVE before(c, d) \/ before(d, c)
      BY <1>4, <1>5, <1>8, <2>1, FractionsCompare
    <2>2. ASSUME NEW c \in S PROVE ~before(c, c)
      BY <1>4, <1>5, <1>8, FractionsCompare
    <2>3. ASSUME NEW c \in S, NEW d \in S, NEW x \in S, before(c, d), before(d, x)
          PROVE  before(c, x)
      <3>1. PICK k \in Fractions, m \in Fractions, n \in Fractions :
               k = score(c) /\ m = score(d) /\ n = score(x)
        BY <1>4
      <3>2. /\ Memory!Better(k, m) /\ Memory!Better(m, n) => Memory!Better(k, n)
            /\ Memory!Better(k, m) /\ Memory!Ties(m, n) => Memory!Better(k, n)
            /\ Memory!Ties(k, m) /\ Memory!Better(m, n) => Memory!Better(k, n)
            /\ Memory!Ties(k, m) /\ Memory!Ties(m, n) => Memory!Ties(k, n)
        BY FractionsFollow
      <3>3. Memory!Precedes(c, d) /\ Memory!Precedes(d, x) => Memory!Precedes(c, x)
        BY <1>8
      <3> QED
        BY <1>5, <2>3, <3>1, <3>2, <3>3
    <2> QED
      BY <1>6, <2>1, <2>2, <2>3 DEF StrictOrder
  <1>10. s = CHOOSE t \in Memory!SetToSeqs(S) :
                \A i, j \in DOMAIN t : i < j => <<t[i], t[j]>> \in R
    <2>1. \A t \in Memory!SetToSeqs(S) : \A i \in DOMAIN t : t[i] \in S
      BY DEF Memory!SetToSeqs
    <2>2. \A t \in Memory!SetToSeqs(S) :
             (\A i, j \in DOMAIN t : i < j => before(t[i], t[j]))
               <=> (\A i, j \in DOMAIN t : i < j => <<t[i], t[j]>> \in R)
      BY <1>6, <2>1
    <2> QED
      BY <2>2
  <1> HIDE DEF s
  <1>11. s \in Seq(S)
    BY <1>2, <1>9, <1>10, OrderIsThere
  <1>12. s \in Seq(Known)
    BY <1>2, <1>11
  <1> QED
    BY <1>1, <1>12, CutIsKnown, DualBounds DEF DualBounds

(* The facts that fit, the chunks that fit, and those that are not shown.   *)
FactFitting == INSTANCE Folding WITH
    Op <- LAMBDA taken, x :
            IF taken.used + DualSettings.FactCost <= Memory!FactShare
            THEN [kept |-> Append(taken.kept, x), used |-> taken.used + DualSettings.FactCost]
            ELSE taken,
    Base <- [kept |-> <<>>, used |-> 0], Weight <- LAMBDA i : i

ChunkFitting == INSTANCE Folding WITH
    Op <- LAMBDA taken, x :
            IF taken.used + Memory!CostOf(x)
                 <= Memory!Smaller(Memory!Headroom, DualSettings.MemoryCap) - Memory!FactShare
            THEN [kept |-> Append(taken.kept, x), used |-> taken.used + Memory!CostOf(x)]
            ELSE taken,
    Base <- [kept |-> <<>>, used |-> 0], Weight <- LAMBDA i : i

Sieve == INSTANCE Folding WITH
    Op <- LAMBDA kept, c : IF c.event \in Memory!ActiveOf(window) THEN kept ELSE Append(kept, c),
    Base <- <<>>, Weight <- LAMBDA i : i

OpenSieve == INSTANCE Folding WITH
    Op <- LAMBDA kept, c : IF c.event \in {} THEN kept ELSE Append(kept, c),
    Base <- <<>>, Weight <- LAMBDA i : i

LEMMA UnshownIsFold ==
    ASSUME NEW s PROVE Memory!Unshown(s, Memory!ActiveOf(window)) = Sieve!Fold(s)
  BY Zenon DEF Sieve!Fold, Sieve!FoldLeft, Sieve!MapThenFoldSet, Sieve!Max,
     Memory!Unshown, Memory!FoldLeft, Memory!MapThenFoldSet, Memory!Max

LEMMA NothingIsUnshown == Memory!Unshown(<<>>, {}) = <<>>
  <1>1. Memory!Unshown(<<>>, {}) = OpenSieve!Fold(<<>>)
    BY Zenon DEF OpenSieve!Fold, OpenSieve!FoldLeft, OpenSieve!MapThenFoldSet, OpenSieve!Max,
       Memory!Unshown, Memory!FoldLeft, Memory!MapThenFoldSet, Memory!Max
  <1> QED
    BY <1>1, OpenSieve!FoldEmpty

\* compose_input: what is not shown already is of other events.
LEMMA UnshownAreOthers ==
    ASSUME NEW s \in Seq(Known)
    PROVE  Memory!Unshown(s, Memory!ActiveOf(window))
             \in Seq({c \in Known : c.event \notin Memory!ActiveOf(window)})
  <1> DEFINE T == {c \in Known : c.event \notin Memory!ActiveOf(window)}
  <1>1. <<>> \in Seq(T)
    OBVIOUS
  <1>2. \A kept \in Seq(T), c \in Known :
           (IF c.event \in Memory!ActiveOf(window) THEN kept ELSE Append(kept, c)) \in Seq(T)
    OBVIOUS
  <1>3. Sieve!Fold(s) \in Seq(T)
    <2> HIDE DEF T
    <2> QED
      BY <1>1, <1>2, Sieve!FoldWithin
  <1> QED
    BY <1>3, UnshownIsFold

\* _adaptive_selection: what fits is of what was offered.
LEMMA FittingFacts ==
    ASSUME NEW S, NEW s \in Seq(S)
    PROVE  Memory!ToSet(Memory!Fitting(s, LAMBDA i : DualSettings.FactCost, Memory!FactShare))
             \in SUBSET S
  <1> DEFINE T == [kept : Seq(S), used : Int]
  <1>1. Memory!Fitting(s, LAMBDA i : DualSettings.FactCost, Memory!FactShare)
          = FactFitting!Fold(s).kept
    BY Zenon DEF FactFitting!Fold, FactFitting!FoldLeft, FactFitting!MapThenFoldSet,
       FactFitting!Max, Memory!Fitting, Memory!FoldLeft, Memory!MapThenFoldSet, Memory!Max
  <1>2. [kept |-> <<>>, used |-> 0] \in T
    OBVIOUS
  <1>3. \A taken \in T, x \in S :
           (IF taken.used + DualSettings.FactCost <= Memory!FactShare
            THEN [kept |-> Append(taken.kept, x), used |-> taken.used + DualSettings.FactCost]
            ELSE taken) \in T
    <2>1. DualSettings.FactCost \in Int
      BY DualBounds DEF DualBounds
    <2> QED
      BY <2>1
  <1>4. FactFitting!Fold(s) \in T
    <2> HIDE DEF T
    <2> QED
      BY <1>2, <1>3, FactFitting!FoldWithin
  <1> QED
    BY <1>1, <1>4, ElementsAreFinite

LEMMA FittingChunks ==
    ASSUME MemoryInv, NEW s \in Seq(Known)
    PROVE  Memory!Fitting(s, Memory!CostOf,
              Memory!Smaller(Memory!Headroom, DualSettings.MemoryCap) - Memory!FactShare)
             \in Seq(Known)
  <1> DEFINE T == [kept : Seq(Known), used : Int]
             budget == Memory!Smaller(Memory!Headroom, DualSettings.MemoryCap) - Memory!FactShare
  <1>1. Memory!Fitting(s, Memory!CostOf, budget) = ChunkFitting!Fold(s).kept
    BY Zenon DEF ChunkFitting!Fold, ChunkFitting!FoldLeft, ChunkFitting!MapThenFoldSet,
       ChunkFitting!Max, Memory!Fitting, Memory!FoldLeft, Memory!MapThenFoldSet, Memory!Max
  <1>2. [kept |-> <<>>, used |-> 0] \in T
    OBVIOUS
  <1>3. \A taken \in T, x \in Known :
           (IF taken.used + Memory!CostOf(x) <= budget
            THEN [kept |-> Append(taken.kept, x), used |-> taken.used + Memory!CostOf(x)]
            ELSE taken) \in T
    <2>1. \A x \in Known : Memory!CostOf(x) \in Int
      BY KnownIs
    <2> HIDE DEF budget
    <2> QED
      BY <2>1
  <1>4. ChunkFitting!Fold(s) \in T
    <2> HIDE DEF T
    <2> QED
      BY <1>2, <1>3, ChunkFitting!FoldWithin
  <1> QED
    BY <1>1, <1>4

\* The facts an arm may be offered.
Allowed(arm, e) ==
    DualSettings.GoldFacts[e].prohibited => arm # "R" /\ ~Memory!SaidInGold(e)
Tellable(arm) == {e \in Memory!Prefix : Allowed(arm, e)}

\* current_semantic_facts and curated_facts: the threshold keeps the prohibited ones away, and what
\* the dataset prohibits is none of its facts.
LEMMA FactsAreTellable ==
    ASSUME MemoryInv, stage = "policy"
    PROVE  /\ \A arm : arm # "R" => Memory!CurrentFacts \in SUBSET Tellable(arm)
           /\ IsFiniteSet(Memory!CurrentFacts)
           /\ Memory!CuratedFacts \in SUBSET Tellable("R")
  <1>1. Memory!Prohibited(threshold) = {}
    BY DEF MemoryInv
  <1>2. \A i \in Memory!Prefix :
           facts[i].active /\ facts[i].confidence >= threshold
             => (DualSettings.GoldFacts[i].prohibited => ~Memory!SaidInGold(i))
    <2> SUFFICES ASSUME NEW i \in Memory!Prefix, facts[i].active,
                        facts[i].confidence >= threshold,
                        DualSettings.GoldFacts[i].prohibited, Memory!SaidInGold(i)
                 PROVE  FALSE
      OBVIOUS
    <2>1. facts[i] # Memory!NoFact
      BY DEF Memory!NoFact
    <2>2. i \in Memory!Prohibited(threshold)
      BY <2>1, ConversationIs DEF Memory!Prohibited, Memory!Found
    <2> QED
      BY <1>1, <2>2
  <1>3. \A arm : arm # "R" => Memory!CurrentFacts \in SUBSET Tellable(arm)
    BY <1>2 DEF Memory!CurrentFacts, Memory!LatestOf, Tellable, Allowed
  <1>4. Memory!CuratedFacts \in SUBSET Tellable("R")
    BY DEF Memory!CuratedFacts, Memory!LatestOf, Memory!Gold, Tellable, Allowed
  <1>5. Memory!CurrentFacts \in SUBSET Memory!Events
    BY ConversationIs DEF Memory!CurrentFacts, Memory!LatestOf
  <1>6. IsFiniteSet(Memory!CurrentFacts)
    BY <1>5, ConversationIs, FS_Subset
  <1> QED
    BY <1>3, <1>4, <1>6

\* _adaptive_selection.
LEMMA AdaptiveIsSafe ==
    ASSUME MemoryInv, stage = "policy", NEW arm, arm # "R"
    PROVE  /\ Memory!Adaptive.semantic \in SUBSET Tellable(arm)
           /\ Memory!Adaptive.episodic \in Seq(Known)
  <1> PICK S : S = Memory!CurrentFacts
    OBVIOUS
  <1> PICK s : s = CHOOSE t \in Memory!SetToSeqs(S) : \A i, j \in DOMAIN t : i < j => t[i] > t[j]
    OBVIOUS
  <1>1. /\ Memory!Adaptive.semantic =
             Memory!ToSet(Memory!Fitting(s, LAMBDA i : DualSettings.FactCost, Memory!FactShare))
        /\ Memory!Adaptive.episodic =
             Memory!Fitting(Memory!Fused, Memory!CostOf,
                Memory!Smaller(Memory!Headroom, DualSettings.MemoryCap) - Memory!FactShare)
    BY DEF Memory!Adaptive, Memory!InOrder
  <1>2. S \in SUBSET Tellable(arm) /\ IsFiniteSet(S) /\ S \in SUBSET Int
    BY FactsAreTellable, ConversationIs DEF Tellable
  <1> DEFINE R == {p \in S \X S : p[1] > p[2]}
  <1>3. \A x, y \in S : <<x, y>> \in R <=> x > y
    OBVIOUS
  <1> HIDE DEF R
  <1>4. StrictOrder(S, R)
    <2>1. \A x, y \in S : x # y => <<x, y>> \in R \/ <<y, x>> \in R
      BY <1>2, <1>3
    <2>2. \A x \in S : <<x, x>> \notin R
      BY <1>2, <1>3
    <2>3. \A x, y, z \in S : <<x, y>> \in R /\ <<y, z>> \in R => <<x, z>> \in R
      BY <1>2, <1>3
    <2> QED
      BY <2>1, <2>2, <2>3 DEF StrictOrder
  <1>5. s = CHOOSE t \in Memory!SetToSeqs(S) : \A i, j \in DOMAIN t : i < j => <<t[i], t[j]>> \in R
    <2>1. \A t \in Memory!SetToSeqs(S) : \A i \in DOMAIN t : t[i] \in S
      BY DEF Memory!SetToSeqs
    <2>2. \A t \in Memory!SetToSeqs(S) :
             (\A i, j \in DOMAIN t : i < j => t[i] > t[j])
               <=> (\A i, j \in DOMAIN t : i < j => <<t[i], t[j]>> \in R)
      BY <1>3, <2>1
    <2> QED
      BY <2>2
  <1>6. s \in Seq(S)
    BY <1>2, <1>4, <1>5, OrderIsThere
  <1>7. Memory!ToSet(Memory!Fitting(s, LAMBDA i : DualSettings.FactCost, Memory!FactShare))
           \in SUBSET S
    BY <1>6, FittingFacts
  <1>8. Memory!Adaptive.semantic \in SUBSET Tellable(arm)
    BY <1>1, <1>2, <1>7
  <1>9. Memory!Adaptive.episodic \in Seq(Known)
    BY <1>1, FusedIsKnown, FittingChunks
  <1> QED
    BY <1>8, <1>9

\* _contexts: whatever an arm is offered.
LEMMA OfferedIsSafe ==
    ASSUME MemoryInv, stage = "policy", NEW arm
    PROVE  /\ Memory!Offered(arm).semantic \in SUBSET Tellable(arm)
           /\ Memory!Offered(arm).episodic \in Seq(Known)
           /\ arm = "A" => Memory!Offered(arm).episodic = <<>>
  <1>1. /\ Memory!Cut(dense, DualSettings.TopK) \in Seq(Known)
        /\ Memory!Cut(lexical, DualSettings.TopK) \in Seq(Known)
    BY CutIsKnown, DualBounds DEF MemoryInv, DualBounds
  <1>2. Memory!Fused \in Seq(Known)
    BY FusedIsKnown
  <1>3. /\ arm # "R" => Memory!CurrentFacts \in SUBSET Tellable(arm)
        /\ Memory!CuratedFacts \in SUBSET Tellable("R")
    BY FactsAreTellable
  <1>4. arm # "R" => /\ Memory!Adaptive.semantic \in SUBSET Tellable(arm)
                     /\ Memory!Adaptive.episodic \in Seq(Known)
    BY AdaptiveIsSafe
  <1>5. <<>> \in Seq(Known)
    OBVIOUS
  <1> QED
    BY <1>1, <1>2, <1>3, <1>4, <1>5 DEF Memory!Offered

\* compose_input: so is the context of every arm, with the fallback or without.
LEMMA ComposedIsSafe ==
    ASSUME MemoryInv, stage = "policy", NEW arm, NEW fallback
    PROVE  LET c == Memory!compose_input(arm, fallback)
               remembered == {x.event : x \in Memory!ToSet(c.episodic)}
           IN  /\ c.active \cup remembered \cup c.semantic \subseteq Memory!Prefix
               /\ c.active \cap remembered = {}
               /\ \A i \in c.semantic : Allowed(arm, i)
               /\ c.arm = arm
  <1> DEFINE whole == arm = "B" \/ (arm = "G-FALLBACK" /\ fallback)
             latest == Memory!LatestThatFit(Memory!Prefix,
                          DualSettings.Total - DualSettings.SystemCost - DualSettings.UserCost
                            - DualSettings.Reserve)
             c == Memory!compose_input(arm, fallback)
             remembered == {x.event : x \in Memory!ToSet(c.episodic)}
  <1>1. /\ c.arm = arm
        /\ c.active = IF arm = "A" THEN {} ELSE IF whole THEN latest ELSE Memory!ActiveOf(window)
        /\ c.episodic = IF whole THEN <<>>
                        ELSE Memory!Unshown(Memory!Offered(arm).episodic, c.active)
        /\ c.semantic = IF whole THEN {} ELSE Memory!Offered(arm).semantic
    BY DEF Memory!compose_input
  <1>2. latest \in SUBSET Memory!Prefix /\ Memory!ActiveOf(window) \in SUBSET Memory!Prefix
    <2>1. Memory!ActiveOf(window) \in SUBSET Memory!Prefix
      BY DEF Memory!ActiveOf
    <2>2. latest \in SUBSET Memory!Prefix
      BY DEF Memory!LatestThatFit
    <2> QED
      BY <2>1, <2>2
  <1> HIDE DEF c, latest
  <1>3. c.active \in SUBSET Memory!Prefix
    BY <1>1, <1>2
  <1>4. c.semantic \in SUBSET Tellable(arm)
    BY <1>1, OfferedIsSafe
  <1>5. c.episodic \in Seq({x \in Known : x.event \notin c.active})
    <2> DEFINE T(active) == {x \in Known : x.event \notin active}
    <2>1. CASE whole
      BY <1>1, <2>1
    <2>2. CASE ~whole /\ arm = "A"
      BY <1>1, <2>2, OfferedIsSafe, NothingIsUnshown
    <2>3. CASE ~whole /\ arm # "A"
      <3>1. c.active = Memory!ActiveOf(window)
        BY <1>1, <2>3
      <3>2. c.episodic = Memory!Unshown(Memory!Offered(arm).episodic, Memory!ActiveOf(window))
        BY <1>1, <2>3
      <3> QED
        BY <3>1, <3>2, OfferedIsSafe, UnshownAreOthers
    <2> QED
      BY <2>1, <2>2, <2>3
  <1>6. \A x \in Memory!ToSet(c.episodic) : x.event \in Memory!Prefix /\ x.event \notin c.active
    <2>1. Memory!ToSet(c.episodic) \in SUBSET {x \in Known : x.event \notin c.active}
      BY <1>5, ElementsAreFinite
    <2> QED
      BY <2>1 DEF Known
  <1>7. remembered \subseteq Memory!Prefix /\ c.active \cap remembered = {}
    BY <1>6
  <1> QED
    BY <1>1, <1>3, <1>4, <1>7 DEF Tellable, c

LEMMA ComposeKeeps ==
    ASSUME MemoryInv, NEW deictic \in BOOLEAN, NEW required \in BOOLEAN,
           Memory!Compose(deictic, required)
    PROVE  MemoryInv'
  <1>1. /\ stage = "policy" /\ stage' \in {"composed", "invalid"} /\ pieces' = pieces
        /\ dense' = dense /\ lexical' = lexical /\ facts' = facts /\ threshold' = threshold
    BY DEF Memory!Compose
  <1>2. CASE stage' = "composed"
    <2>1. PICK b : contexts' =
             [i \in 1 .. Len(Memory!Arms) |-> Memory!compose_input(Memory!Arms[i], b)]
      BY <1>2 DEF Memory!Compose
    <2>2. \A i \in DOMAIN contexts' :
             LET c == contexts'[i]
                 remembered == {x.event : x \in Memory!ToSet(c.episodic)}
             IN  /\ c.active \cup remembered \cup c.semantic \subseteq Memory!Prefix
                 /\ c.active \cap remembered = {}
                 /\ \A j \in c.semantic : Allowed(c.arm, j)
      BY <1>1, <2>1, ComposedIsSafe
    <2>3. Memory!NothingLeaks'
      BY <1>1, <2>2 DEF Memory!NothingLeaks, Memory!ToSet, Allowed, Memory!SaidInGold
    <2> QED
      BY <1>1, <1>2, <2>3, KnownStays DEF MemoryInv
  <1>3. CASE stage' = "invalid"
    <2>1. contexts' = contexts
      BY <1>3 DEF Memory!Compose
    <2>2. contexts' = <<>>
      BY <1>1, <2>1 DEF MemoryInv
    <2>3. Memory!NothingLeaks'
      BY <2>2 DEF Memory!NothingLeaks
    <2> QED
      BY <1>1, <1>3, <2>2, <2>3, KnownStays DEF MemoryInv
  <1> QED
    BY <1>1, <1>2, <1>3

LEMMA MemoryKeeps == ASSUME MemoryInv, [Memory!Next]_memoryVars PROVE MemoryInv'
  <1>1. CASE UNCHANGED memoryVars
    <2>1. /\ stage' = stage /\ pieces' = pieces /\ dense' = dense /\ lexical' = lexical
          /\ facts' = facts /\ threshold' = threshold /\ contexts' = contexts
      BY <1>1 DEF memoryVars
    <2>2. Memory!NothingLeaks' <=> Memory!NothingLeaks
      BY <2>1 DEF Memory!NothingLeaks, Memory!ToSet, Memory!SaidInGold
    <2>3. Memory!Prohibited(threshold)' = Memory!Prohibited(threshold)
      BY <2>1 DEF Memory!Found, Memory!Prohibited, Memory!SaidInGold
    <2> QED
      BY <2>1, <2>2, <2>3, KnownStays DEF MemoryInv
  <1>2. CASE Memory!Next
    BY <1>2, CutNextKeeps, CalibrateKeeps, RetrieveKeeps, ExtractKeeps, SelectThresholdKeeps,
       ComposeKeeps DEF Memory!Next
  <1> QED
    BY <1>1, <1>2

\* Whatever the scores, the dataset, the facts extracted and the settings: no arm of the dual memory
\* experiment is shown the query or what follows it, a remembered chunk of an event shown in full, or
\* a fact the dataset prohibits of its event (_eligible, compose_input, current_semantic_facts,
\* curated_facts, _select_confidence_threshold).
THEOREM NoArmLearnsTheAnswer == ContextSpec => []NothingLeaks
  <1> DEFINE Inv == part = "memory" => MemoryInv
  <1>1. ContextInit => Inv
    BY MemoryBegins DEF ContextInit
  <1>2. Inv /\ [ContextNext]_contextVars => Inv'
    <2>1. ASSUME [ContextNext]_contextVars
          PROVE  part' = part /\ (part = "memory" => [Memory!Next]_memoryVars)
      BY <2>1 DEF ContextNext, contextVars, PaidNext, paidVars
    <2> QED
      BY <2>1, MemoryKeeps
  <1>3. Inv => NothingLeaks
    BY DEF NothingLeaks, MemoryInv
  <1> QED
    BY <1>1, <1>2, <1>3, PTL DEF ContextSpec

----------------------------------------------------------------------------
(* The episodic memory: the fragments of a message.                         *)

\* A candidate a run may choose.
Candidate(c) == c.chars \in Nat \ {0} /\ c.overlap \in 0 .. c.chars - 1

Separated == separators \in [Episodic!Messages -> SUBSET Int]

LEMMA TalkIs ==
    /\ Episodic!Messages = 1 .. Len(EpisodicSettings.Length) /\ Len(EpisodicSettings.Length) \in Nat
    /\ \A m \in Episodic!Messages : m \in Int /\ EpisodicSettings.Length[m] \in Nat
    /\ \A S \in SUBSET Episodic!Messages : IsFiniteSet(S) /\ S \in SUBSET Int
    /\ \A k \in Episodic!Exchanges : /\ k \in Nat \ {0} /\ Episodic!Question(k) = 2 * k - 1
                                     /\ Episodic!Prefix(k) \in SUBSET Episodic!Messages
                                     /\ Episodic!Question(k) \in Episodic!Messages
    /\ EpisodicSettings.Evaluated \in SUBSET Episodic!Exchanges
    /\ Episodic!Exchanges = 1 .. Len(EpisodicSettings.Length) \div 2
    /\ \A c \in Episodic!Run : Candidate(c)
  <1>1. /\ Episodic!Messages = 1 .. Len(EpisodicSettings.Length)
        /\ Len(EpisodicSettings.Length) \in Nat
        /\ \A m \in Episodic!Messages : m \in Int /\ EpisodicSettings.Length[m] \in Nat
    <2>1. EpisodicSettings.Length \in Seq(Nat)
      BY EpisodicBounds DEF EpisodicBounds
    <2>2. Episodic!Messages = DOMAIN EpisodicSettings.Length
      BY DEF Episodic!Messages
    <2>3. \A s \in Seq(Nat) : /\ DOMAIN s = 1 .. Len(s) /\ Len(s) \in Nat
                              /\ \A m \in DOMAIN s : m \in Int /\ s[m] \in Nat
      OBVIOUS
    <2> QED
      BY <2>1, <2>2, <2>3
  <1>2. IsFiniteSet(Episodic!Messages)
    BY <1>1, FS_Interval
  <1>3. \A S \in SUBSET Episodic!Messages : IsFiniteSet(S) /\ S \in SUBSET Int
    BY <1>1, <1>2, FS_Subset
  <1>4. \A n \in Nat : \A k \in 1 .. n \div 2 :
           k \in Nat \ {0} /\ 2 * k <= n /\ 2 * k - 1 \in 1 .. n /\ 1 .. 2 * k - 2 \subseteq 1 .. n
    <2> TAKE n \in Nat
    <2> TAKE k \in 1 .. n \div 2
    <2>1. 2 * (n \div 2) <= n /\ n \div 2 \in Nat
      OBVIOUS
    <2>2. k \in Nat \ {0} /\ k <= n \div 2
      BY <2>1
    <2>3. 2 * k <= n
      BY <2>1, <2>2
    <2> QED
      BY <2>2, <2>3
  <1>5. Episodic!Exchanges = 1 .. Len(EpisodicSettings.Length) \div 2
    BY DEF Episodic!Exchanges
  <1>6. \A k \in Episodic!Exchanges : /\ k \in Nat \ {0} /\ Episodic!Question(k) = 2 * k - 1
                                      /\ Episodic!Prefix(k) \in SUBSET Episodic!Messages
                                      /\ Episodic!Question(k) \in Episodic!Messages
    <2> TAKE k \in Episodic!Exchanges
    <2>1. /\ k \in Nat \ {0} /\ 2 * k - 1 \in Episodic!Messages
          /\ 1 .. 2 * k - 2 \subseteq Episodic!Messages
      BY <1>1, <1>4, <1>5
    <2>2. Episodic!Question(k) = 2 * k - 1
      BY DEF Episodic!Question
    <2>3. Episodic!Prefix(k) = 1 .. 2 * k - 2
      BY <2>1 DEF Episodic!Question, Episodic!Prefix
    <2> QED
      BY <2>1, <2>2, <2>3
  <1>7. EpisodicSettings.Evaluated \in SUBSET Episodic!Exchanges
    BY <1>5, EpisodicBounds DEF EpisodicBounds
  <1>8. \A c \in Episodic!Run : Candidate(c)
    <2>1. \A c \in Episodic!Run : c \in EpisodicSettings.Candidates \cup {EpisodicSettings.Frozen}
      BY DEF Episodic!Run
    <2> QED
      BY <2>1, EpisodicBounds DEF EpisodicBounds, Candidate
  <1> QED
    BY <1>1, <1>3, <1>5, <1>6, <1>7, <1>8

LEMMA LargestIs ==
    ASSUME NEW S \in SUBSET Int, S # {}, NEW b \in Int, \A n \in S : n <= b
    PROVE  Episodic!Max(S) \in S /\ \A n \in S : n <= Episodic!Max(S)
  <1>1. Episodic!Max(S) = Packing!Max(S)
    BY Zenon DEF Episodic!Max, Packing!Max
  <1> QED
    BY <1>1, Packing!GreatestIsThere

\* A chunk is not empty, but perhaps the last.
LEMMA EndIs ==
    ASSUME Separated, NEW m \in Episodic!Messages, NEW c, Candidate(c), NEW from \in Int
    PROVE  /\ Episodic!EndOf(m, from, c) \in Int
           /\ \/ Episodic!EndOf(m, from, c) > from
              \/ Episodic!EndOf(m, from, c) >= EpisodicSettings.Length[m]
  <1> DEFINE full == from + c.chars
             least == Episodic!Max({1, (c.chars * 3) \div 4})
             floor == from + least
             breaks == {b \in separators[m] : floor <= b /\ b < full}
  <1>1. Episodic!EndOf(m, from, c) =
           IF full >= EpisodicSettings.Length[m] THEN EpisodicSettings.Length[m]
           ELSE IF breaks = {} THEN full ELSE Episodic!Max(breaks)
    BY DEF Episodic!EndOf
  <1>2. full \in Int /\ full > from /\ EpisodicSettings.Length[m] \in Int
    BY TalkIs DEF Candidate
  <1>3. least \in Int /\ least >= 1
    <2> PICK n \in Int : n = (c.chars * 3) \div 4
      BY DEF Candidate
    <2>1. {1, n} \in SUBSET Int /\ {1, n} # {} /\ 1 \in {1, n}
      OBVIOUS
    <2>2. \E b \in Int : \A x \in {1, n} : x <= b
      <3>1. 1 <= n \/ n <= 1
        OBVIOUS
      <3> QED
        BY <3>1
    <2>3. Episodic!Max({1, n}) \in {1, n} /\ \A x \in {1, n} : x <= Episodic!Max({1, n})
      BY <2>1, <2>2, LargestIs
    <2> QED
      BY <2>3
  <1>4. breaks \in SUBSET Int /\ \A b \in breaks : b > from /\ b <= full
    <2>1. separators[m] \in SUBSET Int
      BY DEF Separated
    <2> HIDE DEF least
    <2> QED
      BY <1>2, <1>3, <2>1
  <1> HIDE DEF breaks, full
  <1>5. breaks # {} => Episodic!Max(breaks) \in breaks
    BY <1>2, <1>4, LargestIs
  <1>6. CASE full >= EpisodicSettings.Length[m]
    <2>1. Episodic!EndOf(m, from, c) = EpisodicSettings.Length[m]
      BY <1>1, <1>6
    <2> QED
      BY <1>2, <2>1
  <1>7. CASE ~(full >= EpisodicSettings.Length[m])
    <2>1. CASE breaks = {}
      <3>1. Episodic!EndOf(m, from, c) = full
        BY <1>1, <1>7, <2>1
      <3> QED
        BY <1>2, <3>1
    <2>2. CASE breaks # {}
      <3>1. Episodic!EndOf(m, from, c) = Episodic!Max(breaks)
        BY <1>1, <1>7, <2>2
      <3> QED
        BY <1>4, <1>5, <2>2, <3>1
    <2> QED
      BY <2>1, <2>2
  <1> QED
    BY <1>6, <1>7

\* The chunks of a message as far as the n-th, in terms of those as far as the one before.
First(m, c) == [from |-> 0, to |-> Episodic!EndOf(m, 0, c)]
StartAfter(f, c) == IF f.to - c.overlap > f.from THEN f.to - c.overlap ELSE f.to
Upto(g, n, m, c) ==
    IF n = 1 THEN <<First(m, c)>>
    ELSE IF \/ Len(g[n - 1]) < n - 1
            \/ Episodic!Last(g[n - 1]).to >= EpisodicSettings.Length[m]
         THEN g[n - 1]
         ELSE Append(g[n - 1],
                [from |-> StartAfter(Episodic!Last(g[n - 1]), c),
                 to |-> Episodic!EndOf(m, StartAfter(Episodic!Last(g[n - 1]), c), c)])
Cuts(g, most, m, c) == g = [n \in 1 .. most |-> Upto(g, n, m, c)]

LEMMA FragmentsAreCut ==
    ASSUME NEW m, NEW c
    PROVE  Episodic!Fragments(m, c)
             = (CHOOSE g : Cuts(g, EpisodicSettings.MaxChunks, m, c))[EpisodicSettings.MaxChunks]
  BY Zenon DEF Episodic!Fragments, Cuts, Upto, First, StartAfter

LEMMA FragmentsAreCutAfter ==
    ASSUME NEW m, NEW c
    PROVE  Episodic!Fragments(m, c)'
             = (CHOOSE g : Cuts(g, EpisodicSettings.MaxChunks, m, c)')[EpisodicSettings.MaxChunks]
  BY Zenon DEF Episodic!Fragments, Cuts, Upto, First, StartAfter

LEMMA CutsExist ==
    ASSUME NEW m, NEW c, NEW most \in Nat PROVE \E g : Cuts(g, most, m, c)
  <1> DEFINE S == {n \in Nat : \E g : Cuts(g, n, m, c)}
  <1>1. 0 \in S
    <2> DEFINE g == [n \in 1 .. 0 |-> 0]
    <2>1. \A n : n \notin 1 .. 0
      OBVIOUS
    <2>2. Cuts(g, 0, m, c)
      BY <2>1 DEF Cuts
    <2> QED
      BY <2>2
  <1>2. ASSUME NEW i \in Nat, i \in S PROVE i + 1 \in S
    <2> PICK g : Cuts(g, i, m, c)
      BY <1>2
    <2> DEFINE h == [n \in 1 .. i + 1 |-> Upto(g, n, m, c)]
    <2>1. \A n \in 1 .. i : h[n] = g[n]
      BY DEF Cuts
    <2>2. \A n \in 1 .. i + 1 : n # 1 => n - 1 \in 1 .. i
      OBVIOUS
    <2>3. \A n \in 1 .. i + 1 : h[n] = Upto(g, n, m, c)
      OBVIOUS
    <2>4. h = [n \in 1 .. i + 1 |-> h[n]]
      OBVIOUS
    <2> HIDE DEF h
    <2>5. \A n \in 1 .. i + 1 : Upto(h, n, m, c) = Upto(g, n, m, c)
      BY <2>1, <2>2 DEF Upto
    <2>6. Cuts(h, i + 1, m, c)
      BY <2>3, <2>4, <2>5 DEF Cuts
    <2> QED
      BY <2>6
  <1>3. most \in S
    <2> HIDE DEF S
    <2> QED
      BY <1>1, <1>2, Packing!Induction
  <1> QED
    BY <1>3

\* chunk_message: each chunk starts after the one before.
Advancing(s, m) ==
    /\ s \in Seq(Ranges) /\ s # <<>>
    /\ \A i, j \in 1 .. Len(s) : i < j => s[i].from < s[j].from
    /\ s[Len(s)].to > s[Len(s)].from \/ s[Len(s)].to >= EpisodicSettings.Length[m]

LEMMA FragmentsAdvance ==
    ASSUME Separated, NEW m \in Episodic!Messages, NEW c, Candidate(c)
    PROVE  Advancing(Episodic!Fragments(m, c), m)
  <1> PICK most \in Nat \ {0} : most = EpisodicSettings.MaxChunks
    BY EpisodicBounds DEF EpisodicBounds
  <1> PICK g : Cuts(g, most, m, c) /\ Episodic!Fragments(m, c) = g[most]
    BY CutsExist, FragmentsAreCut
  <1> DEFINE S == {i \in Nat : i + 1 <= most => Advancing(g[i + 1], m)}
  <1>1. \A n \in 1 .. most : g[n] = Upto(g, n, m, c)
    BY DEF Cuts
  <1>2. 0 \in S
    <2>1. g[1] = <<First(m, c)>>
      <3>1. 1 \in 1 .. most
        OBVIOUS
      <3> QED
        BY <1>1, <3>1 DEF Upto
    <2>2. First(m, c) \in Ranges
      BY EndIs DEF First, Ranges
    <2>3. /\ First(m, c).from = 0
          /\ First(m, c).to > 0 \/ First(m, c).to >= EpisodicSettings.Length[m]
      BY EndIs DEF First
    <2> PICK f \in Ranges : f = First(m, c)
      BY <2>2
    <2>4. Advancing(<<f>>, m)
      BY <2>3 DEF Advancing
    <2> QED
      BY <2>1, <2>4
  <1>3. ASSUME NEW i \in Nat, i \in S PROVE i + 1 \in S
    <2> SUFFICES ASSUME i + 2 <= most PROVE Advancing(g[i + 2], m)
      OBVIOUS
    <2>1. i + 1 \in 1 .. most /\ i + 2 \in 1 .. most /\ i + 2 # 1 /\ (i + 2) - 1 = i + 1
      OBVIOUS
    <2>2. Advancing(g[i + 1], m)
      BY <1>3, <2>1
    <2> PICK s \in Seq(Ranges) : s = g[i + 1]
      BY <2>2 DEF Advancing
    <2> PICK f \in Ranges : f = s[Len(s)] /\ f = Episodic!Last(s)
      BY <2>2 DEF Advancing, Episodic!Last
    <2> PICK r : r = [from |-> StartAfter(f, c), to |-> Episodic!EndOf(m, StartAfter(f, c), c)]
      OBVIOUS
    <2>3. g[i + 2] = IF Len(s) < i + 1 \/ f.to >= EpisodicSettings.Length[m]
                     THEN s ELSE Append(s, r)
      BY <1>1, <2>1 DEF Upto
    <2>4. CASE Len(s) < i + 1 \/ f.to >= EpisodicSettings.Length[m]
      BY <2>2, <2>3, <2>4
    <2>5. CASE ~(Len(s) < i + 1 \/ f.to >= EpisodicSettings.Length[m])
      <3>1. f.to \in Int /\ f.from \in Int /\ c.overlap \in Int
        BY DEF Ranges, Candidate
      <3>2. f.to > f.from
        BY <2>2, <2>5 DEF Advancing
      <3>3. StartAfter(f, c) \in Int /\ StartAfter(f, c) > f.from
        BY <3>1, <3>2 DEF StartAfter
      <3>4. /\ r.from = StartAfter(f, c) /\ r \in Ranges
            /\ r.to > r.from \/ r.to >= EpisodicSettings.Length[m]
        BY <3>3, EndIs DEF Ranges
      <3> HIDE DEF Ranges
      <3>11. r \in Ranges
        BY <3>4
      <3> PICK t : t = Append(s, r)
        OBVIOUS
      <3>12. t \in Seq(Ranges)
        BY <3>11
      <3>13. /\ Len(t) = Len(s) + 1 /\ t[Len(s) + 1] = r
             /\ \A j \in 1 .. Len(s) : t[j] = s[j] /\ s[j] \in Ranges
        BY <3>11
      <3>14. \A x \in Ranges : x.from \in Int
        BY DEF Ranges
      <3>5. /\ Len(t) = Len(s) + 1 /\ t[Len(s) + 1] = r
            /\ \A j \in 1 .. Len(s) : t[j] = s[j] /\ s[j].from \in Int
        BY <3>13, <3>14
      <3>6. Len(s) \in Nat /\ Len(s) # 0
        BY <2>2 DEF Advancing
      <3>7. \A j \in 1 .. Len(s) : s[j].from <= f.from
        <4>1. \A j, k \in 1 .. Len(s) : j < k => s[j].from < s[k].from
          BY <2>2 DEF Advancing
        <4>2. Len(s) \in 1 .. Len(s) /\ s[Len(s)] = f
          BY <3>6
        <4>3. \A j \in 1 .. Len(s) : j < Len(s) \/ j = Len(s)
          BY <3>6
        <4> TAKE j \in 1 .. Len(s)
        <4>4. CASE j = Len(s)
          <5>1. s[j] = f
            BY <4>2, <4>4
          <5>2. f.from <= f.from
            BY <3>1
          <5> QED
            BY <5>1, <5>2
        <4>5. CASE j < Len(s)
          <5>1. s[j].from < f.from /\ s[j].from \in Int
            BY <3>5, <4>1, <4>2, <4>5
          <5> QED
            BY <3>1, <5>1
        <4> QED
          BY <4>3, <4>4, <4>5
      <3>8. \A j, k \in 1 .. Len(t) : j < k => t[j].from < t[k].from
        <4> SUFFICES ASSUME NEW j \in 1 .. Len(t), NEW k \in 1 .. Len(t), j < k
                     PROVE  t[j].from < t[k].from
          OBVIOUS
        <4>1. j \in 1 .. Len(s) /\ t[j] = s[j] /\ s[j].from \in Int
          BY <3>5, <3>6
        <4>2. CASE k = Len(s) + 1
          BY <3>1, <3>3, <3>4, <3>5, <3>7, <4>1, <4>2
        <4>3. CASE k # Len(s) + 1
          <5>1. k \in 1 .. Len(s)
            BY <3>5, <3>6, <4>3
          <5> QED
            BY <2>2, <3>5, <4>1, <5>1 DEF Advancing
        <4> QED
          BY <4>2, <4>3
      <3>9. t # <<>> /\ t[Len(t)] = r
        BY <3>5, <3>6
      <3>10. Advancing(t, m)
        BY <3>4, <3>8, <3>9 DEF Advancing
      <3> QED
        BY <2>3, <2>5, <3>10
    <2> QED
      BY <2>4, <2>5
  <1>4. most - 1 \in S
    <2> HIDE DEF S
    <2> QED
      BY <1>2, <1>3, Packing!Induction
  <1> QED
    BY <1>4

----------------------------------------------------------------------------
(* compose_context: what a context costs.                                   *)

\* The lines of a memory, and the tokens of messages.
Lines == INSTANCE Folding WITH
    Op <- LAMBDA n, x : n + Episodic!LineOf(x), Base <- 0,
    Weight <- LAMBDA m : EpisodicSettings.Length[m]

Selecting == INSTANCE Folding WITH
    Op <- LAMBDA kept, x :
            IF \/ Len(kept) >= EpisodicSettings.TopK
               \/ Episodic!Cardinality({i \in DOMAIN kept : kept[i].message = x.message})
                    >= EpisodicSettings.MaxPerSource
            THEN kept ELSE Append(kept, x),
    Base <- <<>>, Weight <- LAMBDA m : m

Recording == INSTANCE Folding WITH
    Op <- LAMBDA taken, x :
            IF taken.used + Episodic!LineOf(x) > EpisodicSettings.EpisodicTokens THEN taken
            ELSE [kept |-> Append(taken.kept, x), used |-> taken.used + Episodic!LineOf(x)],
    Base <- [kept |-> <<>>, used |-> 0], Weight <- LAMBDA m : m

LEMMA TalkIsSum == ASSUME NEW S PROVE Episodic!TokensOf(S) = Lines!Sum(S)
  BY Zenon DEF Lines!Sum, Lines!MapThenSumSet, Lines!MapThenFoldSet,
     Episodic!TokensOf, Episodic!MapThenSumSet, Episodic!MapThenFoldSet

LEMMA TalkIsInt == ASSUME NEW S \in SUBSET Episodic!Messages PROVE Episodic!TokensOf(S) \in Int
  <1>1. \A m \in S : EpisodicSettings.Length[m] \in Int
    BY TalkIs
  <1>2. IsFiniteSet(S) /\ (Lines!IsFiniteSet(S) <=> IsFiniteSet(S))
    BY TalkIs DEF Lines!IsFiniteSet, IsFiniteSet
  <1> QED
    BY <1>1, <1>2, TalkIsSum, Lines!SumIsInt

\* fit_latest_messages: within the budget.
LEMMA LatestFit ==
    ASSUME NEW S \in SUBSET Episodic!Messages, NEW budget \in Nat, NEW most
    PROVE  /\ Episodic!TokensOf(Episodic!LatestThatFit(S, budget, most)) \in Int
           /\ Episodic!TokensOf(Episodic!LatestThatFit(S, budget, most)) <= budget
  <1> DEFINE suffix(k) == {m \in S : m >= k}
             fitting == {k \in S : /\ Episodic!TokensOf(suffix(k)) <= budget
                                   /\ Episodic!Cardinality(suffix(k)) <= most}
  <1>1. Episodic!LatestThatFit(S, budget, most) =
           IF fitting = {} THEN {} ELSE suffix(Episodic!Min(fitting))
    BY DEF Episodic!LatestThatFit
  <1>2. CASE fitting = {}
    <2>1. Episodic!TokensOf({}) = 0
      BY TalkIsSum, Lines!SumEmpty
    <2> QED
      BY <1>1, <1>2, <2>1
  <1>3. CASE fitting # {}
    <2>0. fitting \in SUBSET S
      OBVIOUS
    <2> HIDE DEF fitting
    <2>1. fitting \in SUBSET Int /\ \A k \in fitting : 1 <= k
      <3>1. \A m \in 1 .. Len(EpisodicSettings.Length) : m \in Int /\ 1 <= m
        OBVIOUS
      <3>2. \A m \in S : m \in 1 .. Len(EpisodicSettings.Length)
        BY TalkIs
      <3> QED
        BY <2>0, <3>1, <3>2
    <2>2. Episodic!Min(fitting) = Packing!Min(fitting)
      BY Zenon DEF Episodic!Min, Packing!Min
    <2>3. Episodic!Min(fitting) \in fitting
      BY <1>3, <2>1, <2>2, Packing!LeastIsThere
    <2> PICK k \in fitting : k = Episodic!Min(fitting)
      BY <2>3
    <2>4. Episodic!LatestThatFit(S, budget, most) = suffix(k)
      BY <1>1, <1>3
    <2>5. suffix(k) \in SUBSET Episodic!Messages /\ Episodic!TokensOf(suffix(k)) <= budget
      BY DEF fitting
    <2> QED
      BY <2>4, <2>5, TalkIsInt
  <1> QED
    BY <1>2, <1>3

\* The chunks of a message differ in where they start.
LEMMA ChunksAre ==
    ASSUME Separated, Candidate(chosen), NEW k \in Episodic!Exchanges
    PROVE  /\ \A x \in Episodic!Chunks(k) :
                 /\ x.message \in Int /\ x.range \in Ranges /\ Episodic!LineOf(x) \in Int
                 /\ x = [message |-> x.message, range |-> x.range]
           /\ \A x, y \in Episodic!Chunks(k) :
                 x # y => x.message # y.message \/ x.range.from # y.range.from
  <1>1. \A x \in Episodic!Chunks(k) : \E m \in Episodic!Messages :
           \E i \in 1 .. Len(Episodic!Fragments(m, chosen)) :
              x = [message |-> m, range |-> Episodic!Fragments(m, chosen)[i]]
    <2> SUFFICES ASSUME NEW x \in Episodic!Chunks(k)
                 PROVE  \E m \in Episodic!Messages :
                           \E i \in 1 .. Len(Episodic!Fragments(m, chosen)) :
                              x = [message |-> m, range |-> Episodic!Fragments(m, chosen)[i]]
      OBVIOUS
    <2>1. PICK m \in Episodic!Prefix(k) :
             \E f \in Episodic!ToSet(Episodic!Fragments(m, chosen)) :
                x = [message |-> m, range |-> f]
      BY DEF Episodic!Chunks
    <2>2. m \in Episodic!Messages
      BY TalkIs
    <2>3. Episodic!Fragments(m, chosen) \in Seq(Ranges)
      BY <2>2, FragmentsAdvance DEF Advancing
    <2>4. Episodic!ToSet(Episodic!Fragments(m, chosen))
            = {Episodic!Fragments(m, chosen)[i] : i \in 1 .. Len(Episodic!Fragments(m, chosen))}
      BY <2>3 DEF Episodic!ToSet
    <2> QED
      BY <2>1, <2>2, <2>4
  <1>2. \A m \in Episodic!Messages : Advancing(Episodic!Fragments(m, chosen), m) /\ m \in Int
    BY FragmentsAdvance, TalkIs
  <1>3. \A x \in Episodic!Chunks(k) :
           /\ x.message \in Int /\ x.range \in Ranges
           /\ x = [message |-> x.message, range |-> x.range]
    <2> HIDE DEF Ranges
    <2> QED
      BY <1>1, <1>2 DEF Advancing
  <1>4. \A x \in Episodic!Chunks(k) : Episodic!LineOf(x) \in Int
    <2>1. EpisodicSettings.LineCost \in Int
      BY EpisodicBounds DEF EpisodicBounds
    <2> QED
      BY <1>3, <2>1 DEF Episodic!LineOf, Ranges
  <1>5. ASSUME NEW x \in Episodic!Chunks(k), NEW y \in Episodic!Chunks(k), x # y,
               x.message = y.message
        PROVE  x.range.from # y.range.from
    <2> PICK m \in Episodic!Messages :
           \E i \in 1 .. Len(Episodic!Fragments(m, chosen)) :
              x = [message |-> m, range |-> Episodic!Fragments(m, chosen)[i]]
      BY <1>1
    <2> PICK i \in 1 .. Len(Episodic!Fragments(m, chosen)) :
           x = [message |-> m, range |-> Episodic!Fragments(m, chosen)[i]]
      OBVIOUS
    <2>1. \E j \in 1 .. Len(Episodic!Fragments(m, chosen)) :
             y = [message |-> m, range |-> Episodic!Fragments(m, chosen)[j]]
      BY <1>1, <1>5
    <2> PICK j \in 1 .. Len(Episodic!Fragments(m, chosen)) :
           y = [message |-> m, range |-> Episodic!Fragments(m, chosen)[j]]
      BY <2>1
    <2> PICK s \in Seq(Ranges) : s = Episodic!Fragments(m, chosen)
      BY <1>2 DEF Advancing
    <2>2. i # j
      BY <1>5
    <2>3. \A a, b \in 1 .. Len(s) : a < b => s[a].from < s[b].from
      BY <1>2 DEF Advancing
    <2>4. s[i].from \in Int /\ s[j].from \in Int
      <3>1. s[i] \in Ranges /\ s[j] \in Ranges
        OBVIOUS
      <3> QED
        BY <3>1 DEF Ranges
    <2>5. s[i].from # s[j].from
      BY <2>2, <2>3, <2>4
    <2> QED
      BY <2>5
  <1> QED
    BY <1>3, <1>4, <1>5

\* chronological_results: they have an order.
LEMMA ChronologicalIs ==
    ASSUME Separated, Candidate(chosen), NEW k \in Episodic!Exchanges,
           NEW S \in SUBSET Episodic!Chunks(k), IsFiniteSet(S)
    PROVE  Episodic!Chronological(S) \in Seq(S)
  <1> DEFINE R == {p \in S \X S : Episodic!Earlier(p[1], p[2])}
  <1>1. \A x, y \in S : <<x, y>> \in R <=> Episodic!Earlier(x, y)
    OBVIOUS
  <1> HIDE DEF R
  <1>2. /\ \A x \in S : x.message \in Int /\ x.range.from \in Int
        /\ \A x, y \in S : x # y => x.message # y.message \/ x.range.from # y.range.from
    BY ChunksAre DEF Ranges
  <1>3. StrictOrder(S, R)
    <2>1. \A x, y \in S : x # y => Episodic!Earlier(x, y) \/ Episodic!Earlier(y, x)
      BY <1>2 DEF Episodic!Earlier
    <2>2. \A x \in S : ~Episodic!Earlier(x, x)
      BY <1>2 DEF Episodic!Earlier
    <2>3. \A x, y, z \in S :
             Episodic!Earlier(x, y) /\ Episodic!Earlier(y, z) => Episodic!Earlier(x, z)
      BY <1>2 DEF Episodic!Earlier
    <2> QED
      BY <1>1, <2>1, <2>2, <2>3 DEF StrictOrder
  <1>4. Episodic!SetToSeqs(S) = Memory!SetToSeqs(S)
    BY Zenon DEF Episodic!SetToSeqs, Memory!SetToSeqs, Episodic!Cardinality, Memory!Cardinality
  <1> PICK s : s = CHOOSE t \in Memory!SetToSeqs(S) :
                      \A i, j \in DOMAIN t : i < j => Episodic!Earlier(t[i], t[j])
    OBVIOUS
  <1>5. s = CHOOSE t \in Memory!SetToSeqs(S) : \A i, j \in DOMAIN t : i < j => <<t[i], t[j]>> \in R
    <2>1. \A t \in Memory!SetToSeqs(S) : \A i \in DOMAIN t : t[i] \in S
      BY DEF Memory!SetToSeqs
    <2>2. \A t \in Memory!SetToSeqs(S) :
             (\A i, j \in DOMAIN t : i < j => Episodic!Earlier(t[i], t[j]))
               <=> (\A i, j \in DOMAIN t : i < j => <<t[i], t[j]>> \in R)
      BY <1>1, <2>1
    <2> QED
      BY <2>2
  <1>6. s \in Seq(S)
    BY <1>3, <1>5, OrderIsThere
  <1>7. Episodic!Chronological(S) = s
    BY <1>4 DEF Episodic!Chronological
  <1> QED
    BY <1>6, <1>7

\* search: a ranking is of the chunks of the prefix, and so is what is selected of it.
LEMMA RankingsAreChunks ==
    ASSUME NEW k, NEW s \in Episodic!Rankings(k)
    PROVE  s \in Seq(Episodic!Chunks(k))
  <1> DEFINE eligible ==
               {x \in Episodic!Chunks(k) : x.message \notin Episodic!Active(k, chosen.window)}
  <1>1. CASE Episodic!MemoryQuery(variant, k, chosen.window) = <<>>
    BY <1>1 DEF Episodic!Rankings
  <1>2. CASE Episodic!MemoryQuery(variant, k, chosen.window) # <<>>
    <2>1. s \in UNION {Episodic!SetToSeqs(S) :
                         S \in UNION {Episodic!kSubset(n, eligible) :
                                        n \in 0 .. EpisodicSettings.MaxRanked}}
      BY <1>2 DEF Episodic!Rankings
    <2>2. PICK n \in 0 .. EpisodicSettings.MaxRanked :
             \E S \in Episodic!kSubset(n, eligible) : s \in Episodic!SetToSeqs(S)
      BY <2>1
    <2>3. PICK S \in SUBSET eligible : Episodic!Cardinality(S) = n /\ s \in Episodic!SetToSeqs(S)
      BY <2>2 DEF Episodic!kSubset
    <2>4. s \in [1 .. n -> S]
      BY <2>3 DEF Episodic!SetToSeqs
    <2>5. S \in SUBSET Episodic!Chunks(k) /\ n \in Nat
      <3>1. \A i \in 0 .. EpisodicSettings.MaxRanked : i \in Nat
        OBVIOUS
      <3> QED
        BY <3>1
    <2> HIDE DEF eligible
    <2> QED
      BY <2>4, <2>5
  <1> QED
    BY <1>1, <1>2

LEMMA SelectedAreRanked ==
    ASSUME NEW X, NEW s \in Seq(X)
    PROVE  /\ Episodic!ToSet(Episodic!Selected(s)) \in SUBSET X
           /\ IsFiniteSet(Episodic!ToSet(Episodic!Selected(s)))
  <1>1. Episodic!Selected(s) = Selecting!Fold(s)
    BY Zenon DEF Selecting!Fold, Selecting!FoldLeft, Selecting!MapThenFoldSet, Selecting!Max,
       Episodic!Selected, Episodic!FoldLeft, Episodic!MapThenFoldSet, Episodic!Max
  <1>2. <<>> \in Seq(X)
    OBVIOUS
  <1>3. \A kept \in Seq(X), x \in X :
           (IF \/ Len(kept) >= EpisodicSettings.TopK
               \/ Episodic!Cardinality({i \in DOMAIN kept : kept[i].message = x.message})
                    >= EpisodicSettings.MaxPerSource
            THEN kept ELSE Append(kept, x)) \in Seq(X)
    OBVIOUS
  <1>4. Selecting!Fold(s) \in Seq(X)
    BY <1>2, <1>3, Selecting!FoldWithin
  <1>5. Episodic!ToSet(Episodic!Selected(s)) = Memory!ToSet(Episodic!Selected(s))
    BY Zenon DEF Episodic!ToSet, Memory!ToSet
  <1> QED
    BY <1>1, <1>4, <1>5, ElementsAreFinite

\* FittingMemory: what the records cost with their header.
LEMMA RecordsFit ==
    ASSUME NEW X, \A x \in X : Episodic!LineOf(x) \in Int, NEW s \in Seq(X)
    PROVE  /\ Episodic!MemoryCost(Episodic!FittingMemory(s)) \in Int
           /\ Episodic!MemoryCost(Episodic!FittingMemory(s))
                <= EpisodicSettings.HeaderCost + EpisodicSettings.EpisodicTokens
  <1> DEFINE T == {t \in [kept : Seq(X), used : Int] :
                     t.used <= EpisodicSettings.EpisodicTokens /\ t.used = Lines!Fold(t.kept)}
             Next(taken, x) ==
               IF taken.used + Episodic!LineOf(x) > EpisodicSettings.EpisodicTokens THEN taken
               ELSE [kept |-> Append(taken.kept, x), used |-> taken.used + Episodic!LineOf(x)]
  <1>1. Episodic!FittingMemory(s) = Recording!Fold(s).kept
    BY Zenon DEF Recording!Fold, Recording!FoldLeft, Recording!MapThenFoldSet, Recording!Max,
       Episodic!FittingMemory, Episodic!FoldLeft, Episodic!MapThenFoldSet, Episodic!Max
  <1>2. EpisodicSettings.EpisodicTokens \in Nat /\ EpisodicSettings.HeaderCost \in Nat
    BY EpisodicBounds DEF EpisodicBounds
  <1>3. [kept |-> <<>>, used |-> 0] \in T
    BY <1>2, Lines!FoldEmpty
  <1>4. ASSUME NEW taken \in T, NEW x \in X PROVE Next(taken, x) \in T
    <2>1. /\ taken.kept \in Seq(X) /\ taken.used \in Int
          /\ taken.used <= EpisodicSettings.EpisodicTokens
          /\ taken.used = Lines!Fold(taken.kept) /\ Episodic!LineOf(x) \in Int
      OBVIOUS
    <2>2. CASE taken.used + Episodic!LineOf(x) > EpisodicSettings.EpisodicTokens
      BY <2>2
    <2>3. CASE ~(taken.used + Episodic!LineOf(x) > EpisodicSettings.EpisodicTokens)
      <3>1. Lines!Fold(Append(taken.kept, x)) = Lines!Fold(taken.kept) + Episodic!LineOf(x)
        BY <2>1, Lines!FoldAppend
      <3>2. Append(taken.kept, x) \in Seq(X) /\ taken.used + Episodic!LineOf(x) \in Int
        BY <2>1
      <3>3. taken.used + Episodic!LineOf(x) <= EpisodicSettings.EpisodicTokens
        BY <1>2, <2>1, <2>3
      <3> QED
        BY <2>1, <2>3, <3>1, <3>2, <3>3
    <2> QED
      BY <2>2, <2>3
  <1>5. Recording!Fold(s) \in T
    <2> HIDE DEF T
    <2> QED
      BY <1>3, <1>4, Recording!FoldWithin
  <1> PICK r : r = Episodic!FittingMemory(s)
    OBVIOUS
  <1>6. Lines!Fold(r) \in Int /\ Lines!Fold(r) <= EpisodicSettings.EpisodicTokens
    BY <1>1, <1>5
  <1>7. Episodic!MemoryCost(r) =
           IF r = <<>> THEN 0 ELSE EpisodicSettings.HeaderCost + Lines!Fold(r)
    BY Zenon DEF Lines!Fold, Lines!FoldLeft, Lines!MapThenFoldSet, Lines!Max,
       Episodic!MemoryCost, Episodic!FoldLeft, Episodic!MapThenFoldSet, Episodic!Max
  <1> QED
    BY <1>2, <1>6, <1>7

\* Some of the messages have no more tokens than all.
LEMMA PartOfTheTalk ==
    ASSUME NEW S \in SUBSET Episodic!Messages, NEW T \in SUBSET S
    PROVE  Episodic!TokensOf(T) <= Episodic!TokensOf(S)
  <1>1. \A m \in S : EpisodicSettings.Length[m] \in Nat
    BY TalkIs
  <1>2. IsFiniteSet(S) /\ (Lines!IsFiniteSet(S) <=> IsFiniteSet(S))
    BY TalkIs DEF Lines!IsFiniteSet, IsFiniteSet
  <1> QED
    BY <1>1, <1>2, TalkIsSum, Lines!SumGrows

\* fit_latest_messages: of the messages it is given.
LEMMA LatestIsPart ==
    ASSUME NEW S, NEW budget, NEW most
    PROVE  Episodic!LatestThatFit(S, budget, most) \in SUBSET S
  BY DEF Episodic!LatestThatFit

\* No memory, or a memory with the recent messages only; and the messages are of those before.
LEMMA BudgetsAddUp ==
    ASSUME NEW k \in Episodic!Exchanges, NEW recalled \in Int, NEW shown \in Int,
           \/ recalled = 0 /\ shown <= EpisodicSettings.ConversationTokens
           \/ /\ recalled <= EpisodicSettings.HeaderCost + EpisodicSettings.EpisodicTokens
              /\ shown <= EpisodicSettings.ActiveTokens,
           shown <= Episodic!TokensOf(Episodic!Prefix(k))
    PROVE  EpisodicSettings.SystemCost + recalled + shown
             + EpisodicSettings.Length[Episodic!Question(k)] + EpisodicSettings.Reserve
             <= EpisodicSettings.Total
  <1> PICK asked \in Nat : asked = EpisodicSettings.Length[Episodic!Question(k)]
    BY TalkIs
  <1> PICK said \in Int : said = Episodic!TokensOf(Episodic!Prefix(k))
    BY TalkIs, TalkIsInt
  <1> PICK system \in Nat, header \in Nat, memory \in Nat, recent \in Nat, talk \in Nat,
           reserve \in Nat, total \in Nat :
        /\ system = EpisodicSettings.SystemCost /\ header = EpisodicSettings.HeaderCost
        /\ memory = EpisodicSettings.EpisodicTokens /\ recent = EpisodicSettings.ActiveTokens
        /\ talk = EpisodicSettings.ConversationTokens /\ reserve = EpisodicSettings.Reserve
        /\ total = EpisodicSettings.Total
    BY EpisodicBounds DEF EpisodicBounds
  <1>1. recent + memory <= talk
    BY EpisodicBounds DEF EpisodicBounds
  <1>2. \/ system + header + asked + reserve + talk <= total
        \/ system + header + asked + reserve + memory + said <= total
    BY QuestionsFit DEF QuestionsFit
  <1> QED
    BY <1>1, <1>2

\* No context of an exchange is too large, whichever arm and ranking.
LEMMA EveryArmFits ==
    ASSUME Separated, Candidate(chosen), NEW k \in Episodic!Exchanges,
           NEW ranked \in Seq(Episodic!Chunks(k))
    PROVE  Episodic!Fits(k, ranked)
  <1> SUFFICES ASSUME NEW arm
               PROVE  Episodic!compose_context(arm, k, ranked).tokens + EpisodicSettings.Reserve
                        <= EpisodicSettings.Total
    BY DEF Episodic!Fits
  <1> PICK c : c = Episodic!compose_context(arm, k, ranked)
    OBVIOUS
  <1>1. c.tokens = EpisodicSettings.SystemCost + Episodic!MemoryCost(c.records)
                     + Episodic!TokensOf(c.active) + EpisodicSettings.Length[Episodic!Question(k)]
    BY DEF Episodic!compose_context
  <1>2. /\ Episodic!Prefix(k) \in SUBSET Episodic!Messages
        /\ EpisodicSettings.Length[Episodic!Question(k)] \in Nat
        /\ Episodic!Question(k) = 2 * k - 1
    BY TalkIs
  <1>3. EpisodicSettings.ActiveTokens \in Nat /\ EpisodicSettings.ConversationTokens \in Nat
    BY EpisodicBounds DEF EpisodicBounds
  <1>4. CASE arm \in {"A", "B", "C"}
    <2>1. Episodic!MemoryCost(c.records) = 0
      BY <1>4 DEF Episodic!compose_context, Episodic!MemoryCost
    <2>2. c.active = {} \/ \E n : c.active =
             Episodic!LatestThatFit(Episodic!Prefix(k), EpisodicSettings.ConversationTokens, n)
      BY <1>4 DEF Episodic!compose_context
    <2>3. /\ Episodic!TokensOf(c.active) \in Int
          /\ Episodic!TokensOf(c.active) <= EpisodicSettings.ConversationTokens
      <3>1. CASE c.active = {}
        <4>1. Episodic!TokensOf({}) = 0
          BY TalkIsSum, Lines!SumEmpty
        <4> QED
          BY <1>3, <3>1, <4>1
      <3>2. CASE c.active # {}
        <4> PICK n : c.active =
               Episodic!LatestThatFit(Episodic!Prefix(k), EpisodicSettings.ConversationTokens, n)
          BY <2>2, <3>2
        <4> PICK S \in SUBSET Episodic!Messages, b \in Nat :
               S = Episodic!Prefix(k) /\ b = EpisodicSettings.ConversationTokens
          BY <1>2, <1>3
        <4>1. c.active = Episodic!LatestThatFit(S, b, n)
          OBVIOUS
        <4>2. /\ Episodic!TokensOf(Episodic!LatestThatFit(S, b, n)) \in Int
              /\ Episodic!TokensOf(Episodic!LatestThatFit(S, b, n)) <= b
          BY LatestFit
        <4> QED
          BY <4>1, <4>2
      <3> QED
        BY <3>1, <3>2
    <2>4. Episodic!TokensOf(c.active) <= Episodic!TokensOf(Episodic!Prefix(k))
      <3>1. c.active \in SUBSET Episodic!Prefix(k)
        BY <2>2, LatestIsPart
      <3> QED
        BY <1>2, <3>1, PartOfTheTalk
    <2> QED
      BY <1>1, <2>1, <2>3, <2>4, BudgetsAddUp
  <1>5. CASE arm \notin {"A", "B", "C"}
    <2> DEFINE S == {x \in Episodic!ToSet(Episodic!Selected(ranked)) : x.message \notin c.active}
    <2>1. /\ c.active = Episodic!LatestThatFit(Episodic!Prefix(k), EpisodicSettings.ActiveTokens,
                           chosen.window)
          /\ c.records = Episodic!FittingMemory(Episodic!Chronological(S))
      BY <1>5 DEF Episodic!compose_context, Episodic!Active
    <2>2. /\ Episodic!TokensOf(c.active) \in Int
          /\ Episodic!TokensOf(c.active) <= EpisodicSettings.ActiveTokens
      BY <1>2, <1>3, <2>1, LatestFit
    <2>3. S \in SUBSET Episodic!Chunks(k) /\ IsFiniteSet(S)
      <3>1. /\ Episodic!ToSet(Episodic!Selected(ranked)) \in SUBSET Episodic!Chunks(k)
            /\ IsFiniteSet(Episodic!ToSet(Episodic!Selected(ranked)))
        BY SelectedAreRanked
      <3>2. S \in SUBSET Episodic!ToSet(Episodic!Selected(ranked))
        OBVIOUS
      <3> HIDE DEF S
      <3> QED
        BY <3>1, <3>2, FS_Subset
    <2> HIDE DEF S
    <2>4. Episodic!Chronological(S) \in Seq(S)
      BY <2>3, ChronologicalIs
    <2>5. \A x \in S : Episodic!LineOf(x) \in Int
      BY <2>3, ChunksAre
    <2>6. /\ Episodic!MemoryCost(c.records) \in Int
          /\ Episodic!MemoryCost(c.records)
               <= EpisodicSettings.HeaderCost + EpisodicSettings.EpisodicTokens
      BY <2>1, <2>4, <2>5, RecordsFit
    <2>7. Episodic!TokensOf(c.active) <= Episodic!TokensOf(Episodic!Prefix(k))
      <3>1. c.active \in SUBSET Episodic!Prefix(k)
        BY <2>1, LatestIsPart
      <3> QED
        BY <1>2, <3>1, PartOfTheTalk
    <2> QED
      BY <1>1, <2>2, <2>6, <2>7, BudgetsAddUp
  <1> QED
    BY <1>4, <1>5

----------------------------------------------------------------------------
(* The stages.                                                              *)

\* What was embedded is all that is looked up later, the chosen candidate is one of those it was
\* embedded for, and a ranking that was asked for is of its exchange.
EpisodicInv ==
    /\ Separated /\ variant \in EpisodicSettings.Variants
    /\ DOMAIN ranking = Episodic!Exchanges
    /\ step \in {"collect", "calibrate"} => \A k \in Episodic!Exchanges : ranking[k] = {}
    /\ step \in {"calibrate", "generate", "ledger"} => embedded = Episodic!Collected
    /\ step \in {"generate", "ledger"} =>
          /\ chosen \in Episodic!Run
          /\ \A k \in Episodic!Exchanges : \A r \in ranking[k] : r \in Seq(Episodic!Chunks(k))
    /\ \E T : costs.memory \in Seq(T)
    /\ Episodic!NothingFailsLate

\* The conversation, the arm and the split stay as they are.
LEMMA TalkStays ==
    ASSUME separators' = separators, split' = split
    PROVE  /\ (Separated' <=> Separated) /\ Episodic!Run' = Episodic!Run
           /\ \A m, c : Episodic!Fragments(m, c)' = Episodic!Fragments(m, c)
           /\ Episodic!Collected' = Episodic!Collected
           /\ chosen' = chosen => \A k : Episodic!Chunks(k)' = Episodic!Chunks(k)
  <1>1. \A m, from, c : Episodic!EndOf(m, from, c)' = Episodic!EndOf(m, from, c)
    BY DEF Episodic!EndOf
  <1>2. \A m, c : Episodic!Fragments(m, c)' = Episodic!Fragments(m, c)
    <2> TAKE m, c
    <2>1. \A g, n : Upto(g, n, m, c)' = Upto(g, n, m, c)
      BY <1>1 DEF Upto, First
    <2>2. \A g, n : Cuts(g, n, m, c)' <=> Cuts(g, n, m, c)
      BY <2>1 DEF Cuts
    <2> QED
      BY <2>2, FragmentsAreCut, FragmentsAreCutAfter
  <1>3. Episodic!Run' = Episodic!Run
    BY DEF Episodic!Run
  <1>4. \A messages, c : Episodic!ChunkTexts(messages, c)' = Episodic!ChunkTexts(messages, c)
    BY <1>2 DEF Episodic!ChunkTexts
  <1>5. Episodic!Collected' = Episodic!Collected
    BY <1>3, <1>4 DEF Episodic!Collected
  <1>6. chosen' = chosen => \A k : Episodic!Chunks(k)' = Episodic!Chunks(k)
    BY <1>2 DEF Episodic!Chunks
  <1> QED
    BY <1>2, <1>3, <1>5, <1>6 DEF Separated

\* collect_embedding_texts: whatever a stage needs of a candidate of the run was embedded.
LEMMA NeededIsCollected ==
    ASSUME EpisodicInv, NEW c \in Episodic!Run, NEW k \in Episodic!Exchanges
    PROVE  Episodic!Needed(c, k) \subseteq Episodic!Collected
  <1>1. Episodic!ChunkTexts(Episodic!Prefix(k), c)
          \subseteq Episodic!ChunkTexts(Episodic!Messages, c)
    <2>1. Episodic!Prefix(k) \subseteq Episodic!Messages
      BY TalkIs
    <2> QED
      BY <2>1, Zenon DEF Episodic!ChunkTexts
  <1>2. Episodic!ChunkTexts(Episodic!Messages, c) \subseteq Episodic!Collected
    BY DEF Episodic!Collected
  <1>3. Episodic!QueryTexts(variant, k, c.window) \subseteq Episodic!Collected
    <2>1. c.window \in Episodic!WindowsOf(Episodic!Run)
      BY DEF Episodic!WindowsOf
    <2>2. variant \in EpisodicSettings.Variants
      BY DEF EpisodicInv
    <2> SUFFICES ASSUME NEW t \in Episodic!QueryTexts(variant, k, c.window)
                 PROVE  t \in Episodic!Collected
      OBVIOUS
    <2>3. \E v \in EpisodicSettings.Variants, j \in Episodic!Exchanges,
             w \in Episodic!WindowsOf(Episodic!Run) : t \in Episodic!QueryTexts(v, j, w)
      BY <2>1, <2>2
    <2>4. t \in UNION {Episodic!QueryTexts(v, j, w) : v \in EpisodicSettings.Variants,
                         j \in Episodic!Exchanges, w \in Episodic!WindowsOf(Episodic!Run)}
      BY <2>3
    <2> QED
      BY <2>4 DEF Episodic!Collected
  <1> QED
    BY <1>1, <1>2, <1>3 DEF Episodic!Needed

LEMMA EpisodesBegin == ASSUME Episodic!Init PROVE EpisodicInv
  <1>1. /\ variant \in EpisodicSettings.Variants /\ step = "collect"
        /\ ranking = [k \in Episodic!Exchanges |-> {}]
        /\ costs = [memory |-> <<>>, history |-> <<>>] /\ refusal = "none"
    BY DEF Episodic!Init
  <1>2. Separated
    <2> PICK s : separators =
               [m \in Episodic!Messages |-> s \cap 1 .. EpisodicSettings.Length[m] - 1]
      BY DEF Episodic!Init
    <2> QED
      BY DEF Separated
  <1>3. costs.memory \in Seq({})
    BY <1>1
  <1> QED
    BY <1>1, <1>2, <1>3 DEF EpisodicInv, Episodic!NothingFailsLate

LEMMA EmbedKeeps == ASSUME EpisodicInv, Episodic!Embed PROVE EpisodicInv'
  <1>1. /\ separators' = separators /\ split' = split /\ variant' = variant /\ chosen' = chosen
        /\ ranking' = ranking /\ costs' = costs /\ step = "collect"
    BY DEF Episodic!Embed, Episodic!conversation
  <1>2. \/ embedded' = Episodic!Collected /\ step' = "calibrate" /\ refusal' = refusal
        \/ step' = "failed" /\ refusal' = "embedding"
    BY DEF Episodic!Embed, Episodic!Fail
  <1>9. /\ Separated' /\ Episodic!Run' = Episodic!Run
        /\ Episodic!Collected' = Episodic!Collected
    BY <1>1, TalkStays DEF EpisodicInv
  <1> QED
    BY <1>1, <1>2, <1>9 DEF EpisodicInv, Episodic!NothingFailsLate

LEMMA CalibrationKeeps == ASSUME EpisodicInv, Episodic!Calibrate PROVE EpisodicInv'
  <1>1. /\ separators' = separators /\ split' = split /\ variant' = variant
        /\ embedded' = embedded /\ ranking' = ranking /\ costs' = costs /\ step = "calibrate"
    BY DEF Episodic!Calibrate, Episodic!conversation
  <1>2. ~ \E c \in Episodic!Run, k \in EpisodicSettings.Evaluated :
            ~(Episodic!Needed(c, k) \subseteq embedded)
    BY <1>1, NeededIsCollected, TalkIs DEF EpisodicInv
  <1>3. \/ chosen' \in Episodic!Run /\ step' = "generate" /\ refusal' = refusal
        \/ step' = "failed" /\ refusal' = "no safe candidate"
    BY <1>2 DEF Episodic!Calibrate, Episodic!Fail
  <1>4. \A k \in Episodic!Exchanges : ranking'[k] = {}
    BY <1>1 DEF EpisodicInv
  <1>9. /\ Separated' /\ Episodic!Run' = Episodic!Run
        /\ Episodic!Collected' = Episodic!Collected
    BY <1>1, TalkStays DEF EpisodicInv
  <1> QED
    BY <1>1, <1>3, <1>4, <1>9 DEF EpisodicInv, Episodic!NothingFailsLate

\* An exchange is asked: nothing is missing, and everything fits.
LEMMA AskingIsSafe ==
    ASSUME EpisodicInv, step \in {"generate", "ledger"}, NEW k \in Episodic!Exchanges
    PROVE  /\ Episodic!Needed(chosen, k) \subseteq embedded
           /\ \A ranked \in Episodic!RankingsFrom(k) :
                 ranked \in Seq(Episodic!Chunks(k)) /\ Episodic!Fits(k, ranked)
  <1>1. chosen \in Episodic!Run /\ embedded = Episodic!Collected /\ Separated
    BY DEF EpisodicInv
  <1>2. Candidate(chosen)
    BY <1>1, TalkIs
  <1>3. \A ranked \in Episodic!RankingsFrom(k) : ranked \in Seq(Episodic!Chunks(k))
    BY RankingsAreChunks DEF Episodic!RankingsFrom, EpisodicInv
  <1> QED
    BY <1>1, <1>2, <1>3, NeededIsCollected, EveryArmFits

LEMMA GenerateKeeps == ASSUME EpisodicInv, Episodic!Generate PROVE EpisodicInv'
  <1> PICK k : k = Episodic!Min(EpisodicSettings.Evaluated \ paid)
    OBVIOUS
  <1>1. /\ separators' = separators /\ split' = split /\ variant' = variant
        /\ embedded' = embedded /\ chosen' = chosen /\ costs' = costs /\ step = "generate"
        /\ EpisodicSettings.Evaluated \ paid # {}
    BY DEF Episodic!Generate, Episodic!conversation
  <1>2. k \in Episodic!Exchanges
    <2> DEFINE S == EpisodicSettings.Evaluated \ paid
    <2>1. S \in SUBSET Int /\ \A n \in S : 1 <= n
      <3>1. \A n \in S : n \in Nat \ {0}
        BY TalkIs
      <3> QED
        BY <3>1
    <2>2. S # {} /\ Episodic!Min(S) = Packing!Min(S)
      BY <1>1, Zenon DEF Episodic!Min, Packing!Min
    <2> HIDE DEF S
    <2>3. Episodic!Min(S) \in S
      BY <2>1, <2>2, Packing!LeastIsThere
    <2> QED
      BY <2>3, TalkIs DEF S
  <1>3. /\ Episodic!Needed(chosen, k) \subseteq embedded
        /\ \A ranked \in Episodic!RankingsFrom(k) :
              ranked \in Seq(Episodic!Chunks(k)) /\ Episodic!Fits(k, ranked)
    BY <1>1, <1>2, AskingIsSafe
  <1>4. PICK ranked \in Episodic!RankingsFrom(k) :
           /\ ranking' = [ranking EXCEPT ![k] = {ranked}]
           /\ \/ step' = step /\ refusal' = refusal
              \/ step' = "failed" /\ refusal' = "provider"
    BY <1>3 DEF Episodic!Generate, Episodic!Fail
  <1>5. /\ DOMAIN ranking' = Episodic!Exchanges
        /\ \A j \in Episodic!Exchanges : \A r \in ranking'[j] : r \in Seq(Episodic!Chunks(j))
    BY <1>1, <1>3, <1>4 DEF EpisodicInv
  <1>6. \A j : Episodic!Chunks(j)' = Episodic!Chunks(j)
    BY <1>1, TalkStays
  <1>9. /\ Separated' /\ Episodic!Run' = Episodic!Run
        /\ Episodic!Collected' = Episodic!Collected
    BY <1>1, TalkStays DEF EpisodicInv
  <1> QED
    BY <1>1, <1>4, <1>5, <1>6, <1>9 DEF EpisodicInv, Episodic!NothingFailsLate

LEMMA GeneratedKeeps == ASSUME EpisodicInv, Episodic!Generated PROVE EpisodicInv'
  <1>1. /\ separators' = separators /\ split' = split /\ variant' = variant
        /\ embedded' = embedded /\ chosen' = chosen /\ ranking' = ranking /\ costs' = costs
        /\ step = "generate" /\ step' = "ledger" /\ refusal' = refusal
    BY DEF Episodic!Generated, Episodic!conversation
  <1>2. \A k : Episodic!Chunks(k)' = Episodic!Chunks(k)
    BY <1>1, TalkStays
  <1>9. /\ Separated' /\ Episodic!Run' = Episodic!Run
        /\ Episodic!Collected' = Episodic!Collected
    BY <1>1, TalkStays DEF EpisodicInv
  <1> QED
    BY <1>1, <1>2, <1>9 DEF EpisodicInv, Episodic!NothingFailsLate

LEMMA HalfOf == ASSUME NEW n \in Nat PROVE n \div 2 \in Nat /\ Cardinality(1 .. n) = n
  <1>1. n \div 2 \in Nat
    OBVIOUS
  <1>2. Cardinality(1 .. n) = n
    <2>1. Cardinality(1 .. n) = IF 1 > n THEN 0 ELSE n - 1 + 1
      BY FS_Interval
    <2> QED
      BY <2>1
  <1> QED
    BY <1>1, <1>2

\* The exchanges are charged one by one.
LEMMA NextExchange ==
    ASSUME NEW n \in Nat, n < Episodic!Cardinality(Episodic!Exchanges)
    PROVE  n + 1 \in Episodic!Exchanges
  <1>1. Episodic!Cardinality(Episodic!Exchanges) = Cardinality(Episodic!Exchanges)
    BY Zenon DEF Episodic!Cardinality, Cardinality
  <1> PICK most \in Nat : Episodic!Exchanges = 1 .. most
    <2>1. Len(EpisodicSettings.Length) \in Nat
      BY TalkIs
    <2>2. Len(EpisodicSettings.Length) \div 2 \in Nat
      BY <2>1, HalfOf
    <2> QED
      BY <2>2, TalkIs
  <1>3. Cardinality(1 .. most) = most
    BY HalfOf
  <1>4. n + 1 \in 1 .. most
    <2>1. Episodic!Cardinality(Episodic!Exchanges) = most
      BY <1>1, <1>3
    <2> QED
      BY <2>1
  <1> QED
    BY <1>4

LEMMA ChargeKeeps == ASSUME EpisodicInv, Episodic!Charge PROVE EpisodicInv'
  <1> PICK k : k = Len(costs.memory) + 1
    OBVIOUS
  <1>1. /\ separators' = separators /\ split' = split /\ variant' = variant
        /\ embedded' = embedded /\ chosen' = chosen /\ step = "ledger"
        /\ Len(costs.memory) < Episodic!Cardinality(Episodic!Exchanges)
    BY DEF Episodic!Charge, Episodic!conversation
  <1> PICK T : costs.memory \in Seq(T)
    BY DEF EpisodicInv
  <1>2. k \in Episodic!Exchanges
    <2>1. Len(costs.memory) \in Nat
      OBVIOUS
    <2> QED
      BY <1>1, <2>1, NextExchange
  <1>3. /\ Episodic!Needed(chosen, k) \subseteq embedded
        /\ \A ranked \in Episodic!RankingsFrom(k) :
              ranked \in Seq(Episodic!Chunks(k)) /\ Episodic!Fits(k, ranked)
    BY <1>1, <1>2, AskingIsSafe
  <1>4. PICK ranked \in Episodic!RankingsFrom(k) :
           /\ ranking' = [ranking EXCEPT ![k] = {ranked}]
           /\ costs' = [memory |-> Append(costs.memory, Episodic!Total0(costs.memory)
                                            + Episodic!StepCost(variant, k, ranked)),
                        history |-> Append(costs.history, Episodic!Total0(costs.history)
                                            + Episodic!StepCost("B", k, ranked))]
           /\ step' = step /\ refusal' = refusal
    BY <1>3 DEF Episodic!Charge
  <1>5. /\ DOMAIN ranking' = Episodic!Exchanges
        /\ \A j \in Episodic!Exchanges : \A r \in ranking'[j] : r \in Seq(Episodic!Chunks(j))
    BY <1>1, <1>3, <1>4 DEF EpisodicInv
  <1>6. \A j : Episodic!Chunks(j)' = Episodic!Chunks(j)
    BY <1>1, TalkStays
  <1>7. \E U : costs'.memory \in Seq(U)
    <2> PICK s \in Seq(T) : s = costs.memory
      OBVIOUS
    <2> PICK x : costs'.memory = Append(s, x)
      BY <1>4
    <2>1. s \in Seq(T \cup {x}) /\ x \in T \cup {x}
      OBVIOUS
    <2>2. Append(s, x) \in Seq(T \cup {x})
      BY <2>1
    <2> QED
      BY <2>2
  <1>9. /\ Separated' /\ Episodic!Run' = Episodic!Run
        /\ Episodic!Collected' = Episodic!Collected
    BY <1>1, TalkStays DEF EpisodicInv
  <1> QED
    BY <1>1, <1>4, <1>5, <1>6, <1>7, <1>9 DEF EpisodicInv, Episodic!NothingFailsLate

LEMMA FinishKeeps == ASSUME EpisodicInv, Episodic!Finish PROVE EpisodicInv'
  <1>1. /\ separators' = separators /\ split' = split /\ variant' = variant
        /\ ranking' = ranking /\ costs' = costs /\ step' = "done" /\ refusal' = refusal
    BY DEF Episodic!Finish, Episodic!conversation
  <1>9. /\ Separated' /\ Episodic!Run' = Episodic!Run
        /\ Episodic!Collected' = Episodic!Collected
    BY <1>1, TalkStays DEF EpisodicInv
  <1> QED
    BY <1>1, <1>9 DEF EpisodicInv, Episodic!NothingFailsLate

LEMMA EpisodesKeep == ASSUME EpisodicInv, [Episodic!Next]_episodicVars PROVE EpisodicInv'
  <1>1. CASE UNCHANGED episodicVars
    <2>1. /\ separators' = separators /\ split' = split /\ variant' = variant
          /\ embedded' = embedded /\ chosen' = chosen /\ ranking' = ranking /\ costs' = costs
          /\ step' = step /\ refusal' = refusal
      BY <1>1 DEF episodicVars
    <2>2. \A k : Episodic!Chunks(k)' = Episodic!Chunks(k)
      BY <2>1, TalkStays
    <2> QED
      <3>1. /\ (Separated' <=> Separated) /\ Episodic!Run' = Episodic!Run
            /\ Episodic!Collected' = Episodic!Collected
        BY <2>1, TalkStays
      <3> QED
        BY <2>1, <2>2, <3>1 DEF EpisodicInv, Episodic!NothingFailsLate
  <1>2. CASE Episodic!Next
    BY <1>2, EmbedKeeps, CalibrationKeeps, GenerateKeeps, GeneratedKeeps, ChargeKeeps, FinishKeeps
    DEF Episodic!Next
  <1> QED
    BY <1>1, <1>2

\* For data that meet QuestionsFit, which the code takes for granted (Contexts assumes it), and
\* whatever the conversation, the candidates, the similarities and the budgets that validate: once
\* an execution of the episodic memory experiment has paid for a call, no stage misses a vector and
\* no context is too large (collect_embedding_texts, ContextBudgets.validate, compose_context,
\* build_cost_ledgers).
THEOREM CheckedBeforeItIsPaid == ContextSpec => []NothingFailsLate
  <1> DEFINE Inv == part = "episodic" => EpisodicInv
  <1>1. ContextInit => Inv
    BY EpisodesBegin DEF ContextInit
  <1>2. Inv /\ [ContextNext]_contextVars => Inv'
    <2>1. ASSUME [ContextNext]_contextVars
          PROVE  part' = part /\ (part = "episodic" => [Episodic!Next]_episodicVars)
      BY <2>1 DEF ContextNext, contextVars, PaidNext, paidVars
    <2> QED
      BY <2>1, EpisodesKeep
  <1>3. Inv => NothingFailsLate
    BY DEF NothingFailsLate, EpisodicInv
  <1> QED
    BY <1>1, <1>2, <1>3, PTL DEF ContextSpec

----------------------------------------------------------------------------
(* The long context: which steps are prepared, for any events and sizes.    *)

Own == LongContext!Own

\* B and the recent part of E are what their budgets keep; a question too long stops the step at B,
\* a fault of the index at E; and where the step ends is as it should be.
ReplayInv ==
    /\ fault \in LongContext!Faults /\ size \in [Own -> Sizes] /\ overhead \in Nat
    /\ kind \in {"primary", "recent", "no evidence"} /\ (gold = {} <=> kind = "no evidence")
    /\ place \in {"start", "B", "E", "prepared", "refused"}
    /\ place \in {"B", "E"} =>
          /\ overhead <= OverheadCap
          /\ bounded = LongContext!CompleteSuffix(Own, HistoryBudget)
    /\ place = "E" =>
          /\ fault = "none"
          /\ hybrid.recent = LongContext!CompleteSuffix(Own, RecentBudget)
          /\ LongContext!ToSet(hybrid.retrieved) \in SUBSET Own
    /\ LongContext!PreparedIffSound

LEMMA TokensAreSum == ASSUME NEW S PROVE LongContext!TokensOf(S) = Packing!Sum(S)
  BY Zenon DEF Packing!Sum, Packing!MapThenSumSet, Packing!MapThenFoldSet,
     LongContext!TokensOf, LongContext!MapThenSumSet, LongContext!MapThenFoldSet

LEMMA PackedIsFold == ASSUME NEW s PROVE LongContext!Packed(s) = Packing!Fold(s)
  BY Zenon DEF Packing!Fold, Packing!FoldLeft, Packing!MapThenFoldSet, Packing!Max,
     LongContext!Packed, LongContext!FoldLeft, LongContext!MapThenFoldSet, LongContext!Max

LEMMA FinitenessIsShared == \A S : Packing!IsFiniteSet(S) <=> IsFiniteSet(S)
  BY DEF Packing!IsFiniteSet, IsFiniteSet

LEMMA EventsAreFinite ==
    /\ Own = 1 .. LastEvent /\ LastEvent \in Nat /\ 1 \in Own /\ Own \subseteq Int
    /\ \A S \in SUBSET Own : IsFiniteSet(S)
  <1>1. Own = 1 .. LastEvent /\ LastEvent \in Nat /\ LastEvent # 0
    BY ReplayBounds DEF ReplayBounds, Own, LongContext!Own
  <1>2. IsFiniteSet(1 .. LastEvent)
    BY <1>1, FS_Interval
  <1>3. 1 \in Own /\ Own \subseteq Int
    BY <1>1
  <1>4. \A S \in SUBSET Own : IsFiniteSet(S)
    BY <1>1, <1>2, FS_Subset
  <1> QED
    BY <1>1, <1>3, <1>4

\* What the budget keeps of the newest events fits into it.
LEMMA SuffixFits ==
    ASSUME size \in [Own -> Sizes], NEW budget \in Nat
    PROVE  /\ LongContext!CompleteSuffix(Own, budget) \in SUBSET Own
           /\ LongContext!TokensOf(LongContext!CompleteSuffix(Own, budget)) \in Int
           /\ LongContext!TokensOf(LongContext!CompleteSuffix(Own, budget)) <= budget
  <1> DEFINE suffix(k) == {i \in Own : i >= k}
             fitting == {k \in Own : LongContext!TokensOf(suffix(k)) <= budget}
             kept == IF fitting = {} THEN {} ELSE suffix(LongContext!Min(fitting))
  <1>1. LongContext!CompleteSuffix(Own, budget) = kept
    BY DEF LongContext!CompleteSuffix
  <1>2. \A S \in SUBSET Own : LongContext!TokensOf(S) \in Int
    <2> SUFFICES ASSUME NEW S \in SUBSET Own PROVE Packing!Sum(S) \in Int
      BY TokensAreSum
    <2>1. \A i \in S : size[i] \in Int
      <3>1. \A i \in Own : size[i] \in Sizes
        OBVIOUS
      <3>2. \A n \in Sizes : n \in Int
        BY ReplayBounds DEF ReplayBounds
      <3> QED
        BY <3>1, <3>2
    <2> QED
      BY <2>1, EventsAreFinite, FinitenessIsShared, Packing!SumIsInt
  <1>3. CASE fitting = {}
    <2>1. LongContext!TokensOf({}) = 0
      BY TokensAreSum, Packing!SumEmpty
    <2> QED
      BY <1>1, <1>3, <2>1
  <1>4. CASE fitting # {}
    <2>1. fitting \in SUBSET Int /\ \A k \in fitting : 1 <= k
      BY EventsAreFinite
    <2> HIDE DEF fitting
    <2>2. LongContext!Min(fitting) = Packing!Min(fitting)
      BY Zenon DEF LongContext!Min, Packing!Min
    <2>3. LongContext!Min(fitting) \in fitting
      BY <1>4, <2>1, <2>2, Packing!LeastIsThere
    <2> PICK k \in fitting : k = LongContext!Min(fitting)
      BY <2>3
    <2>4. kept = suffix(k)
      BY <1>4
    <2>5. suffix(k) \in SUBSET Own /\ LongContext!TokensOf(suffix(k)) <= budget
      BY DEF fitting
    <2> QED
      BY <1>1, <1>2, <2>4, <2>5
  <1> QED
    BY <1>3, <1>4

LEMMA TokensAreCounted ==
    ASSUME size \in [Own -> Sizes], NEW S \in SUBSET Own, NEW T \in SUBSET S
    PROVE  /\ LongContext!TokensOf(S) \in Int /\ LongContext!TokensOf(T) \in Int
           /\ LongContext!TokensOf(T) <= LongContext!TokensOf(S)
  <1>1. \A i \in Own : size[i] \in Nat /\ size[i] \in Int
    <2>1. \A n \in Sizes : n \in Nat /\ n \in Int
      BY ReplayBounds DEF ReplayBounds
    <2>2. \A i \in Own : size[i] \in Sizes
      OBVIOUS
    <2> QED
      BY <2>1, <2>2
  <1>2. IsFiniteSet(S) /\ IsFiniteSet(T) /\ Packing!IsFiniteSet(S) /\ Packing!IsFiniteSet(T)
    BY EventsAreFinite, FinitenessIsShared
  <1>3. Packing!Sum(S) \in Int /\ Packing!Sum(T) \in Int
    BY <1>1, <1>2, Packing!SumIsInt
  <1>4. Packing!Sum(T) <= Packing!Sum(S)
    BY <1>1, <1>2, Packing!SumGrows
  <1> QED
    BY <1>3, <1>4, TokensAreSum

\* The budget keeps an event if the events since then fit into it.
LEMMA SuffixIs ==
    ASSUME size \in [Own -> Sizes], NEW budget \in Nat, NEW i \in Own
    PROVE  i \in LongContext!CompleteSuffix(Own, budget)
             <=> LongContext!TokensOf(LongContext!Since(i)) <= budget
  <1> DEFINE since(k) == LongContext!Since(k)
             fitting == {k \in Own : LongContext!TokensOf(since(k)) <= budget}
             kept == IF fitting = {} THEN {} ELSE since(LongContext!Min(fitting))
  <1>1. \A k : since(k) = {j \in Own : j >= k}
    BY DEF LongContext!Since, Own
  <1>2. LongContext!CompleteSuffix(Own, budget) = kept
    BY DEF LongContext!CompleteSuffix, LongContext!Since, Own
  <1>3. CASE fitting = {}
    BY <1>2, <1>3
  <1>4. CASE fitting # {}
    <2>1. fitting \in SUBSET Int /\ \A k \in fitting : 1 <= k
      BY EventsAreFinite
    <2> HIDE DEF fitting
    <2>2. LongContext!Min(fitting) = Packing!Min(fitting)
      BY Zenon DEF LongContext!Min, Packing!Min
    <2>3. PICK k \in fitting : k = LongContext!Min(fitting) /\ \A n \in fitting : k <= n
      <3>1. 1 \in Int
        OBVIOUS
      <3>2. Packing!Min(fitting) \in fitting /\ \A n \in fitting : Packing!Min(fitting) <= n
        BY <1>4, <2>1, <3>1, Packing!LeastIsThere
      <3> QED
        BY <2>2, <3>2
    <2>4. kept = since(k)
      BY <1>4, <2>3
    <2>5. k \in Own /\ LongContext!TokensOf(since(k)) <= budget
      BY DEF fitting
    <2> HIDE DEF since
    <2>6. ASSUME LongContext!TokensOf(since(i)) <= budget PROVE i \in since(k)
      <3>1. i \in fitting
        BY <2>6 DEF fitting
      <3> QED
        BY <1>1, <2>3, <3>1, EventsAreFinite
    <2>7. ASSUME i \in since(k) PROVE LongContext!TokensOf(since(i)) <= budget
      <3>1. since(i) \in SUBSET since(k) /\ since(k) \in SUBSET Own
        BY <1>1, <2>5, <2>7, EventsAreFinite
      <3>2. /\ LongContext!TokensOf(since(i)) \in Int /\ LongContext!TokensOf(since(k)) \in Int
            /\ LongContext!TokensOf(since(i)) <= LongContext!TokensOf(since(k))
        BY <3>1, TokensAreCounted
      <3> QED
        BY <2>5, <3>2
    <2>8. i \in since(k) <=> LongContext!TokensOf(since(i)) <= budget
      BY <2>6, <2>7
    <2> QED
      BY <1>2, <2>4, <2>8 DEF since
  <1> QED
    BY <1>3, <1>4

\* What is packed of the retrieved events fits into their budget.
LEMMA PackedFits ==
    ASSUME size \in [Own -> Sizes], NEW s \in Seq(Own)
    PROVE  /\ LongContext!Packed(s).kept \in Seq(Own)
           /\ LongContext!Packed(s).used \in 0 .. RetrievedBudget
  <1> DEFINE T == [kept : Seq(Own), used : 0 .. RetrievedBudget]
             Step(taken, i) ==
                 IF Len(taken.kept) < TopEvents /\ size[i] <= RetrievedBudget - taken.used
                 THEN [kept |-> Append(taken.kept, i), used |-> taken.used + size[i]]
                 ELSE taken
  <1>1. [kept |-> <<>>, used |-> 0] \in T
    BY ReplayBounds DEF ReplayBounds
  <1>2. \A taken \in T, i \in Own : Step(taken, i) \in T
    <2> TAKE taken \in T, i \in Own
    <2>1. taken.kept \in Seq(Own) /\ taken.used \in 0 .. RetrievedBudget
      OBVIOUS
    <2>2. size[i] \in Nat
      BY ReplayBounds DEF ReplayBounds
    <2>3. CASE Len(taken.kept) < TopEvents /\ size[i] <= RetrievedBudget - taken.used
      <3>1. Append(taken.kept, i) \in Seq(Own)
        BY <2>1
      <3>2. taken.used + size[i] \in 0 .. RetrievedBudget
        BY <2>1, <2>2, <2>3, ReplayBounds DEF ReplayBounds
      <3> QED
        BY <2>3, <3>1, <3>2
    <2> QED
      BY <2>3
  <1>3. Packing!Fold(s) \in T
    <2> HIDE DEF T
    <2> QED
      BY <1>1, <1>2, Packing!FoldWithin
  <1> QED
    BY <1>3, PackedIsFold

\* A ranking is a sequence of what it ranks.
LEMMA RankedAreOwn ==
    ASSUME NEW S \in SUBSET Own, NEW s \in LongContext!SetToSeqs(S) PROVE s \in Seq(Own)
  <1>1. LongContext!Cardinality(S) = Cardinality(S)
    BY Zenon DEF LongContext!Cardinality, Cardinality
  <1>2. Cardinality(S) \in Nat
    BY EventsAreFinite, FS_CardinalityType
  <1>3. s \in [1 .. Cardinality(S) -> S]
    BY <1>1 DEF LongContext!SetToSeqs
  <1> QED
    BY <1>2, <1>3

----------------------------------------------------------------------------
(* The shared index.                                                        *)

LEMMA PlacesAreApart ==
    /\ LongContext!Canaries = {LongContext!WrongTenant, LongContext!WrongConversation}
    /\ LongContext!WrongTenant # LongContext!WrongConversation
    /\ LongContext!WrongTenant # 0 /\ LongContext!WrongConversation # 0
    /\ LongContext!Later \notin LongContext!Canaries /\ LongContext!Later \notin Own
    /\ \A i \in Own : i \notin LongContext!Canaries /\ i # 0
    /\ 1 \in Own
  <1>1. /\ \A i \in Own : i \in Int /\ 1 <= i /\ i <= LastEvent
        /\ LastEvent \in Nat /\ LastEvent # 0
    BY EventsAreFinite, ReplayBounds DEF ReplayBounds
  <1> QED
    BY <1>1, EventsAreFinite
    DEF LongContext!Canaries, LongContext!WrongTenant, LongContext!WrongConversation,
        LongContext!Later

\* The events as they should be.
LEMMA EventIs ==
    /\ \A i : LongContext!Event(i).id = i /\ LongContext!Event(i).confirmed
              /\ LongContext!Event(i).text = "original"
    /\ \A i \in Own \cup {LongContext!Later} :
          /\ LongContext!Event(i).tenant = "own" /\ LongContext!Event(i).conversation = "own"
          /\ LongContext!Event(i).sentinel = 0 /\ ~LongContext!Event(i).reuses
    /\ \A i \in LongContext!Canaries :
          LongContext!Event(i).sentinel = i /\ LongContext!Event(i).reuses
    /\ LongContext!Event(LongContext!WrongTenant).tenant = "other"
    /\ LongContext!Event(LongContext!WrongTenant).conversation = "own"
    /\ LongContext!Event(LongContext!WrongConversation).tenant = "own"
    /\ LongContext!Event(LongContext!WrongConversation).conversation = "other"
  BY PlacesAreApart DEF LongContext!Event

LEMMA SourceIs ==
    \A i \in Own :
        /\ LongContext!Source(i).id = i /\ LongContext!InScope(LongContext!Source(i))
        /\ LongContext!Source(i).text = "original"
        /\ LongContext!Source(i).sentinel =
              IF fault = "leaked sentinel" /\ i = 1 THEN LongContext!WrongTenant ELSE 0
  BY EventIs DEF LongContext!Source, LongContext!InScope, LongContext!Event

\* Every source is among them, and each is in scope; the canaries are not.
LEMMA HonestIs ==
    /\ LongContext!Sources \subseteq LongContext!Honest
    /\ \A x \in LongContext!Honest :
          x \notin LongContext!Sources =>
             \/ x = LongContext!Event(LongContext!WrongTenant)
             \/ x = LongContext!Event(LongContext!WrongConversation)
    /\ \A x \in LongContext!Sources :
          x.id \in Own /\ LongContext!InScope(x) /\ x.text = "original"
    /\ \A i \in LongContext!Canaries :
          /\ LongContext!Event(i) \in LongContext!Honest
          /\ ~LongContext!InScope(LongContext!Event(i))
    /\ fault # "leaked sentinel" => LongContext!Event(1) \in LongContext!Sources
    /\ \A x, y \in LongContext!Honest : x.id = y.id => x = y
  <1>1. \A x \in LongContext!Sources : \E i \in Own : x = LongContext!Source(i) /\ x.id = i
    BY SourceIs DEF LongContext!Sources, Own
  <1>2. \A x \in LongContext!Sources :
          x.id \in Own /\ LongContext!InScope(x) /\ x.text = "original"
    <2> TAKE x \in LongContext!Sources
    <2> PICK i \in Own : x = LongContext!Source(i) /\ x.id = i
      BY <1>1
    <2> QED
      BY SourceIs
  <1>3. \A x \in LongContext!Honest : x \notin LongContext!Sources =>
             \/ x = LongContext!Event(LongContext!WrongTenant)
             \/ x = LongContext!Event(LongContext!WrongConversation)
    BY PlacesAreApart DEF LongContext!Honest
  <1>4. \A i \in LongContext!Canaries :
          /\ LongContext!Event(i) \in LongContext!Honest
          /\ ~LongContext!InScope(LongContext!Event(i))
    BY PlacesAreApart, EventIs DEF LongContext!Honest, LongContext!InScope
  <1>5. fault # "leaked sentinel" => LongContext!Event(1) \in LongContext!Sources
    BY PlacesAreApart DEF LongContext!Sources, LongContext!Source, Own
  <1>6. \A x, y \in LongContext!Honest : x.id = y.id => x = y
    <2>1. \A x, y \in LongContext!Sources : x.id = y.id => x = y
      BY <1>1
    <2>2. LongContext!Event(LongContext!WrongTenant).id = LongContext!WrongTenant
          /\ LongContext!Event(LongContext!WrongConversation).id = LongContext!WrongConversation
      BY EventIs
    <2> QED
      BY <1>2, <1>3, <2>1, <2>2, PlacesAreApart
  <1> QED
    BY <1>2, <1>3, <1>4, <1>5, <1>6 DEF LongContext!Honest

\* An index that nothing is wrong with, or whose canaries alone are: the filter finds the sources.
LEMMA HonestScope ==
    ASSUME NEW Index, LongContext!Sources \subseteq Index,
           \A x \in Index : x \notin LongContext!Sources => ~LongContext!InScope(x)
    PROVE  {x \in Index : LongContext!InScope(x)} = LongContext!Sources
  BY HonestIs

LEMMA HonestPasses ==
    ASSUME fault = "none", NEW S \in SUBSET Own
    PROVE  LongContext!Scoped = LongContext!Sources /\ LongContext!ChallengeHolds(S)
  <1>1. LongContext!Shared = LongContext!Honest
    BY DEF LongContext!Shared
  <1>2. LongContext!Scoped = LongContext!Sources
    BY <1>1, HonestIs, PlacesAreApart DEF LongContext!Scoped
  <1>3. \A x, y \in LongContext!Shared : x.id = y.id => x = y
    BY <1>1, HonestIs
  <1>4. LET tenant == LongContext!Event(LongContext!WrongTenant)
            conversation == LongContext!Event(LongContext!WrongConversation)
        IN  /\ tenant \in LongContext!Shared /\ conversation \in LongContext!Shared
            /\ tenant.id = LongContext!WrongTenant
            /\ conversation.id = LongContext!WrongConversation
            /\ tenant.tenant # "own"
            /\ conversation.tenant = "own" /\ conversation.conversation # "own"
            /\ \A canary \in {tenant, conversation} :
                  canary.confirmed /\ canary.sentinel = canary.id /\ canary.reuses
    BY <1>1, HonestIs, EventIs, PlacesAreApart
  <1>5. \A x \in LongContext!Sources :
           x.id \notin LongContext!Canaries /\ x.sentinel \notin LongContext!Canaries
    BY SourceIs, PlacesAreApart DEF LongContext!Sources, Own
  <1>6. \A x \in LongContext!Scoped : x.id \notin LongContext!Canaries
    BY <1>2, <1>5
  <1> QED
    BY <1>2, <1>3, <1>4, <1>5, <1>6 DEF LongContext!ChallengeHolds, Own

\* Each fault is noticed, by the filter or by the challenge.
LEMMA FaultsAreNoticed ==
    ASSUME fault \in LongContext!Faults, fault # "none", NEW S,
           LongContext!Scoped = LongContext!Sources, LongContext!ChallengeHolds(S)
    PROVE  FALSE
  <1> DEFINE first == LongContext!Event(1)
             canary == LongContext!Event(LongContext!WrongTenant)
  <1>1. PICK found \in LongContext!Shared :
           /\ found.id = LongContext!WrongTenant /\ found.tenant # "own"
           /\ found.confirmed /\ found.sentinel = found.id /\ found.reuses
    BY DEF LongContext!ChallengeHolds
  <1>2. /\ \A x, y \in LongContext!Shared : x.id = y.id => x = y
        /\ \A x \in LongContext!Sources : x.sentinel \notin LongContext!Canaries
    BY DEF LongContext!ChallengeHolds
  <1>3. \A x \in LongContext!Shared : LongContext!InScope(x) <=> x \in LongContext!Sources
    BY HonestIs DEF LongContext!Scoped
  <1>4. \A x \in LongContext!Sources : x \in LongContext!Shared
    BY DEF LongContext!Scoped
  <1>5. /\ first.id = 1 /\ first.text = "original" /\ first.confirmed
        /\ first.tenant = "own" /\ first.conversation = "own"
    BY EventIs, PlacesAreApart
  <1>6. /\ canary.id = LongContext!WrongTenant /\ canary.tenant = "other"
        /\ \A x \in LongContext!Honest : x.id = LongContext!WrongTenant => x = canary
    <2>1. canary.id = LongContext!WrongTenant /\ canary.tenant = "other"
      BY EventIs
    <2>2. canary \in LongContext!Honest
      BY HonestIs, PlacesAreApart
    <2>3. \A x, y \in LongContext!Honest : x.id = y.id => x = y
      BY HonestIs
    <2> QED
      BY <2>1, <2>2, <2>3
  <1>7. CASE fault = "missing"
    <2>1. first \in LongContext!Sources /\ first \notin LongContext!Shared
      BY <1>7, HonestIs DEF LongContext!Shared
    <2> QED
      BY <1>4, <2>1
  <1>8. CASE fault = "altered"
    <2>1. first \in LongContext!Sources
      BY <1>8, HonestIs
    <2>2. first \notin LongContext!Shared
      BY <1>5, <1>8 DEF LongContext!Shared, LongContext!Swapped, LongContext!Event
    <2> QED
      BY <1>4, <2>1, <2>2
  <1>9. CASE fault = "candidate"
    <2>1. first \in LongContext!Sources
      BY <1>9, HonestIs
    <2>2. first \notin LongContext!Shared
      BY <1>5, <1>9 DEF LongContext!Shared, LongContext!Swapped, LongContext!Event
    <2> QED
      BY <1>4, <2>1, <2>2
  <1>10. CASE fault = "later"
    <2>1. LongContext!Event(LongContext!Later) \in LongContext!Shared
      BY <1>10 DEF LongContext!Shared
    <2>2. LongContext!InScope(LongContext!Event(LongContext!Later))
      BY EventIs DEF LongContext!InScope
    <2>3. LongContext!Event(LongContext!Later).id \notin Own
      BY EventIs, PlacesAreApart
    <2> QED
      BY <1>3, <2>1, <2>2, <2>3, HonestIs
  <1>11. CASE fault = "copied"
    <2>1. [first EXCEPT !.conversation = "other"] \in LongContext!Shared
      BY <1>11 DEF LongContext!Shared
    <2>2. first \in LongContext!Shared
      BY <1>4, <1>11, HonestIs
    <2>3. /\ [first EXCEPT !.conversation = "other"].id = 1
          /\ [first EXCEPT !.conversation = "other"].conversation = "other"
      BY DEF LongContext!Event
    <2> QED
      BY <1>2, <1>5, <2>1, <2>2, <2>3
  <1>12. CASE fault = "no canary"
    <2>1. found \in LongContext!Honest /\ found # canary
      BY <1>12 DEF LongContext!Shared
    <2> QED
      BY <1>1, <1>6, <2>1
  <1>13. CASE fault \in {"tame canary", "unconfirmed canary", "mute canary", "idle canary"}
    <2> PICK other : other = CASE fault = "tame canary" ->
                                    [canary EXCEPT !.tenant = "own", !.conversation = "other"]
                               [] fault = "unconfirmed canary" ->
                                    [canary EXCEPT !.confirmed = FALSE]
                               [] fault = "mute canary" -> [canary EXCEPT !.sentinel = 0]
                               [] fault = "idle canary" -> [canary EXCEPT !.reuses = FALSE]
      OBVIOUS
    <2>1. LongContext!Shared = (LongContext!Honest \ {canary}) \cup {other}
      BY <1>13 DEF LongContext!Shared, LongContext!Swapped
    <2>2. found = other
      BY <1>1, <1>6, <2>1
    <2>3. \/ other.tenant = "own" \/ ~other.confirmed \/ other.sentinel = 0 \/ ~other.reuses
      BY <1>13 DEF LongContext!Event
    <2> QED
      BY <1>1, <2>2, <2>3, PlacesAreApart
  <1>14. CASE fault = "leaked sentinel"
    <2>1. LongContext!Source(1) \in LongContext!Sources
      BY PlacesAreApart DEF LongContext!Sources, Own
    <2>2. LongContext!Source(1).sentinel = LongContext!WrongTenant
      BY <1>14, SourceIs, PlacesAreApart
    <2> QED
      BY <1>2, <2>1, <2>2, PlacesAreApart
  <1> QED
    BY <1>7, <1>8, <1>9, <1>10, <1>11, <1>12, <1>13, <1>14 DEF LongContext!Faults

----------------------------------------------------------------------------
(* build_development_requests: the steps.                                   *)

LEMMA ReplaysStart == ASSUME LongContext!Init PROVE ReplayInv
  BY ReplayBounds DEF ReplayBounds, LongContext!Init, ReplayInv, Own, LongContext!PreparedIffSound

\* What is said of the step alone does not change with it.
LEMMA SoundStays ==
    ASSUME fault' = fault, kind' = kind, size' = size, overhead' = overhead, gold' = gold
    PROVE  /\ LongContext!Sound' <=> LongContext!Sound
           /\ \A budget : LongContext!CompleteSuffix(Own, budget)'
                             = LongContext!CompleteSuffix(Own, budget)
  <1>1. \A S : LongContext!TokensOf(S)' = LongContext!TokensOf(S)
    BY DEF LongContext!TokensOf, LongContext!MapThenSumSet, LongContext!MapThenFoldSet
  <1>2. LongContext!Sound' <=> LongContext!Sound
    BY <1>1 DEF LongContext!Sound
  <1>3. \A budget : LongContext!CompleteSuffix(Own, budget)'
                      = LongContext!CompleteSuffix(Own, budget)
    BY <1>1 DEF LongContext!CompleteSuffix
  <1> QED
    BY <1>2, <1>3

LEMMA OverheadsAreCounted ==
    ASSUME ReplayInv
    PROVE  /\ overhead \in Int /\ OverheadCap \in Int /\ InputCap \in Int
           /\ HistoryBudget \in Int /\ HistoryBudget + OverheadCap <= InputCap
  <1>1. overhead \in Nat
    BY DEF ReplayInv
  <1> QED
    BY <1>1, ReplayBounds DEF ReplayBounds

LEMMA BuildBKeeps == ASSUME ReplayInv, LongContext!BuildB PROVE ReplayInv'
  <1>1. /\ fault' = fault /\ kind' = kind /\ size' = size /\ overhead' = overhead
        /\ gold' = gold /\ hybrid' = hybrid /\ place = "start" /\ place' \in {"B", "refused"}
    BY DEF LongContext!BuildB, LongContext!step, LongContext!Refuse
  <1> PICK kept : kept = LongContext!CompleteSuffix(Own, HistoryBudget)
    OBVIOUS
  <1>2. LongContext!TokensOf(kept) \in Int /\ LongContext!TokensOf(kept) <= HistoryBudget
    BY SuffixFits, ReplayBounds DEF ReplayBounds, ReplayInv
  <1>3. ~ \E x \in LongContext!Sources : ~x.confirmed
    BY HonestIs DEF LongContext!InScope
  <1>4. IF overhead > OverheadCap \/ LongContext!TokensOf(kept) + overhead > InputCap
        THEN place' = "refused"
        ELSE bounded' = kept /\ place' = "B"
    BY <1>3 DEF LongContext!BuildB, LongContext!Refuse, Own
  <1>5. CASE overhead > OverheadCap
    <2>1. ~(overhead <= OverheadCap)
      <3>1. overhead \in Int /\ OverheadCap \in Int
        BY OverheadsAreCounted
      <3> QED
        BY <1>5, <3>1
    <2>2. ~LongContext!Sound
      BY <2>1 DEF LongContext!Sound
    <2> QED
      BY <1>1, <1>4, <1>5, <2>2, SoundStays DEF ReplayInv, LongContext!PreparedIffSound
  <1>6. CASE ~(overhead > OverheadCap)
    <2>1. overhead <= OverheadCap /\ ~(LongContext!TokensOf(kept) + overhead > InputCap)
      <3>1. /\ overhead \in Int /\ OverheadCap \in Int /\ InputCap \in Int
            /\ HistoryBudget \in Int /\ HistoryBudget + OverheadCap <= InputCap
        BY OverheadsAreCounted
      <3> QED
        BY <1>2, <1>6, <3>1
    <2>2. bounded' = kept /\ place' = "B"
      BY <1>4, <1>6, <2>1
    <2> QED
      BY <1>1, <2>1, <2>2, SoundStays DEF ReplayInv, LongContext!PreparedIffSound
  <1> QED
    BY <1>5, <1>6

LEMMA BuildEKeeps == ASSUME ReplayInv, LongContext!BuildE PROVE ReplayInv'
  <1>1. /\ fault' = fault /\ kind' = kind /\ size' = size /\ overhead' = overhead
        /\ gold' = gold /\ bounded' = bounded
        /\ place = "B" /\ fault \in LongContext!Faults /\ size \in [Own -> Sizes]
        /\ overhead \in Nat /\ overhead <= OverheadCap
    BY DEF LongContext!BuildE, LongContext!step, ReplayInv
  <1>2. ASSUME place' = "refused", fault # "none" PROVE ReplayInv'
    <2>1. ~LongContext!Sound
      BY <1>2 DEF LongContext!Sound
    <2> QED
      BY <1>1, <1>2, <2>1, SoundStays DEF ReplayInv, LongContext!PreparedIffSound
  <1>3. CASE LongContext!Scoped # LongContext!Sources
    <2>1. place' = "refused"
      BY <1>3 DEF LongContext!BuildE, LongContext!Refuse
    <2>2. fault # "none"
      BY <1>3, HonestPasses
    <2> QED
      BY <1>2, <2>1, <2>2
  <1>4. CASE LongContext!Scoped = LongContext!Sources
    <2> PICK recent : recent = LongContext!CompleteSuffix(Own, RecentBudget)
      OBVIOUS
    <2>1. PICK ranked \in LongContext!SetToSeqs(Own \ recent) :
             IF /\ LongContext!ChallengeHolds(
                      LongContext!ToSet(LongContext!Packed(ranked).kept) \cup recent)
                /\ overhead <= OverheadCap
                /\ LongContext!TokensOf(recent) + LongContext!Packed(ranked).used
                      <= HistoryBudget
                /\ LongContext!TokensOf(recent) + LongContext!Packed(ranked).used + overhead
                      <= InputCap
             THEN /\ hybrid' = [recent |-> recent, retrieved |-> LongContext!Packed(ranked).kept]
                  /\ place' = "E"
             ELSE place' = "refused"
      BY <1>4 DEF LongContext!BuildE, LongContext!Refuse, Own
    <2>2. /\ recent \in SUBSET Own /\ LongContext!TokensOf(recent) \in Int
          /\ LongContext!TokensOf(recent) <= RecentBudget
      BY <1>1, SuffixFits, ReplayBounds DEF ReplayBounds
    <2>3. ranked \in Seq(Own)
      <3>1. Own \ recent \in SUBSET Own
        OBVIOUS
      <3> QED
        BY <2>1, <3>1, RankedAreOwn
    <2> PICK packed : packed = LongContext!Packed(ranked)
      OBVIOUS
    <2>4. packed.kept \in Seq(Own) /\ packed.used \in 0 .. RetrievedBudget
      BY <1>1, <2>3, PackedFits
    <2>5. LongContext!ToSet(packed.kept) \in SUBSET Own
      BY <2>4 DEF LongContext!ToSet
    <2>6. /\ LongContext!TokensOf(recent) + packed.used <= HistoryBudget
          /\ LongContext!TokensOf(recent) + packed.used + overhead <= InputCap
      BY <1>1, <2>2, <2>4, ReplayBounds DEF ReplayBounds
    <2>7. LongContext!ChallengeHolds(LongContext!ToSet(packed.kept) \cup recent)
            <=> fault = "none"
      <3>1. LongContext!ToSet(packed.kept) \cup recent \in SUBSET Own
        BY <2>2, <2>5
      <3> QED
        BY <1>1, <1>4, <3>1, HonestPasses, FaultsAreNoticed
    <2>8. CASE fault = "none"
      <3>1. hybrid' = [recent |-> recent, retrieved |-> packed.kept] /\ place' = "E"
        BY <1>1, <2>1, <2>6, <2>7, <2>8
      <3>2. hybrid'.recent = recent /\ LongContext!ToSet(hybrid.retrieved)' \in SUBSET Own
        BY <2>5, <3>1 DEF LongContext!ToSet
      <3> QED
        BY <1>1, <2>8, <3>1, <3>2, SoundStays DEF ReplayInv, LongContext!PreparedIffSound
    <2>9. CASE fault # "none"
      BY <1>2, <2>1, <2>7, <2>9
    <2> QED
      BY <2>8, <2>9
  <1> QED
    BY <1>3, <1>4

\* Where the answer lies, by what B keeps and by the tokens since then.
LEMMA StepHoldsIs ==
    ASSUME ReplayInv, place = "E"
    PROVE  LongContext!StepHolds <=>
             /\ kind # "no evidence" => gold \subseteq Own
             /\ kind = "primary" =>
                  /\ LongContext!TokensOf(Own) \in LeastPrefix .. MostPrefix
                  /\ \A i \in gold : LongContext!TokensOf(LongContext!Since(i)) > HistoryBudget
             /\ kind = "recent" =>
                  \A i \in gold : LongContext!TokensOf(LongContext!Since(i)) <= HistoryBudget
  <1>1. /\ bounded = LongContext!CompleteSuffix(Own, HistoryBudget) /\ bounded \in SUBSET Own
        /\ kind \in {"primary", "recent", "no evidence"} /\ (gold = {} <=> kind = "no evidence")
    BY SuffixFits, ReplayBounds DEF ReplayInv, ReplayBounds
  <1>2. \A i \in Own : /\ i \in bounded
                            <=> LongContext!TokensOf(LongContext!Since(i)) <= HistoryBudget
                       /\ i \notin bounded
                            <=> LongContext!TokensOf(LongContext!Since(i)) > HistoryBudget
    <2> TAKE i \in Own
    <2>1. LongContext!Since(i) \in SUBSET Own
      BY DEF LongContext!Since, Own
    <2>2. LongContext!TokensOf(LongContext!Since(i)) \in Int
      BY <2>1, TokensAreCounted DEF ReplayInv
    <2>3. i \in bounded <=> LongContext!TokensOf(LongContext!Since(i)) <= HistoryBudget
      BY <1>1, SuffixIs, ReplayBounds DEF ReplayInv, ReplayBounds
    <2>4. HistoryBudget \in Int
      BY ReplayBounds DEF ReplayBounds
    <2> QED
      BY <2>2, <2>3, <2>4
  <1>3. CASE kind = "primary"
    BY <1>1, <1>2, <1>3 DEF LongContext!StepHolds, Own
  <1>4. CASE kind = "recent"
    BY <1>1, <1>2, <1>4 DEF LongContext!StepHolds, Own
  <1>5. CASE kind = "no evidence"
    BY <1>1, <1>5 DEF LongContext!StepHolds
  <1> QED
    BY <1>1, <1>3, <1>4, <1>5

LEMMA AuditKeeps == ASSUME ReplayInv, LongContext!Audit PROVE ReplayInv'
  <1>1. /\ fault' = fault /\ kind' = kind /\ size' = size /\ overhead' = overhead
        /\ gold' = gold /\ bounded' = bounded /\ hybrid' = hybrid /\ oracle' = gold \cap Own
        /\ place = "E" /\ fault = "none" /\ overhead <= OverheadCap
        /\ place' \in {"prepared", "refused"}
    BY DEF LongContext!Audit, LongContext!Refuse, LongContext!step, ReplayInv, Own
  <1>2. /\ bounded \in SUBSET Own /\ hybrid.recent \in SUBSET bounded
        /\ LongContext!ToSet(hybrid.retrieved) \in SUBSET Own
    <2>1. bounded \in SUBSET Own /\ hybrid.recent \in SUBSET Own
      BY <1>1, SuffixFits, ReplayBounds DEF ReplayInv, ReplayBounds
    <2>2. ASSUME NEW i \in hybrid.recent PROVE i \in bounded
      <3>1. i \in Own /\ LongContext!TokensOf(LongContext!Since(i)) <= RecentBudget
        BY <1>1, <2>1, SuffixIs, ReplayBounds DEF ReplayInv, ReplayBounds
      <3>2. LongContext!TokensOf(LongContext!Since(i)) \in Int
        <4>1. LongContext!Since(i) \in SUBSET Own
          BY DEF LongContext!Since, Own
        <4> QED
          BY <4>1, TokensAreCounted DEF ReplayInv
      <3>3. LongContext!TokensOf(LongContext!Since(i)) <= HistoryBudget
        BY <3>1, <3>2, ReplayBounds DEF ReplayBounds
      <3> QED
        BY <1>1, <3>1, <3>3, SuffixIs, ReplayBounds DEF ReplayInv, ReplayBounds
    <2> QED
      BY <1>1, <2>1, <2>2 DEF ReplayInv
  <1>3. place' = "prepared" <=>
          LongContext!TokensOf(gold \cap Own) + overhead <= OracleCap /\ LongContext!StepHolds
    BY <1>1, <1>2 DEF LongContext!Audit, LongContext!Refuse, Own
  <1>4. place' = "prepared" <=> LongContext!Sound
    BY <1>1, <1>3, StepHoldsIs DEF LongContext!Sound, Own
  <1>5. place' = "prepared" =>
           /\ kind = "primary" => oracle' # {} /\ oracle' \cap (bounded \cup hybrid.recent) = {}
           /\ kind = "recent" => oracle' # {} /\ oracle' \subseteq bounded
    BY <1>1, <1>2, <1>3 DEF LongContext!StepHolds, Own
  <1>6. LongContext!Sound' <=> LongContext!Sound
    BY <1>1, SoundStays
  <1>7. LongContext!PreparedIffSound'
    BY <1>1, <1>4, <1>5, <1>6 DEF LongContext!PreparedIffSound
  <1> QED
    BY <1>1, <1>7 DEF ReplayInv

LEMMA ReplaysKeep == ASSUME ReplayInv, [LongContext!Next]_replayVars PROVE ReplayInv'
  <1>1. CASE UNCHANGED replayVars
    <2>1. /\ fault' = fault /\ kind' = kind /\ size' = size /\ overhead' = overhead
          /\ gold' = gold /\ place' = place /\ bounded' = bounded /\ hybrid' = hybrid
          /\ oracle' = oracle
      BY <1>1 DEF replayVars
    <2>2. LongContext!ToSet(hybrid.retrieved)' = LongContext!ToSet(hybrid.retrieved)
      BY <2>1 DEF LongContext!ToSet
    <2>3. LongContext!PreparedIffSound' <=> LongContext!PreparedIffSound
      BY <2>1, SoundStays DEF LongContext!PreparedIffSound
    <2> QED
      BY <2>1, <2>2, <2>3, SoundStays DEF ReplayInv
  <1> QED
    BY <1>1, BuildBKeeps, BuildEKeeps, AuditKeeps DEF LongContext!Next

\* Whatever the sizes of the events, the ranking and the budgets: a step of the long context
\* experiment is prepared if it is sound and refused if it is not.  No other budget stops a sound
\* step, each fault of the index is noticed, and B shows the whole answer in a recent step and
\* nothing of it in a primary one (build_bm25_context, validate_isolation_challenge,
\* build_bounded_history, EvaluationStepAudit.__post_init__).
THEOREM PreparationIsSound == ContextSpec => []PreparedIffSound
  <1> DEFINE Inv == part = "replay" => ReplayInv
  <1>1. ContextInit => Inv
    BY ReplaysStart DEF ContextInit
  <1>2. Inv /\ [ContextNext]_contextVars => Inv'
    <2>1. ASSUME [ContextNext]_contextVars
          PROVE  part' = part /\ (part = "replay" => [LongContext!Next]_replayVars)
      BY <2>1 DEF ContextNext, contextVars, PaidNext, paidVars
    <2> QED
      BY <2>1, ReplaysKeep
  <1>3. Inv => PreparedIffSound
    BY DEF PreparedIffSound, ReplayInv, LongContext!PreparedIffSound
  <1> QED
    BY <1>1, <1>2, <1>3, PTL DEF ContextSpec
=============================================================================
