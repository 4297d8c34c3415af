------------------------------ MODULE DualMemory ------------------------------
(***************************************************************************)
(* What an evaluation step of the dual memory experiment is shown.  The    *)
(* events of a conversation are cut into chunks, a profile is calibrated,  *)
(* the chunks are ranked by meaning and by words and fused, the facts a    *)
(* model extracted are filtered by a confidence learned from the           *)
(* development split, a fallback policy is chosen, and the eleven arms are *)
(* composed, each under the same capacity.  The corpus holds the whole     *)
(* conversation, the query and what follows it included.                   *)
(*                                                                         *)
(* Scores are left open: a ranking is any sequence of eligible chunks.  A  *)
(* character counts as a token, and the header of a chunk is left out.     *)
(* F-MSG, which fuses the chunks of messages and not of events, is F-EVT.  *)
(***************************************************************************)
EXTENDS Integers, Sequences, FiniteSets, SequencesExt, FiniteSetsExt

CONSTANTS
    Length,                  \* of each event, by its sequence number
    Query,                   \* the event that asks
    MaxChars, Overlap, MaxChunks,
    Windows, TopK, Depth, Rrf,
    Total, Reserve, SystemCost, SystemTokens, UserCost, QueryTokens, FactCost,
    MemoryCap, Tiers,        \* <<least headroom, share of the facts in percent>>, highest first
    Extracts,                \* what the extractor may find in each event
    GoldFacts,               \* what the dataset says of each event: one fact, or NoGold
    Thresholds

VARIABLES at, pieces, window, query, dense, lexical, facts, threshold, policy, contexts, raised

vars == <<at, pieces, window, query, dense, lexical, facts, threshold, policy, contexts, raised>>

Events == DOMAIN Length
Prefix == 1 .. Query - 1
NoFact == [key |-> "none", value |-> "none", confidence |-> 0, active |-> FALSE]
Arms == <<"A", "B", "C", "D-EVT", "E-EVT", "F-EVT", "G-SEM", "G-ADAPT", "G-FALLBACK", "R">>

Init ==
    /\ at = "cut" /\ pieces = [e \in Events |-> <<>>]
    /\ window = 0 /\ query = {}
    /\ dense = <<>> /\ lexical = <<>>
    /\ facts = [e \in Events |-> NoFact]
    /\ threshold = 0 /\ policy = "none"
    /\ contexts = <<>> /\ raised = "none"

Smaller(a, b) == IF a < b THEN a ELSE b
Larger(a, b) == IF a > b THEN a ELSE b
Cut(s, n) == SubSeq(s, 1, Smaller(Len(s), n))
TokensOf(events) == MapThenSumSet(LAMBDA e : Length[e], events)

\* A set in an order.
InOrder(S, before(_, _)) ==
    CHOOSE s \in SetToSeqs(S) : \A i, j \in DOMAIN s : i < j => before(s[i], s[j])

----------------------------------------------------------------------------
(* build_chunks.                                                            *)

Unfinished(e) ==
    \/ pieces[e] = <<>>
    \/ Last(pieces[e]).to < Length[e] /\ Len(pieces[e]) < MaxChunks
Uncut == {e \in Events : Unfinished(e)}

\* A fragment ends after a separator of its second half, or where it is full.
EndsAfter(start, length) ==
    IF start + MaxChars >= length THEN {length}
    ELSE {b + 1 : b \in {b \in start + MaxChars \div 2 .. start + MaxChars - 1 : b > start}}
           \cup {start + MaxChars}

CutNext ==
    /\ at = "cut" /\ Uncut # {}
    /\ LET e == Min(Uncut)
           from == IF pieces[e] = <<>> THEN 0
                   ELSE Larger(Last(pieces[e]).to - Overlap, Last(pieces[e]).from + 1)
       IN  \E end \in EndsAfter(from, Length[e]) :
              pieces' = [pieces EXCEPT ![e] = Append(@, [from |-> from, to |-> end])]
    /\ UNCHANGED <<at, window, query, dense, lexical, facts, threshold, policy, contexts, raised>>

----------------------------------------------------------------------------
(* The query, the rankings and their fusion.                                *)

ActiveOf(n) == {e \in Prefix : e >= Query - n}

\* The latest events that fit, up to the first that does not.
LatestThatFit(events, budget) ==
    LET suffix(k) == {e \in events : e >= k}
        fitting == {k \in events : TokensOf(suffix(k)) <= budget}
    IN  IF fitting = {} THEN {} ELSE suffix(Min(fitting))

\* The measures that pick the profile are left open.
Calibrate ==
    /\ at = "cut" /\ Uncut = {}
    /\ IF UserCost > QueryTokens
       THEN at' = "invalid" /\ UNCHANGED <<window, query>>
       ELSE \E n \in Windows :
              /\ window' = n
              /\ query' = LatestThatFit(ActiveOf(n), QueryTokens - UserCost)
              /\ at' = "retrieve"
    /\ UNCHANGED <<pieces, dense, lexical, facts, threshold, policy, contexts, raised>>

Chunks == {[event |-> e, ordinal |-> i] : e \in Events, i \in 1 .. MaxChunks}

\* Nothing keeps the query and what follows it out of the rankings.
EligibleEver(c) ==
    c.ordinal <= Len(pieces[c.event]) /\ c.event \notin ActiveOf(window)

Eligible(c) ==
    c.ordinal <= Len(pieces[c.event]) /\ c.event < Query /\ c.event \notin ActiveOf(window)

Rankings ==
    {s \in SetToAllKPermutations({c \in Chunks : Eligible(c)}) : Len(s) <= Depth}

Retrieve ==
    /\ at = "retrieve"
    /\ dense' \in Rankings
    /\ lexical' \in Rankings
    /\ at' = "extract"
    /\ UNCHANGED <<pieces, window, query, facts, threshold, policy, contexts, raised>>

\* 1 / (constant + rank) in each ranking that has the chunk, as one fraction.
RankIn(ranking, c) == CHOOSE i \in 1 .. Len(ranking) : ranking[i] = c
Part(ranking, c) ==
    IF c \in ToSet(ranking) THEN <<1, Rrf + RankIn(ranking, c)>> ELSE <<0, 1>>

Precedes(c, d) == c.event < d.event \/ (c.event = d.event /\ c.ordinal < d.ordinal)

Fused ==
    LET score(c) == LET p == Part(dense, c)  q == Part(lexical, c)
                    IN  <<p[1] * q[2] + q[1] * p[2], p[2] * q[2]>>
        before(c, d) == LET x == score(c)  y == score(d)
                        IN  \/ x[1] * y[2] > y[1] * x[2]
                            \/ x[1] * y[2] = y[1] * x[2] /\ Precedes(c, d)
    IN  Cut(InOrder(ToSet(dense) \cup ToSet(lexical), before), TopK)

----------------------------------------------------------------------------
(* The facts.                                                               *)

Extract ==
    /\ at = "extract"
    /\ \E found \in [Events -> UNION {Extracts[e] : e \in Events}] :
         /\ \A e \in Events : found[e] \in Extracts[e]
         /\ facts' = found
    /\ at' = "threshold"
    /\ UNCHANGED <<pieces, window, query, dense, lexical, threshold, policy, contexts, raised>>

\* semantic_extraction_score: what is found in an event is held against what the dataset says of
\* that event, which allows it or prohibits it.
Found(t) == {e \in Events : facts[e] # NoFact /\ facts[e].confidence >= t}
SaidInGold(e) == facts[e].key = GoldFacts[e].key /\ facts[e].value = GoldFacts[e].value
Gold == {e \in Events : GoldFacts[e].eligible /\ ~GoldFacts[e].prohibited}
Right(t) == {e \in Found(t) \cap Gold : SaidInGold(e)}
Prohibited(t) == {e \in Found(t) : SaidInGold(e) /\ GoldFacts[e].prohibited}

\* f1 and precision, as fractions; a measure without a denominator counts as zero.
F1(t) ==
    LET tp == Cardinality(Right(t))  fp == Cardinality(Found(t) \ Right(t))
    IN  <<2 * tp, Larger(1, tp + fp + Cardinality(Gold))>>
Precision(t) ==
    LET tp == Cardinality(Right(t))  fp == Cardinality(Found(t) \ Right(t))
    IN  <<tp, Larger(1, tp + fp)>>

Better(x, y) == x[1] * y[2] > y[1] * x[2]
Ties(x, y) == x[1] * y[2] = y[1] * x[2]
Preferred(t, u) ==
    \/ Better(F1(t), F1(u))
    \/ Ties(F1(t), F1(u)) /\ Better(Precision(t), Precision(u))
    \/ Ties(F1(t), F1(u)) /\ Ties(Precision(t), Precision(u)) /\ t <= u

Harmless == {t \in Thresholds : Prohibited(t) = {}}

SelectThreshold ==
    /\ at = "threshold"
    /\ IF Harmless = {}
       THEN at' = "invalid" /\ UNCHANGED threshold
       ELSE /\ threshold' = CHOOSE t \in Harmless : \A u \in Harmless : Preferred(t, u)
            /\ at' = "policy"
    /\ UNCHANGED <<pieces, window, query, dense, lexical, facts, policy, contexts, raised>>

\* current_semantic_facts: of each key the latest that is active, sure enough and past.
LatestOf(events, said) ==
    {e \in events : \A later \in events : said[later].key = said[e].key => later <= e}
CurrentFacts ==
    LatestOf({e \in Prefix : facts[e].active /\ facts[e].confidence >= threshold}, facts)

\* The same of curated_facts: what the dataset allows, with confidence one, whatever was extracted.
CuratedFacts == LatestOf({e \in Prefix \cap Gold : GoldFacts[e].active}, GoldFacts)

----------------------------------------------------------------------------
(* The fallback.                                                            *)

Policies == <<"deictic_or_no_result", "deictic_or_no_result_or_retriever_disagreement">>

\* fallback_reasons, of the rankings cut to TopK; no two current facts share a key.
FallsBack(p, deictic) ==
    \/ deictic
    \/ dense = <<>> /\ lexical = <<>>
    \/ /\ p = Policies[2] /\ dense # <<>> /\ lexical # <<>>
       /\ Head(dense).event # Head(lexical).event

\* recall, then precision, then the rate of activation, then the name.
SelectPolicy(deictic, required) ==
    LET measure(p) == LET on == FallsBack(p, deictic)
                      IN  <<IF ~required THEN -1 ELSE IF on THEN 1 ELSE 0,
                            IF ~on THEN -1 ELSE IF required THEN 1 ELSE 0,
                            IF on THEN -1 ELSE 0>>
        first == measure(Policies[1])  second == measure(Policies[2])
        wins == \E i \in 1 .. 3 : /\ second[i] > first[i]
                                  /\ \A j \in 1 .. i - 1 : second[j] = first[j]
    IN  IF wins THEN Policies[2] ELSE Policies[1]

----------------------------------------------------------------------------
(* The contexts.                                                            *)

Headroom ==
    Larger(0, Total - Reserve - SystemTokens - UserCost - TokensOf(ActiveOf(window)))

FactShare ==
    LET tier == Tiers[CHOOSE i \in DOMAIN Tiers :
                        /\ Headroom >= Tiers[i][1]
                        /\ \A j \in 1 .. i - 1 : Headroom < Tiers[j][1]]
    IN  (Smaller(Headroom, MemoryCap) * tier[2]) \div 100

CostOf(c) == pieces[c.event][c.ordinal].to - pieces[c.event][c.ordinal].from

\* Each item that still fits, in order: an item too large does not stop the next.
Fitting(items, cost(_), budget) ==
    FoldLeft(LAMBDA taken, x : IF taken.used + cost(x) <= budget
                               THEN [kept |-> Append(taken.kept, x), used |-> taken.used + cost(x)]
                               ELSE taken,
             [kept |-> <<>>, used |-> 0], items).kept

Adaptive ==
    LET budget == Smaller(Headroom, MemoryCap)
    IN  [semantic |-> ToSet(Fitting(InOrder(CurrentFacts, >), LAMBDA e : FactCost, FactShare)),
         episodic |-> Fitting(Fused, CostOf, budget - FactShare)]

\* What _contexts passes to compose_input for each arm.
Offered(arm) ==
    CASE arm = "D-EVT" -> [episodic |-> Cut(dense, TopK), semantic |-> {}]
      [] arm = "E-EVT" -> [episodic |-> Cut(lexical, TopK), semantic |-> {}]
      [] arm = "F-EVT" -> [episodic |-> Fused, semantic |-> {}]
      [] arm = "G-SEM" -> [episodic |-> Fused, semantic |-> CurrentFacts]
      [] arm \in {"G-ADAPT", "G-FALLBACK"} -> Adaptive
      [] arm = "R" -> [episodic |-> Cut(dense, TopK), semantic |-> CuratedFacts]
      [] OTHER -> [episodic |-> <<>>, semantic |-> {}]

\* The chunks of events that are not shown already.
Unshown(items, active) ==
    FoldLeft(LAMBDA kept, c : IF c.event \in active THEN kept ELSE Append(kept, c), <<>>, items)

compose_input(arm, fallback) ==
    LET whole == arm = "B" \/ (arm = "G-FALLBACK" /\ fallback)
        active == IF arm = "A" THEN {}
                  ELSE IF whole
                  THEN LatestThatFit(Prefix, Total - SystemCost - UserCost - Reserve)
                  ELSE ActiveOf(window)
        episodic == IF whole THEN <<>>
                    ELSE Unshown(Offered(arm).episodic, active)
        semantic == IF whole THEN {} ELSE Offered(arm).semantic
    IN  [arm |-> arm, active |-> active, episodic |-> episodic, semantic |-> semantic,
         tokens |-> SystemCost + UserCost + TokensOf(active)
                      + FoldLeft(LAMBDA n, c : n + CostOf(c), 0, episodic)
                      + FactCost * Cardinality(semantic)]

\* One policy for the step, then its arms in order: the first that is too large raises.
Compose(deictic, required) ==
    /\ at = "policy"
    /\ policy' = SelectPolicy(deictic, required)
    /\ LET composed == [i \in 1 .. Len(Arms) |->
                          compose_input(Arms[i], FallsBack(policy', deictic))]
           over == {i \in 1 .. Len(Arms) : composed[i].tokens + Reserve > Total}
       IN  IF over = {}
           THEN contexts' = composed /\ at' = "composed" /\ UNCHANGED raised
           ELSE raised' = Arms[Min(over)] /\ at' = "invalid" /\ UNCHANGED contexts
    /\ UNCHANGED <<pieces, window, query, dense, lexical, facts, threshold>>

Next ==
    \/ CutNext \/ Calibrate \/ Retrieve \/ Extract \/ SelectThreshold
    \/ \E deictic, required \in BOOLEAN : Compose(deictic, required)

----------------------------------------------------------------------------

(* No arm is shown the answer: what reaches a context comes from before    *)
(* the query, no remembered chunk is of an event shown in full, and no     *)
(* fact among those shown is one the dataset prohibits of its event,       *)
(* although the extractor reads every event and the corpus holds every     *)
(* chunk (_eligible, current_semantic_facts, curated_facts,                *)
(* _select_confidence_threshold).  The facts of arm R are the dataset's,   *)
(* those of the others the extractor's.                                    *)
NothingLeaks ==
    \A i \in DOMAIN contexts :
        LET c == contexts[i]
            remembered == {x.event : x \in ToSet(c.episodic)}
        IN  /\ c.active \cup remembered \cup c.semantic \subseteq Prefix
            /\ c.active \cap remembered = {}
            /\ \A e \in c.semantic :
                 GoldFacts[e].prohibited => c.arm # "R" /\ ~SaidInGold(e)
=============================================================================
