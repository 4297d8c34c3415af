---------------------------- MODULE EpisodicMemory ----------------------------
(***************************************************************************)
(* One execution of the episodic memory experiment, from the texts that    *)
(* are embedded up front to the cost ledgers written after the last paid   *)
(* call.  Every stage recomputes the chunks, queries and contexts it needs *)
(* from the conversation and looks its texts up among those embedded:      *)
(* the candidates are calibrated on the steps to evaluate, answers are     *)
(* generated for those steps, and the ledgers replay every exchange.       *)
(*                                                                         *)
(* An exchange is a user message and the assistant's reply.  Similarities  *)
(* are left open, and so is the text, up to where a chunk may end.  A      *)
(* character counts as a token.  One arm with memory runs at a time: the   *)
(* arms share nothing but the vectors.                                     *)
(***************************************************************************)
EXTENDS Integers, Sequences, FiniteSets, SequencesExt, FiniteSetsExt

CONSTANTS
    Length,                    \* of each message, by its sequence number
    Breaks,                    \* the offsets at which a text may have a separator
    Evaluated,                 \* the exchanges whose question is an evaluation step
    Candidates,                \* [chars, overlap, window] to calibrate
    Frozen,                    \* the candidate a held-out run is registered with
    Variants,                  \* the queries: "D1" is the question alone
    MaxChunks, MaxPerSource, TopK,
    MaxRanked,                 \* bound: the chunks above the threshold
    Total, SystemCost, ConversationTokens, ActiveTokens, EpisodicTokens, Reserve,
    HeaderCost, LineCost,      \* of the memory message and of each of its records
    QueryTokens, QueryCost     \* what a query may cost, and its framing

VARIABLES
    phase,       \* "development" or "heldout"
    variant,     \* the arm with memory
    separators,  \* the offsets of each message a chunk may end at
    at,          \* the stage
    embedded,    \* the texts that have a vector
    chosen,      \* the selected candidate
    ranking,     \* of each exchange, the chunks by similarity to its query: none at first
    paid,        \* the exchanges that were generated
    costs,       \* cumulative, of each arm
    break_even,  \* the exchange from which memory is never dearer: 0 for none
    failure

vars == <<phase, variant, separators, at, embedded, chosen, ranking, paid, costs, break_even,
          failure>>
conversation == <<phase, variant, separators>>

Messages == DOMAIN Length
Exchanges == 1 .. Len(Length) \div 2
Question(k) == 2 * k - 1
Prefix(k) == 1 .. Question(k) - 1
NoCandidate == [chars |-> 0, overlap |-> 0, window |-> 0]

Init ==
    /\ phase \in {"development", "heldout"}
    /\ variant \in Variants
    /\ \E s \in SUBSET Breaks : separators = [m \in Messages |-> s \cap 1 .. Length[m] - 1]
    /\ at = "collect" /\ embedded = {} /\ chosen = NoCandidate
    /\ ranking = [k \in Exchanges |-> {}]
    /\ paid = {} /\ costs = [memory |-> <<>>, history |-> <<>>]
    /\ break_even = 0 /\ failure = "none"

Run == IF phase = "development" THEN Candidates ELSE {Frozen}

Fail(why) == at' = "failed" /\ failure' = why

----------------------------------------------------------------------------
(* chunk_message.                                                           *)

\* The last separator of the last quarter, or where the chunk is full.
EndOf(m, from, c) ==
    LET full == from + c.chars
        floor == from + Max({1, (c.chars * 3) \div 4})
        breaks == {b \in separators[m] : floor <= b /\ b < full}
    IN  IF full >= Length[m] THEN Length[m]
        ELSE IF breaks = {} THEN full ELSE Max(breaks)

\* Each next chunk starts back by the overlap, unless that is no progress.
Fragments(m, c) ==
    LET first == [from |-> 0, to |-> EndOf(m, 0, c)]
        start(f) == IF f.to - c.overlap > f.from THEN f.to - c.overlap ELSE f.to
        upto[n \in 1 .. MaxChunks] ==
            IF n = 1 THEN <<first>>
            ELSE LET f == Last(upto[n - 1])
                 IN  IF Len(upto[n - 1]) < n - 1 \/ f.to >= Length[m] THEN upto[n - 1]
                     ELSE Append(upto[n - 1],
                                 [from |-> start(f), to |-> EndOf(m, start(f), c)])
    IN  upto[MaxChunks]

ChunkText(m, f) == <<"chunk", m, f.from, f.to>>
ChunkTexts(messages, c) ==
    UNION {{ChunkText(m, f) : f \in ToSet(Fragments(m, c))} : m \in messages}

----------------------------------------------------------------------------
(* fit_latest_messages and build_memory_query.                              *)

TokensOf(messages) == MapThenSumSet(LAMBDA m : Length[m], messages)

LatestThatFit(messages, budget, most) ==
    LET suffix(k) == {m \in messages : m >= k}
        fits(k) == TokensOf(suffix(k)) <= budget /\ Cardinality(suffix(k)) <= most
        fitting == {k \in messages : fits(k)}
    IN  IF fitting = {} THEN {} ELSE suffix(Min(fitting))

Active(k, window) == LatestThatFit(Prefix(k), ActiveTokens, window)

\* The recent messages that leave room for the question; no query if it is too long itself.
MemoryQuery(v, k, window) ==
    LET own == Length[Question(k)] + IF v = "D1" THEN 0 ELSE QueryCost
    IN  IF own > QueryTokens THEN <<>>
        ELSE <<"query", v, k,
               IF v = "D1" THEN {}
               ELSE LatestThatFit(Active(k, window), QueryTokens - own, Len(Length))>>

QueryTexts(v, k, window) == {MemoryQuery(v, k, window)} \ {<<>>}

\* The tokens of the query, which costs nothing when there is none.
QueryTokensOf(v, k, window) ==
    LET q == MemoryQuery(v, k, window)
    IN  IF q = <<>> THEN 0
        ELSE Length[Question(k)] + TokensOf(q[4]) + IF v = "D1" THEN 0 ELSE QueryCost

----------------------------------------------------------------------------
(* collect_embedding_texts and embed_texts.                                 *)

\* The queries of one window only, as the chunks of one are those of all.
WindowsOnce(run) == {Min({c.window : c \in run})}

WindowsOf(run) == {c.window : c \in run}

Collected ==
    (UNION {ChunkTexts(Messages, c) : c \in Run})
      \cup (UNION {QueryTexts(v, k, w) : v \in Variants, k \in Exchanges, w \in WindowsOf(Run)})

Embed ==
    /\ at = "collect"
    /\ \/ embedded' = Collected /\ at' = "calibrate" /\ UNCHANGED failure
       \/ Fail("embedding") /\ UNCHANGED embedded
    /\ UNCHANGED <<conversation, chosen, ranking, paid, costs, break_even>>

----------------------------------------------------------------------------
(* evaluate_candidate and select_candidate.                                 *)

Needed(c, k) == ChunkTexts(Prefix(k), c) \cup QueryTexts(variant, k, c.window)

\* The measures are left open: any candidate may be the best, or none safe enough.
Calibrate ==
    /\ at = "calibrate"
    /\ IF \E c \in Run, k \in Evaluated : ~(Needed(c, k) \subseteq embedded)
       THEN Fail("missing vector") /\ UNCHANGED chosen
       ELSE \/ /\ chosen' \in Run
               /\ at' = "generate"
               /\ UNCHANGED failure
            \/ phase = "development" /\ Fail("no safe candidate") /\ UNCHANGED chosen
    /\ UNCHANGED <<conversation, embedded, ranking, paid, costs, break_even>>

----------------------------------------------------------------------------
(* _contexts_for_step.                                                      *)

Chunks(k) ==
    UNION {{[message |-> m, range |-> f] : f \in ToSet(Fragments(m, chosen))} : m \in Prefix(k)}

\* search: those above the threshold, by similarity, a few of a message, a few in all.
Rankings(k) ==
    IF MemoryQuery(variant, k, chosen.window) = <<>> THEN {<<>>}
    ELSE LET eligible == {x \in Chunks(k) : x.message \notin Active(k, chosen.window)}
         IN  UNION {SetToSeqs(S) : S \in UNION {kSubset(n, eligible) : n \in 0 .. MaxRanked}}

Selected(ranked) ==
    FoldLeft(LAMBDA kept, x :
                IF \/ Len(kept) >= TopK
                   \/ Cardinality({i \in DOMAIN kept : kept[i].message = x.message})
                        >= MaxPerSource
                THEN kept ELSE Append(kept, x),
             <<>>, ranked)

Earlier(x, y) ==
    x.message < y.message \/ (x.message = y.message /\ x.range.from < y.range.from)

\* A set of chunks in the order of the conversation.
Chronological(chunks) ==
    CHOOSE s \in SetToSeqs(chunks) : \A i, j \in DOMAIN s : i < j => Earlier(s[i], s[j])

LineOf(x) == LineCost + x.range.to - x.range.from

\* Every record that still fits, in order: one too long does not stop the next.
FittingMemory(results) ==
    FoldLeft(LAMBDA taken, x : IF taken.used + LineOf(x) > EpisodicTokens THEN taken
                               ELSE [kept |-> Append(taken.kept, x), used |-> taken.used + LineOf(x)],
             [kept |-> <<>>, used |-> 0], results).kept

MemoryCost(records) ==
    IF records = <<>> THEN 0
    ELSE HeaderCost + FoldLeft(LAMBDA n, x : n + LineOf(x), 0, records)

\* compose_context: what is shown, and what it costs.
compose_context(arm, k, ranked) ==
    LET active == CASE arm = "A" -> {}
                    [] arm = "B" -> LatestThatFit(Prefix(k), ConversationTokens, Len(Length))
                    [] arm = "C" -> LatestThatFit(Prefix(k), ConversationTokens, chosen.window)
                    [] OTHER -> Active(k, chosen.window)
        records == IF arm \in {"A", "B", "C"} THEN <<>>
                   ELSE FittingMemory(Chronological(
                          {x \in ToSet(Selected(ranked)) : x.message \notin active}))
    IN  [active |-> active, records |-> records,
         tokens |-> SystemCost + MemoryCost(records) + TokensOf(active) + Length[Question(k)]]

Fits(k, ranked) ==
    \A arm \in {"A", "B", "C", variant} :
        compose_context(arm, k, ranked).tokens + Reserve <= Total

\* The order of a query is the same whenever it is asked.
RankingsFrom(k) == IF ranking[k] = {} THEN Rankings(k) ELSE ranking[k]

----------------------------------------------------------------------------
(* run_managed_generation, build_cost_ledgers and compute_break_even.       *)

Generate ==
    /\ at = "generate" /\ Evaluated \ paid # {}
    /\ LET k == Min(Evaluated \ paid)
       IN  IF ~(Needed(chosen, k) \subseteq embedded)
           THEN Fail("missing vector") /\ UNCHANGED <<ranking, paid>>
           ELSE \E ranked \in RankingsFrom(k) :
                  /\ ranking' = [ranking EXCEPT ![k] = {ranked}]
                  /\ \/ Fits(k, ranked) /\ paid' = paid \cup {k} /\ UNCHANGED <<at, failure>>
                     \/ Fits(k, ranked) /\ Fail("provider") /\ UNCHANGED paid
                     \/ ~Fits(k, ranked) /\ Fail("capacity") /\ UNCHANGED paid
    /\ UNCHANGED <<conversation, embedded, chosen, costs, break_even>>

Generated ==
    /\ at = "generate" /\ Evaluated \subseteq paid
    /\ at' = "ledger"
    /\ UNCHANGED <<conversation, embedded, chosen, ranking, paid, costs, break_even, failure>>

Total0(s) == IF s = <<>> THEN 0 ELSE Last(s)

\* An exchange is charged with indexing its two messages, its query and its answer.
StepCost(arm, k, ranked) ==
    LET index == UNION {{<<m, f>> : f \in ToSet(Fragments(m, chosen))} : m \in {Question(k), 2 * k}}
        generation == compose_context(arm, k, ranked).tokens + Length[2 * k]
    IN  IF arm = "B" THEN generation
        ELSE generation + QueryTokensOf(variant, k, chosen.window)
               + MapThenSumSet(LAMBDA x : x[2].to - x[2].from, index)

Charge ==
    /\ at = "ledger" /\ Len(costs.memory) < Cardinality(Exchanges)
    /\ LET k == Len(costs.memory) + 1
       IN  IF ~(Needed(chosen, k) \subseteq embedded)
           THEN Fail("missing vector") /\ UNCHANGED <<ranking, costs>>
           ELSE \E ranked \in RankingsFrom(k) :
                  /\ ranking' = [ranking EXCEPT ![k] = {ranked}]
                  /\ IF Fits(k, ranked)
                     THEN /\ costs' =
                               [memory |-> Append(costs.memory, Total0(costs.memory)
                                                     + StepCost(variant, k, ranked)),
                                history |-> Append(costs.history, Total0(costs.history)
                                                     + StepCost("B", k, ranked))]
                          /\ UNCHANGED <<at, failure>>
                     ELSE Fail("capacity") /\ UNCHANGED costs
    /\ UNCHANGED <<conversation, embedded, chosen, paid, break_even>>

\* The exchanges from which memory is never dearer.
NeverDearer ==
    {k \in Exchanges : \A j \in Exchanges : j >= k => costs.memory[j] <= costs.history[j]}

Finish ==
    /\ at = "ledger" /\ Len(costs.memory) = Cardinality(Exchanges)
    /\ break_even' = IF NeverDearer = {} THEN 0 ELSE Min(NeverDearer)
    /\ at' = "done"
    /\ UNCHANGED <<conversation, embedded, chosen, ranking, paid, costs, failure>>

Next == Embed \/ Calibrate \/ Generate \/ Generated \/ Charge \/ Finish

----------------------------------------------------------------------------

(* What is checked before money is spent stays true after it: no stage     *)
(* looks up a text that was not embedded, and no context of any exchange,  *)
(* evaluated or only charged in the ledgers, exceeds the registered        *)
(* capacity (collect_embedding_texts, compose_context, build_cost_ledgers).*)
(* It speaks of data that meet QuestionsFit of Contexts: the code does not *)
(* check that a question leaves room, and a longer one fails late.         *)
NothingFailsLate == failure \notin {"missing vector", "capacity"}

=============================================================================
