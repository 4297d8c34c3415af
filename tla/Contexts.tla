------------------------------ MODULE Contexts ------------------------------
(***************************************************************************)
(* What the experiments with memories show a model, beside what those that *)
(* pay for it keep on file: the arms of the dual memory, of the episodic   *)
(* memory and of the long context.  Each behaviour is one of one           *)
(* experiment, which leaves the variables of the others idle.              *)
(***************************************************************************)
EXTENDS Experiments, Sequences, FiniteSets

CONSTANTS
    DualSettings,        \* the constants of DualMemory, by name
    EpisodicSettings,    \* those of EpisodicMemory
    \* Replay
    LastEvent, Sizes, Overheads, HistoryBudget, RecentBudget, RetrievedBudget, TopEvents,
    OverheadCap, InputCap, OracleCap, LeastPrefix, MostPrefix

\* The query is an event of the conversation; a context holds finitely many chunks and
\* the threshold is one of finitely many (build_chunks, _select_confidence_threshold).
ASSUME DualBounds ==
    /\ DualSettings.Length \in Seq(Nat) /\ DualSettings.Query \in DOMAIN DualSettings.Length
    /\ DualSettings.MaxChars \in Nat /\ DualSettings.Overlap \in Nat
    /\ DualSettings.MaxChunks \in Nat /\ DualSettings.TopK \in Nat
    /\ DualSettings.Rrf \in Nat /\ DualSettings.FactCost \in Nat
    /\ DualSettings.Windows \subseteq Nat
    /\ DualSettings.Thresholds \subseteq Int /\ IsFiniteSet(DualSettings.Thresholds)

\* ContextBudgets.validate: the memory fits into the share of the conversation; and a grid cell
\* overlaps by less than a chunk.
ASSUME EpisodicBounds ==
    /\ EpisodicSettings.Length \in Seq(Nat)
    /\ EpisodicSettings.Evaluated \subseteq 1 .. Len(EpisodicSettings.Length) \div 2
    /\ EpisodicSettings.MaxChunks \in Nat \ {0}
    /\ \A c \in EpisodicSettings.Candidates \cup {EpisodicSettings.Frozen} :
          c.chars \in Nat \ {0} /\ c.overlap \in 0 .. c.chars - 1
    /\ EpisodicSettings.SystemCost \in Nat /\ EpisodicSettings.HeaderCost \in Nat
    /\ EpisodicSettings.LineCost \in Nat /\ EpisodicSettings.ActiveTokens \in Nat
    /\ EpisodicSettings.EpisodicTokens \in Nat /\ EpisodicSettings.ConversationTokens \in Nat
    /\ EpisodicSettings.Reserve \in Nat /\ EpisodicSettings.Total \in Nat
    /\ EpisodicSettings.ActiveTokens + EpisodicSettings.EpisodicTokens
          <= EpisodicSettings.ConversationTokens

\* The budgets of the long context arms, which fit into each other (replay.py, _ARM_INPUT_CAPS).
ASSUME ReplayBounds ==
    /\ LastEvent \in Nat \ {0} /\ Sizes \subseteq Nat /\ Overheads \subseteq Nat
    /\ HistoryBudget \in Nat /\ RecentBudget \in Nat /\ RetrievedBudget \in Nat
    /\ TopEvents \in Nat /\ OverheadCap \in Nat /\ InputCap \in Nat /\ OracleCap \in Nat
    /\ RecentBudget + RetrievedBudget <= HistoryBudget
    /\ HistoryBudget + OverheadCap <= InputCap

VARIABLES
    stage, pieces, window, query, dense, lexical, facts, threshold, policy, contexts, raised,
    split, variant, separators, step, embedded, chosen, ranking, paid, costs, break_even,
    refusal,
    fault, kind, size, overhead, gold, place, bounded, hybrid, oracle

memoryVars == <<stage, pieces, window, query, dense, lexical, facts, threshold, policy,
    contexts, raised>>
episodicVars == <<split, variant, separators, step, embedded, chosen, ranking, paid, costs,
    break_even, refusal>>
replayVars == <<fault, kind, size, overhead, gold, place, bounded, hybrid, oracle>>

----------------------------------------------------------------------------

Memory == INSTANCE DualMemory WITH
    at <- stage,
    Length <- DualSettings.Length, Query <- DualSettings.Query,
    MaxChars <- DualSettings.MaxChars, Overlap <- DualSettings.Overlap,
    MaxChunks <- DualSettings.MaxChunks, Windows <- DualSettings.Windows,
    TopK <- DualSettings.TopK, Depth <- DualSettings.Depth, Rrf <- DualSettings.Rrf,
    Total <- DualSettings.Total, Reserve <- DualSettings.Reserve,
    SystemCost <- DualSettings.SystemCost, SystemTokens <- DualSettings.SystemTokens,
    UserCost <- DualSettings.UserCost, QueryTokens <- DualSettings.QueryTokens,
    FactCost <- DualSettings.FactCost, MemoryCap <- DualSettings.MemoryCap,
    Tiers <- DualSettings.Tiers, Extracts <- DualSettings.Extracts,
    GoldFacts <- DualSettings.GoldFacts, Thresholds <- DualSettings.Thresholds

Episodic == INSTANCE EpisodicMemory WITH
    phase <- split, at <- step, failure <- refusal,
    Length <- EpisodicSettings.Length, Breaks <- EpisodicSettings.Breaks,
    Evaluated <- EpisodicSettings.Evaluated, Candidates <- EpisodicSettings.Candidates,
    Frozen <- EpisodicSettings.Frozen, Variants <- EpisodicSettings.Variants,
    MaxChunks <- EpisodicSettings.MaxChunks, MaxPerSource <- EpisodicSettings.MaxPerSource,
    TopK <- EpisodicSettings.TopK, MaxRanked <- EpisodicSettings.MaxRanked,
    Total <- EpisodicSettings.Total, SystemCost <- EpisodicSettings.SystemCost,
    ConversationTokens <- EpisodicSettings.ConversationTokens,
    ActiveTokens <- EpisodicSettings.ActiveTokens,
    EpisodicTokens <- EpisodicSettings.EpisodicTokens, Reserve <- EpisodicSettings.Reserve,
    HeaderCost <- EpisodicSettings.HeaderCost, LineCost <- EpisodicSettings.LineCost,
    QueryTokens <- EpisodicSettings.QueryTokens, QueryCost <- EpisodicSettings.QueryCost

LongContext == INSTANCE Replay WITH
    at <- place, b <- bounded, e <- hybrid

\* A question fits beside the instructions, the reserve and a full share of the conversation, as
\* ContextBudgets.validate asks of its allotted size; or what was said before it is short.  Nothing
\* in the code checks this of the questions; those of both registered data sets satisfy it.
ASSUME QuestionsFit ==
    \A k \in Episodic!Exchanges :
        LET needed == EpisodicSettings.SystemCost + EpisodicSettings.HeaderCost
                        + EpisodicSettings.Length[Episodic!Question(k)] + EpisodicSettings.Reserve
        IN  \/ needed + EpisodicSettings.ConversationTokens <= EpisodicSettings.Total
            \/ needed + EpisodicSettings.EpisodicTokens + Episodic!TokensOf(Episodic!Prefix(k))
                 <= EpisodicSettings.Total

----------------------------------------------------------------------------

memoryIdle ==
    /\ stage = 0 /\ pieces = 0 /\ window = 0 /\ query = 0 /\ dense = 0 /\ lexical = 0
    /\ facts = 0 /\ threshold = 0 /\ policy = 0 /\ contexts = 0 /\ raised = 0
episodicIdle ==
    /\ split = 0 /\ variant = 0 /\ separators = 0 /\ step = 0 /\ embedded = 0 /\ chosen = 0
    /\ ranking = 0 /\ paid = 0 /\ costs = 0 /\ break_even = 0 /\ refusal = 0
replayIdle ==
    /\ fault = 0 /\ kind = 0 /\ size = 0 /\ overhead = 0 /\ gold = 0 /\ place = 0
    /\ bounded = 0 /\ hybrid = 0 /\ oracle = 0

ContextParts == PaidParts \cup {"memory", "episodic", "replay"}

ContextInit ==
    /\ PaidInit
    /\ IF part = "memory" THEN Memory!Init ELSE memoryIdle
    /\ IF part = "episodic" THEN Episodic!Init ELSE episodicIdle
    /\ IF part = "replay" THEN LongContext!Init ELSE replayIdle

ContextNext ==
    /\ PaidNext
    /\ IF part = "memory" THEN Memory!Next ELSE UNCHANGED memoryVars
    /\ IF part = "episodic" THEN Episodic!Next ELSE UNCHANGED episodicVars
    /\ IF part = "replay" THEN LongContext!Next ELSE UNCHANGED replayVars

contextVars == <<paidVars, memoryVars, episodicVars, replayVars>>

ContextSpec == part \in ContextParts /\ ContextInit /\ [][ContextNext]_contextVars

----------------------------------------------------------------------------
(* Each property is stated with its experiment.                             *)

\* No arm of the dual memory experiment is shown the query, what follows it, a remembered chunk of an
\* event shown in full, or a fact prohibited of its event (_eligible, current_semantic_facts,
\* curated_facts, _select_confidence_threshold).
NothingLeaks == part = "memory" => Memory!NothingLeaks

\* After the first paid call no text is missing its vector and no context exceeds the capacity, if
\* QuestionsFit, which the code takes for granted (collect_embedding_texts, build_cost_ledgers).
NothingFailsLate == part = "episodic" => Episodic!NothingFailsLate

\* A step of the long context experiment is prepared if it is sound and refused if it is not, and
\* the arms of a prepared one differ as its kind says (build_bm25_context,
\* validate_isolation_challenge, EvaluationStepAudit.__post_init__).
PreparedIffSound == part = "replay" => LongContext!PreparedIffSound
=============================================================================
