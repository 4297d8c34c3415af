---------------------------- MODULE PromptBudget ----------------------------
(***************************************************************************)
(* The character budget of a prompt's added context.  Three contributors    *)
(* compete for it: turns of the recent window and events retrieved from     *)
(* outside of it (get_chat_memory_context), and documental sources          *)
(* (get_chat_rag_context).  The memory dependency bounds its own channel;   *)
(* the route then enforces the cap over all three and overrides what the    *)
(* dependency reported.  Texts are their lengths.                           *)
(***************************************************************************)
EXTENDS Integers, SequencesExt

CONSTANTS
    Lengths,     \* lengths of messages, events and sources
    MaxItems,    \* bound: turns and sources of a request
    MaxEvents,   \* bound: events outside of the window
    Caps,        \* values of chat_prompt_max_added_context_chars
    Messages,    \* lengths of the user's message
    TopK,        \* BM25_TOP_K
    Envelope,    \* characters of a rendered block without items
    PerItem      \* characters a rendered item has around its content

ASSUME BudgetBounds ==
    /\ Lengths \subseteq Nat \ {0} /\ Messages \subseteq Nat \ {0}
    /\ Caps \subseteq Nat \ {0}   \* the settings refuse a cap that is not positive
    /\ MaxItems \in Nat /\ MaxEvents \in Nat /\ TopK \in Nat \ {0}
    /\ Envelope \in Nat /\ PerItem \in Nat

Items == BoundedSeq(Lengths, MaxItems)
Turns == BoundedSeq(Lengths \X Lengths, MaxItems)   \* <<user, assistant>>

Inputs ==
    [cap     : Caps,
     message : Messages,
     read    : BOOLEAN,   \* the memory channel is on and its read succeeds
     turns   : Turns,     \* the materialized window
     cut     : BOOLEAN,   \* the window has fewer rows than were read
     corpus  : BoundedSeq(Lengths, MaxEvents),  \* the turns outside of it, as BM25 ranks them
     docs    : Items,     \* what the documental channel found
     ebm25   : BOOLEAN]   \* ebm25_enabled

VARIABLES
    input,
    at,             \* the point the request has reached
    window,         \* memory_context.messages, as turns
    evidence,       \* memory_context.retrieved_events, in selection order
    sources,        \* rag_context.sources
    truncated,      \* memory_context.truncated: history_truncated of the metrics row
    outcome,        \* memory_outcome of the metrics row
    selected_count  \* ebm25_selected_count of the metrics row; -1 is NULL

vars == <<input, at, window, evidence, sources, truncated, outcome, selected_count>>

Init ==
    /\ input \in Inputs
    /\ input.corpus # <<>> => input.cut
    /\ at = "memory"
    /\ window = <<>> /\ evidence = <<>>
    /\ sources = input.docs
    /\ truncated = FALSE
    /\ outcome = "null"
    /\ selected_count = -1

----------------------------------------------------------------------------
(* Measures.                                                                *)

Total(lengths) == FoldLeft(LAMBDA a, b : a + b, 0, lengths)

\* A window has no envelope.
Chars(turns) == FoldLeft(LAMBDA a, t : a + t[1] + t[2], 0, turns)

\* render_rag_sources_block and render_memory_events_block: nothing for no items, and a
\* fixed text with a JSON list else.
Rendered(items) ==
    IF items = <<>> THEN 0 ELSE Envelope + Total(items) + PerItem * Len(items)

AddedContext(s, w, e) == Rendered(s) + Chars(w) + Rendered(e)

Smaller(a, b) == IF a < b THEN a ELSE b

----------------------------------------------------------------------------
(* pack_recent_window.                                                      *)

\* The user's message first, and then what is left of the budget for the answer.
TruncateTurn(turn, budget) ==
    LET user == Smaller(turn[1], budget)
    IN  <<user, Smaller(turn[2], budget - user)>>

\* Drops the newest turns.
PackFromTheStart(turns, budget) ==
    LET fitting == {n \in 1..Len(turns) : Chars(SubSeq(turns, 1, n)) <= budget}
    IN  IF budget <= 0 \/ fitting = {} THEN <<>> ELSE SubSeq(turns, 1, Max(fitting))

\* Drops whole turns from the old end, and truncates the last one if it does not fit.
Pack(turns, budget) ==
    LET fitting == {n \in 1..Len(turns) : Chars(SubSeq(turns, n, Len(turns))) <= budget}
    IN  IF budget <= 0 \/ turns = <<>> THEN <<>>
        ELSE IF fitting = {} THEN <<TruncateTurn(Last(turns), budget)>>
        ELSE SubSeq(turns, Min(fitting), Len(turns))

----------------------------------------------------------------------------
(* get_chat_memory_context.                                                 *)

\* The channel is off, the turn is the first, or the read failed: no memory.
NoMemory ==
    /\ at = "memory"
    /\ ~input.read
    /\ outcome' \in {"null", "skipped_first_turn", "conversation_not_found", "timeout", "error"}
    /\ at' = "cap"
    /\ UNCHANGED <<input, window, evidence, sources, truncated, selected_count>>

\* The window is read and bounded on its own.
AssembleWindow ==
    /\ at = "memory"
    /\ input.read
    /\ window' = Pack(input.turns, input.cap)
    /\ truncated' = (input.cut \/ window' # input.turns)
    /\ at' = "mode_b"
    /\ UNCHANGED <<input, evidence, sources, outcome, selected_count>>

\* The outcome of Mode B goes over a window that was trimmed.
MemoryOutcomeOfModeB(mode_b) ==
    IF mode_b # "none" THEN mode_b
    ELSE IF window # input.turns THEN "budget_starved"
    ELSE IF window = <<>> THEN "empty" ELSE "ok"

\* A trimmed window is reported first, then what Mode B found, if it ran.
MemoryOutcome(mode_b) ==
    IF window # input.turns THEN "budget_starved"
    ELSE IF mode_b # "none" THEN mode_b
    ELSE IF window = <<>> THEN "empty" ELSE "ok"

\* pack_selected_events: in ranked order, an event that does not fit is skipped.
Select(ranked, budget) ==
    LET accept(accepted, size) ==
            IF Len(accepted) < TopK /\ size <= budget - Total(accepted)
            THEN Append(accepted, size) ELSE accepted
    IN  FoldLeft(accept, <<>>, ranked)

WithoutModeB ==
    /\ at = "mode_b"
    /\ ~input.ebm25
    /\ outcome' = MemoryOutcome("none")
    /\ at' = "cap"
    /\ UNCHANGED <<input, window, evidence, sources, truncated, selected_count>>

\* Nothing outside of the window, or ranking raised.
ModeBFindsNothing ==
    /\ at = "mode_b"
    /\ input.ebm25
    /\ outcome' = MemoryOutcome(IF input.corpus = <<>> THEN "no_out_of_window_corpus" ELSE "error")
    /\ selected_count' = 0
    /\ at' = "cap"
    /\ UNCHANGED <<input, window, evidence, sources, truncated>>

\* The window keeps its share; the events get what is left of the cap.
ModeBSelects ==
    /\ at = "mode_b"
    /\ input.ebm25 /\ input.corpus # <<>>
    /\ evidence' = Select(input.corpus, input.cap - Chars(window))
    /\ selected_count' = Len(evidence')
    /\ outcome' = MemoryOutcome(IF evidence' = <<>> THEN "budget_starved" ELSE "none")
    /\ at' = "cap"
    /\ UNCHANGED <<input, window, sources, truncated>>

----------------------------------------------------------------------------
(* enforce_added_context_cap, and the route that records what it overrides.  *)

\* Items are dropped from the tail, until one of these lengths is reached.
Prefix(items, lengths) == SubSeq(items, 1, Max({0} \cup lengths))

KeptEvidence ==
    Prefix(evidence, {n \in 1..Len(evidence) :
                        AddedContext(sources, window, SubSeq(evidence, 1, n)) <= input.cap})

\* Reserves the contents of the other contributors, without what renders them.
KeptWindowRaw(e) ==
    IF AddedContext(sources, window, e) <= input.cap THEN window
    ELSE Pack(window, input.cap - (Total(sources) + Total(e)))

\* The window has what the surviving evidence and the sources leave of the cap.
KeptWindow(e) ==
    IF AddedContext(sources, window, e) <= input.cap THEN window
    ELSE Pack(window, input.cap - (Rendered(sources) + Rendered(e)))

KeptSources(w, e) ==
    Prefix(sources, {n \in 1..Len(sources) :
                       AddedContext(SubSeq(sources, 1, n), w, e) <= input.cap})

\* An earlier version: only evidence counts.
EvidenceReduced(s, w, e) == Len(e) < Len(evidence)

\* The override is about what the cap did, measured.
Reduced(s, w, e) == AddedContext(s, w, e) < AddedContext(sources, window, evidence)

\* The flag is left as the memory dependency set it.
OversizedUnflagged ==
    /\ at = "cap"
    /\ input.message >= input.cap
    /\ window' = <<>> /\ evidence' = <<>> /\ sources' = <<>>
    /\ outcome' = "current_message_oversized"
    /\ at' = "sent"
    /\ UNCHANGED <<input, truncated, selected_count>>

\* Only the channels of the memory dependency are cleared.
OversizedClearsMemory ==
    /\ at = "cap"
    /\ input.message >= input.cap
    /\ window' = <<>> /\ evidence' = <<>>
    /\ truncated' = (truncated \/ window # <<>>)
    /\ outcome' = "current_message_oversized"
    /\ at' = "sent"
    /\ UNCHANGED <<input, sources, selected_count>>

\* A message as long as the cap takes all of it.
Oversized ==
    /\ at = "cap"
    /\ input.message >= input.cap
    /\ window' = <<>> /\ evidence' = <<>> /\ sources' = <<>>
    /\ truncated' = (truncated \/ window # <<>>)
    /\ outcome' = "current_message_oversized"
    /\ at' = "sent"
    /\ UNCHANGED <<input, selected_count>>

\* Evidence goes first, then the window, then sources.
EnforceCap ==
    /\ at = "cap"
    /\ input.message < input.cap
    /\ evidence' = KeptEvidence
    /\ window' = KeptWindow(evidence')
    /\ sources' = KeptSources(window', evidence')
    /\ truncated' = (truncated \/ window' # window)
    /\ outcome' = IF Reduced(sources', window', evidence') THEN "budget_starved" ELSE outcome
    /\ at' = "sent"
    /\ UNCHANGED <<input, selected_count>>

Next ==
    \/ NoMemory \/ AssembleWindow
    \/ WithoutModeB \/ ModeBFindsNothing \/ ModeBSelects
    \/ Oversized \/ EnforceCap

Spec == Init /\ [][Next]_vars

----------------------------------------------------------------------------
(* Properties.                                                              *)

Sent == at = "sent"

\* What enters the prompt, as rendered, never exceeds the cap: whatever the memory dependency
\* packed without seeing the sources, and to nothing when the message alone reaches it.
HardCap ==
    Sent => /\ AddedContext(sources, window, evidence) <= input.cap
            /\ input.message >= input.cap => AddedContext(sources, window, evidence) = 0

\* Sources are dropped last and evidence first, although three budgets are computed at three
\* points: no source is missing next to memory, no turn is cut by the cap next to evidence.
DropOrder ==
    Sent /\ input.message < input.cap =>
        /\ sources # input.docs => window = <<>> /\ evidence = <<>>
        /\ window # Pack(input.turns, input.cap) /\ input.read => evidence = <<>>

\* After two packings a window is still the newest turns, whole; only a last one may be cut,
\* and its answer is cut before its question.
WholeTurns ==
    window = <<>> \/ IsSuffix(window, input.turns) \/
        \E turn \in {Last(input.turns)} :
            /\ Len(window) = 1
            /\ window[1][1] <= turn[1] /\ window[1][2] <= turn[2]
            /\ window[1][1] < turn[1] => window[1][2] = 0

\* history_truncated says exactly whether a turn of the conversation is missing or cut in the
\* prompt, whichever of the three places that drop turns did it.
TruncatedIsTrue ==
    Sent /\ input.read => (truncated <=> input.cut \/ window # input.turns)

MemoryIsWhole == input.read => window = input.turns /\ Len(evidence) = Max({0, selected_count})

SelectionLost ==
    /\ selected_count # -1 /\ input.corpus # <<>>
    /\ evidence = <<>> \/ Len(evidence) < selected_count

\* memory_outcome is about the prompt that is sent, not about what the dependency had before
\* the cap.  It is "budget_starved" only where a turn that was read, evidence that was there to
\* select or a source is missing or cut, and names no budget only where the turns read, the
\* evidence selected and the sources are all in it.  Turns that were never read and evidence
\* that was not selected for another reason than the budget are none of its business.
OutcomeIsTrue ==
    Sent =>
        /\ outcome = "current_message_oversized" <=> input.message >= input.cap
        /\ outcome = "budget_starved" =>
              \/ sources # input.docs
              \/ input.read /\ (window # input.turns \/ SelectionLost)
        /\ outcome \notin {"budget_starved", "current_message_oversized"} =>
              sources = input.docs /\ MemoryIsWhole

\* What the decision record says of the two inert states, and what the code does not do: the
\* cap starves a prompt whose evidence was selected, and leaves the count.
StarvedSelectsNothing == Sent /\ outcome = "budget_starved" => selected_count <= 0
=============================================================================
