------------------------------ MODULE Platform ------------------------------
(***************************************************************************)
(* The parts of the server that share no state with a chat turn, one at a  *)
(* time: each behaviour is one of one part, which leaves the variables of  *)
(* the others idle.  Every constant of a part is one of the platform.      *)
(***************************************************************************)
EXTENDS PromptBudget

CONSTANTS
    \* NotionWrites
    Writes, Operations, allowed_pages, allowed_databases, editable_fields, database_templates,
    Dates, Numbers,
    \* ExternalReads
    Reads, Pages, AllowedPages, Urls, AllowedUrls, Bodies, MaxBytes, MaxChars, CharsOf(_),
    \* Retrieval
    ChunkIds, Length, TopN, MinReranked, MaxAttempts, MaxSources, MaxSourceChars,
    MaxContextChars, RetrievedK,
    \* ProviderCalls
    CallAttempts, CheapMax, SmartMin, MessageLengths,
    \* RequestStack
    Statuses, Guarded,
    \* Feedback
    Puts, Ratings

ASSUME PlatformBounds ==
    /\ "none" \notin Ratings
    /\ CallAttempts \in Nat \ {0}
    /\ TopN \in Nat \ {0} /\ RetrievedK \in Nat /\ IsFiniteSet(ChunkIds)
    /\ Statuses \cap {0, 401} = {}      \* only the guard answers 401

VARIABLES
    part,    \* the part of the behaviour
    enabled, asked, stage, inflight, notion, audit,
    boot, proc, loop, started, served, stuck, read, page, web,
    route, semantic, keyword, buildable, step, attempts, candidates, answer, result, verdict,
    config, request, decision, place, flying, calls, tried, error, ended, threads,
    sent, depth, inward, contexts, handled, response, raised, lines,
    events, row, wants, own, spot, seen, stamped, answers, clock, stored

notionVars == <<enabled, asked, stage, inflight, notion, audit>>
readsVars == <<boot, proc, loop, started, served, stuck, read, page, web>>
retrievalVars == <<route, semantic, keyword, buildable, step, attempts, candidates, answer,
    result, verdict>>
callsVars == <<config, request, decision, place, flying, calls, tried, error, ended, threads>>
stackVars == <<sent, depth, inward, contexts, handled, response, raised, lines>>
feedbackVars == <<events, row, wants, own, spot, seen, stamped, answers, clock, stored>>

----------------------------------------------------------------------------

Notion == INSTANCE NotionWrites WITH Requests <- Writes

Reading == INSTANCE ExternalReads

Retrieving == INSTANCE Retrieval WITH at <- step, outcome <- verdict, TopK <- RetrievedK

Calling == INSTANCE ProviderCalls WITH
    at <- place, outcome <- ended, MaxAttempts <- CallAttempts, Lengths <- MessageLengths

Stack == INSTANCE RequestStack WITH
    request <- sent, served <- handled, answer <- response

Rating == INSTANCE Feedback WITH at <- spot

----------------------------------------------------------------------------

\* A request without anything to pack, before anything is packed.
budgetIdle ==
    /\ input = [cap |-> Max(Caps), message |-> Max(Messages), read |-> FALSE, turns |-> <<>>,
                cut |-> FALSE, corpus |-> <<>>, docs |-> <<>>, ebm25 |-> FALSE]
    /\ at = "memory" /\ window = <<>> /\ evidence = <<>> /\ sources = <<>>
    /\ truncated = FALSE /\ outcome = "null" /\ selected_count = -1
notionIdle ==
    /\ enabled = 0 /\ asked = 0 /\ stage = 0 /\ inflight = 0 /\ notion = 0 /\ audit = 0
readsIdle ==
    /\ boot = 0 /\ proc = 0 /\ loop = 0 /\ started = 0 /\ served = 0 /\ stuck = 0 /\ read = 0
    /\ page = 0 /\ web = 0
retrievalIdle ==
    /\ route = 0 /\ semantic = 0 /\ keyword = 0 /\ buildable = 0 /\ step = 0 /\ attempts = 0
    /\ candidates = 0 /\ answer = 0 /\ result = 0 /\ verdict = 0
callsIdle ==
    /\ config = 0 /\ request = 0 /\ decision = 0 /\ place = 0 /\ flying = 0 /\ calls = 0
    /\ tried = 0 /\ error = 0 /\ ended = 0 /\ threads = 0
stackIdle ==
    /\ sent = 0 /\ depth = 0 /\ inward = 0 /\ contexts = 0 /\ handled = 0 /\ response = 0
    /\ raised = 0 /\ lines = 0
feedbackIdle ==
    /\ events = 0 /\ row = 0 /\ wants = 0 /\ own = 0 /\ spot = 0 /\ seen = 0 /\ stamped = 0
    /\ answers = 0 /\ clock = 0 /\ stored = 0

AnyInit ==
    /\ part \in {"budget", "notion", "reads", "retrieval", "calls", "stack", "feedback"}
    /\ IF part = "budget" THEN Init ELSE budgetIdle
    /\ IF part = "notion" THEN Notion!Init ELSE notionIdle
    /\ IF part = "reads" THEN Reading!Init ELSE readsIdle
    /\ IF part = "retrieval" THEN Retrieving!Init ELSE retrievalIdle
    /\ IF part = "calls" THEN Calling!Init ELSE callsIdle
    /\ IF part = "stack" THEN Stack!Init ELSE stackIdle
    /\ IF part = "feedback" THEN Rating!Init ELSE feedbackIdle

AnyNext ==
    /\ part' = part
    /\ IF part = "budget" THEN Next ELSE UNCHANGED vars
    /\ IF part = "notion" THEN Notion!Next ELSE UNCHANGED notionVars
    /\ IF part = "reads" THEN Reading!Next ELSE UNCHANGED readsVars
    /\ IF part = "retrieval" THEN Retrieving!Next ELSE UNCHANGED retrievalVars
    /\ IF part = "calls" THEN Calling!Next ELSE UNCHANGED callsVars
    /\ IF part = "stack" THEN Stack!Next ELSE UNCHANGED stackVars
    /\ IF part = "feedback" THEN Rating!Next ELSE UNCHANGED feedbackVars

anyVars == <<part, vars, notionVars, readsVars, retrievalVars, callsVars, stackVars, feedbackVars>>

AnySpec == AnyInit /\ [][AnyNext]_anyVars

----------------------------------------------------------------------------
(* Each property is stated with its part; those of PromptBudget hold of its *)
(* idle variables as well.                                                  *)

\* A write to Notion is applied once at most, and the audit and the answer never say more than
\* was done (NotionWriteService, NotionWriteClient._request).
EffectsMatchAnswers == part = "notion" => Notion!EffectsMatchAnswers

\* However starting the Notion reader failed, no subprocess and no receive loop is left behind
\* (ControlledNotionReadClient.start, stop).
NoStrayProcess == part = "reads" => Reading!NoStrayProcess

\* Once the search found something, no failure of a reranker fails the retrieval but that of
\* building the AWS client (RetrievalPipeline, CascadingReranker, AwsReranker).
RerankersFallBack == part = "retrieval" => Retrieving!RerankersFallBack

\* What a comment says: every failure of the AWS adapter is a RerankerError
\* (CascadingReranker._attempt_fallback).
AwsNormalizesEveryFailure == part = "retrieval" => Retrieving!AwsNormalizesEveryFailure

\* The calls of a request follow one schedule, wherever its deadline cuts it off: the retries of
\* the primary, then those of the fallback (ResilientProvider.generate, ChatService.run).
CallsFollowTheSchedule == part = "calls" => Calling!CallsFollowTheSchedule

\* What a docstring says: both identifiers are in every response
\* (RequestContextMiddleware.__call__).
HeadersOnEveryResponse == part = "stack" => Stack!HeadersOnEveryResponse

\* The layers of the server agree on who asked and what was answered, and on which request it
\* was where the client named it once and the innermost layer saw the answer
\* (main.py, StructuredJsonLoggingMiddleware, TenantMiddleware, RequestContextMiddleware).
AnswersAreAccountedFor == part = "stack" => Stack!AnswersAreAccountedFor

\* A rating and its time come from one request, however requests interleave (put_chat_feedback).
RatingsAreWhole == part = "feedback" => Rating!RatingsAreWhole
=============================================================================
