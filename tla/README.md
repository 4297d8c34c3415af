# Verification of llm-chat-platform

TLA+ modules, TLC configurations and TLAPS proofs for the platform in `src/`: a
FastAPI service that answers chat messages with an LLM provider and keeps the
conversations, their messages and their usage in PostgreSQL, its corpus ingestion
and evaluation scripts, and the experiments about conversational memory. Source
paths below are relative to `src/`.

    cd tla
    tlc -workers 2 -config ChatTurns.cfg MCChatTurn.tla    # any run, see "Runs"
    tlapm ChatTurnProofs.tla                               # any of the seven *Proofs modules, or Folding.tla

## 1. The system

### Parts, state and operations

| part | source | state it keeps | operations |
|---|---|---|---|
| chat write path | `app/api/routes/chat.py` | locals of a handler; one `AsyncSession` | `chat` (streaming and not), `_cache_key`, `_cache_bypass_reason`, `_build_messages` |
| conversation store | `app/models/*.py`, `app/infra/db/session.py` | tables `conversations`, `messages`, `usage_events`; the `Identity` column `messages.sequence` | flush, commit, rollback, close |
| history read, window | `app/api/deps.py`, `app/core/domain/conversation_turns.py`, `conversation_history.py` | a read-only session of its own, closed before the handler's starts | `get_chat_memory_context`, `group_turns`, `build_materialized_window`, `assemble` |
| prompt budget, Mode B | `app/core/domain/context_packer.py`, `added_context_budget.py`, `chat_memory.py`, `bm25_ranking.py` | none | `pack_recent_window`, `pack_selected_events`, `enforce_added_context_cap` |
| response cache | `app/services/chat_response_cache.py` | Redis keys with a TTL | `get`, `set` |
| chat service | `app/core/domain/chat_service.py` | none | `run`, `stream_chat` |
| resilient provider | `app/core/providers/resilient_provider.py` | per stream: a driver task, a queue, the flags of `_StreamState` | `generate`, `stream`, `get_final_result` |
| provider adapters | `app/core/providers/{openai,bedrock,stub}_provider.py`, `app/core/utils/retry.py` | per stream: a task or thread and a queue | `generate`, `stream`, `retry_async` |
| provider routing | `app/core/domain/provider_factory.py`, `app/core/domain/routing/` | none | `select`, `build_provider_for_decision` |
| document retrieval (RAG) | `app/core/domain/retrieval_pipeline.py`, `app/core/providers/cascading_reranker.py`, `pgvector_store.py` | tables of documents and chunks | `retrieve`, `rerank`, `get_chat_rag_context` |
| HTTP middleware | `app/main.py`, `app/http/` | context variables, one copy per task | the six layers around a route |
| feedback | `app/api/routes/chat_feedback.py` | columns of `usage_events` | `put_chat_feedback` |
| Notion writes | `app/services/notion_write.py`, `notion_write_client.py` | an audit log; pages and rows at Notion | update a page, create or update a row |
| Notion and web reads | `app/services/notion_read.py`, `notion_read_client.py`, `web_read.py` | an MCP child process, its session | start, stop, `read_page`; `read` of a URL |
| corpus ingestion | `app/scripts/ingest_corpus.py` | documents, chunks, the manifest; one transaction per document | `ingest` |
| corpus evaluation | `experiments/evaluation/` | runs and metrics in a store of their own | guards, retrieval, recording |
| conversational memory | `experiments/conversational_memory/` | attempts ledger, reservation files, audit of calls | reserve, call, decide, classify; calibrate, charge |
| semantic memory | `experiments/conversational_semantic_memory/` | fact store, spend ledger, cache, chain of results | extract, reserve, settle, record |
| dual memory | `experiments/dual_conversational_memory/` | reservation, call ledger, state file | embed, extract, generate with workers; compose |
| long context | `experiments/long_context_conversational_memory/` | attempts ledger | prepare, dispatch, finalize |
| read endpoints, settings, tracing, migrations, reranking benchmark | `app/api/routes/*`, `app/core/`, `app/alembic/`, `app/scripts/` | none, or DDL | listing, logging, measuring |

### How they interact

A `POST /chat` goes through six layers of middleware, two of which run what they
wrap in a task of its own, then through two FastAPI dependencies that gather context
before any transaction is open: `get_chat_memory_context` reads the conversation's
rows on a short-lived session of its own (bounded by a timeout, any failure leaves
the channel empty) and `get_chat_rag_context` asks the retrieval pipeline.
`enforce_added_context_cap` fits both into one character budget. The handler then
opens the business transaction.

* Non-streaming: open, check or create the conversation, flush the user message,
  look the reply up in Redis (unless a retrieval channel is on) or call
  `ChatService.run`, flush the assistant message, add the usage event, commit,
  write the cache, write the metrics row in `finally`, answer.
* Streaming: call `ChatService.stream_chat` first and forward its chunks, and only
  when it ends open the transaction, write both messages, commit, yield the `done`
  frame, write the metrics row in the generator's `finally`.

All this is one event loop with many coroutines: between two awaits nothing else
of the process runs, at an await anything may. The sessions of concurrent
requests see of each other what is committed. Redis and PostgreSQL outlive the
process. A client that leaves cancels a streaming handler at its await (a
non-streaming one runs on).

The ingestion and the evaluation are operating-system processes of their own beside
the server; they share its database and nothing else. Each experiment is a process,
or several, that share files: append-only ledgers, reservation files made with `O_EXCL`,
caches. None of them talks to another experiment.

### What is hard

* Turns of one conversation run concurrently, on snapshots read before their
  transactions.
* The order of effects on the exits: exception, HTTP error, client gone, `finally`,
  and the error telemetry in a transaction of its own.
* An open transaction while a generator is suspended at a `yield`.
* A `COMMIT` whose acknowledgement is lost, or that is cancelled under way.
* A cache that survives restarts in which the feature flags change.
* Row and message bounds that fall inside a turn.
* Streams: a driver task, a queue and a consumer per layer; fallback to another
  provider before the first chunk only; nothing bounds a stream's duration.
* A write to Notion that timed out and is applied later; a child process whose start fails
  half way.
* An ingestion that is many transactions, beside an evaluation that checks and then reads.
* Processes that die between a reservation, a paid call, its settlement and its result.
* Limits on calls and money that must hold over what a crashed process left behind.

`PROJECT.json` lists these as "hazards", each at its line with the properties that
would catch it.

### What makes each part correct

* Write path: a turn is durable whole or not at all; an answer tells the truth about
  the tables; a metrics row is final; a reply was generated for the messages and the
  evidence it is stored with; nothing crosses a tenant.
* Store: sequence numbers order the rows as causality does.
* Window: a prompt carries whole turns.
* Resilient provider: the client sees the chunks of one provider, in order, and a final
  result only of that provider; each stream reports its end once. A call that fails for a
  transient reason uses up the attempts of the primary and of the fallback.
* Budget: the added context never exceeds the cap, drops in the documented order and is
  reported as it was sent.
* Retrieval: what the search found is answered, whatever the rerankers do, but for a client that
  cannot be built.
* Middleware: the log line, the route and the client agree on tenant and status, and on the identifiers
  that the client sent once.
* Feedback: a rating and its time come from one request.
* Notion: the audit and the answer never say more than was done, and nothing is written twice;
  no failed start leaves a process behind.
* Ingestion: as long as no two ingestions have ever overlapped, one that is done leaves every file it
  discovered once, complete, and a manifest that says what is there, however the ones before it ended.
* Evaluation: a recorded run measured what its manifest declares, if nothing was committed once the
  contents had been compared.
* Experiments: money is reserved before it is spent; a verdict, a result or a complete run rests
  on what is on disk; a memory shows an arm neither the answer nor the future; what is paid for is
  not refused by a later step.

## 2. Modules

| module | models |
|---|---|
| `ChatStore` | the tables, the sessions, the identity column |
| `ResponseCache` | the Redis cache and its key |
| `RecentWindow` | the bounded read and the grouping into turns |
| `ChatTurn` | `POST /chat`; composes the three above (EXTENDS), states the properties |
| `TurnLog` | the abstract specification: a log of whole turns and one answer per request |
| `ProviderStream` | one streamed generation: `ChatService.stream_chat`, `ResilientProvider.stream` with its driver task, an adapter's task |
| `StreamedTurn` | one request with the generation it streams: the handler of `ChatTurn` at its point "streaming" and the tasks of `ProviderStream` |
| `ReplyStream` | the abstract specification: the chunks of one provider in order, then one verdict |
| `ProviderCalls` | one generation that is not streamed: routing, retries, fallback, deadline |
| `PromptBudget` | the character budget: `pack_recent_window`, `pack_selected_events`, `enforce_added_context_cap` |
| `Retrieval` | rewriting, embedding, hybrid search, two rerankers in cascade, evaluator |
| `RequestStack` | the six layers of middleware and their tasks |
| `Feedback` | concurrent ratings of one answer |
| `NotionWrites` | validated and audited writes to Notion |
| `ExternalReads` | the MCP child process, reads of Notion pages and of web pages |
| `CorpusIngest` | overlapping ingestions of a worktree that changes |
| `CorpusEvaluation` | the evaluation harness beside them (EXTENDS `CorpusIngest`) |
| `HeldoutRun` | conversational memory: the held-out attempts, their ledgers and verdicts |
| `EpisodicMemory` | conversational memory: chunks, vectors, contexts and cost ledgers |
| `FactLifecycle` | semantic memory: the fact store under extraction |
| `SpendCampaign` | semantic memory: the T4 campaign with spend guard, cache and results |
| `DualRun` | dual memory: the one authorised execution with its workers |
| `DualMemory` | dual memory: chunks, rankings, facts, policy and the composed arms |
| `AttemptLedger` | long context: the guards and the one-shot runner |
| `Replay` | long context: the contexts of one step and the isolation challenge |
| `Platform` | the parts of the service that share no state, as one specification |
| `Experiments` | the four experiments that pay for calls, which share no state, as one specification |
| `Contexts` | `Experiments` with the three modules that prepare what an arm is shown (EXTENDS `Experiments`) |
| `MCChatTurn`, `MCStreamedTurn`, `MCPlatform` | the instances for TLC |
| `MCServer` | the instance of `CorpusEvaluation` for TLC, beside the parts of `MCPlatform` |
| `MCExperiments` | the instance of `Contexts` for TLC, beside the fact store |
| `ChatTurnProofs` | theorems of `ChatTurn`: its types and sessions; its rows; its answers, tenants and refinement |
| `ProviderStreamProofs` | theorems of `ProviderStream` |
| `PlatformProofs` | theorems of `Platform` |
| `ExperimentsProofs` | theorems of `Experiments` |
| `ContextsProofs` | theorems of `Contexts` |
| `Folding` | lemmas about the folds and sums the models are built from, for every operator |
| `FactLifecycleProofs`, `CorpusProofs` | theorems of `FactLifecycle`, `CorpusIngest` and `CorpusEvaluation` |

### ChatStore

`conversations`, `messages` and `usage_events` are the committed rows; `tx[r]` is the
transaction of request `r`'s session, with the rows it has flushed or added. `Commit`
publishes them together, `Rollback` forgets them. `sequence` is the next value of
`messages.sequence`; as in PostgreSQL a flush takes a number and a rollback does not
return it. Texts are model values; the content of an assistant message is the *request
the reply was generated for*, which is what lets a property say where a reply came from.

### RecentWindow

Histories are sets of rows: their order is that of `sequence`. `Newest(rows, n)` is
`ORDER BY sequence DESC LIMIT n`; `Turns` is `group_turns` (a user row and the assistant
row right after it); `MaterializedWindow` keeps the turns whose answer is within
`max_messages`, which is the loop of `build_materialized_window` with its snap to the
user row. The character budgets drop oldest turns first; how many is left open
(`NewestTurns`), so every cut is explored.

### ChatTurn

`pc[r]` says where the coroutine of `r` is; a step runs from one await to the next.

| `pc` | code | actions |
|---|---|---|
| `idle` | before the request | `Arrive` |
| `context` | the two dependencies and the cap | `ReadContext` |
| `streaming` | the `async for` over `stream_chat` | `StreamFinishes`, `StreamFails` |
| `begin` | `async with db.begin()` to the user message's flush | `OpenTurn`, `NotFound` |
| `reply` | cache lookup, `ChatService.run` | `CacheHit`, `ProviderAnswers`, `ProviderFails` |
| `assistant` | flush of the answer, `generation_outcome = "ok"`, usage event | `FlushAssistant` |
| `commit` | leaving the `with` | `CommitTurn`, `CommitUnacknowledged`, `UsageInsertFails` |
| `store` | `cache.set` | `StoreReply` |
| `telemetry` | the error usage event | `ErrorTelemetry` |
| `frame`, `frame_in_tx` | a `yield` of the last frame | `SendFrame`, `SendFrameInTransaction` |
| `metrics` | `finally` | `Finish` |
| `done` | handler gone, `get_db` closing | `CloseSession` |

`DatabaseFails` fires at any statement of the turn, `Disconnect` and
`DisconnectInCommit` cancel a streaming handler at any of its awaits, `Restart` kills
the process anywhere (the server rolls back, Redis stays, the flags may change),
`Reingest` changes the evidence and `CacheExpires` a TTL.

Left open on purpose: which of the failures happens; whether a best-effort write lands;
whether a cancelled `COMMIT` was applied; whether an interrupted rollback reached the
server before `finally` looked (`db.in_transaction()`). `prompt.evidence` is a number that
stands for the text the two retrieval channels contribute, 0 for none.

### TurnLog, and what "implements" means here

`TurnLog` knows only a set of turns and the answers sent. `Log` in `ChatTurn` maps the
message rows of a request to one turn *with the roles found*, so a half-written turn maps
to a value `TurnLog!AddTurn` cannot add: the refinement (`LogSpec`) fails as soon as a turn
is split over two commits, is written after its answer, or is answered "success" early.

### ProviderStream and ReplyStream

Three tasks of the event loop, joined by unbounded queues:

    provider -> adapter task -> adapter[p].queue -> driver task -> queue -> route -> client

`adapter[p]` is a stream session of provider `p` (`_OpenAIStreamState`, and its twin in the
Bedrock adapter): the task goes `none`, `reading`, `closing`, `done`; `Delta` puts a chunk,
`EndOfStream` and `StreamBreaks` end the body and put the end marker, `Close` closes the
connection, which may itself raise. `driver` is `_ResilientStreamState` and the point
`_drive_stream` has reached. `pc` is the consumer: `stream_chat` up to the session it gets,
then the route's `async for`. Without a fallback provider there is no driver, and the
consumer reads the adapter's queue (`ReceiveDirectly`, `TaskAwaited`). A deployment is chosen
in `Init`: resilient or not, and which providers lack credentials; the `stream()` of a
`DisabledProvider` is the protocol's default and returns `None`, and `stream_chat` then calls
`run()` (`RunPrimary`, `RunFallback`, `RunTimesOut`).

A chunk is `<<p, i>>`: who sent it, and which delta it was. That is what tells a stream with a
lost, repeated or foreign chunk from a good one, and texts are needed for nothing else.
Errors are of two kinds, as `_is_retryable_provider_error` splits them. `span` and `summaries`
are what the two layers log, because properties are about them.

`Pipeline` says that `reply`, `queue` and the adapter's queue concatenated are what the
provider sent, at every moment of the two hops and across a fallback. `Reply` maps the module
to `ReplyStream` by the client's variables.

The final result of OpenAI is what was sent, joined. Bedrock strips it, and either puts
"(empty response)" where nothing is left (`Strip`, `Content`): `strips` says which provider is
Bedrock's, and `blank` which deltas are white space alone. White space within a delta is not told
apart from the rest of it, so a delta is stripped whole or not at all. `ReplyStream` lets the answer
lose chunks of white space at its ends (`Trimmed`), and no others.

### StreamedTurn

`ChatTurn` takes the stream of a request in one step that ends well or not, and `ProviderStream` ends
where the route takes over. `StreamedTurn` is both: the consumer of the stream moves while the handler
is at "streaming", its last step is the handler's (`StreamFinishes`, `StreamFails`), and a client that
leaves ends both. The tasks of the provider layer go on by themselves, also after the turn has ended.
The liveness properties are stated here, where what one module waits for is the work of the other.

### PromptBudget

One request, from the memory dependency to the capped prompt. A text is its length, a turn a
pair of lengths, a rendered block costs an envelope and a constant per item. `at` goes
`memory` (the window is read and packed alone: `AssembleWindow`, or nothing is read:
`NoMemory`), `mode_b` (`WithoutModeB`, `ModeBFindsNothing`, `ModeBSelects`), `cap`
(`Oversized`, `EnforceCap`), `sent`. `EnforceCap` is the whole of
`enforce_added_context_cap`: loops that drop the tail until the total fits are the longest
prefix that fits (`Prefix`), and `Pack` is `pack_recent_window` with its truncated last turn.
`truncated`, `outcome` and `selected_count` are the columns of `rag_request_metrics` that
report all this; the in-memory collector behind them is taken to accept what is recorded.

BM25's scores are not modelled: `input.corpus` is the ranked order, and every order of every
small corpus is an input. A cap that is not positive is refused by the settings, so
`max_chars <= 0` is no input (`BudgetBounds`).

### ProviderCalls

`Resolve` is the routing policy (static or heuristic over the length of the message) with the
resolver's models and `build_provider_for_decision`. An adapter at work makes `calls` (pairs of
adapter and model), counts them in `tried`, and fails as `_should_retry` and `retry_async` say;
`Raises` is `ResilientProvider.generate`'s decision to ask the fallback. `Deadline` is the
`wait_for` of `ChatService.run` around all of it. A Bedrock call runs in a thread, which a
cancelled coroutine leaves running: `threads`. The waits between retries are left out; the deadline
may strike at any point instead.

### Retrieval

`at` follows `RetrievalPipeline.retrieve` stage by stage. `semantic` and `keyword` are the two
rankings of the corpus, any order of any subset; `hybrid_search` fuses them by reciprocal rank,
with ties by id, as the SQL does. A reranker's answer is a set of indices in some order;
`Validate`, `GcpFails` and `AwsFails` tell apart the failures the code tells apart: an exception
that is a `RerankerError`, one that is normalised to it, and one that is neither. One that is neither is
what building the AWS client raises, outside of the adapter's `try` (`AwsIsNotBuilt`, where `buildable` is
false): it fails the retrieval, and `RerankersFallBack` says that nothing else a reranker does will.
The chat route adds the sources (`MaxSources`, `MaxSourceChars`, `MaxContextChars`)
and its deadline.

### RequestStack

One request. `depth` counts the layers it is inside of, in the order `Order`, the reverse of the
order `main.py` adds them in. `contexts` is the stack of context variables of the tasks: a layer
that is a `BaseHTTPMiddleware` pushes a copy for the task it runs what it wraps in (`CallNext`)
and pops it on the way out, so a variable set inside is not seen by the line logged outside. What
the route sees is `served`, what the client gets `answer`, the access log `lines`. All kinds of
request (preflight, OPTIONS, probe, API), credentials, tenants, identifiers and body sizes are
initial states.

### Feedback

`put_chat_feedback` selects (`Select`), decides in memory and commits. The ORM writes the columns
whose value differs from what was selected, which `Updated` says column by column: a rating that
two requests agree on is not written by the second, and the question is whether its time can be.
`stored` is a history variable: the rows that have existed. No two requests read the clock in the
same microsecond.

### NotionWrites and ExternalReads

`NotionWrites`: `Refuse`, `Noop` and `Send` split the operations as the validator and the allow lists
do, with the audit line before the call. A call is in `inflight` until Notion sees it
(`Apply`), which may be after the client's timeout (`CallFails`) or after the process has gone
(`Crash`). `notion` is what was applied.

`ExternalReads`: `start()` enters the pipe (`proc`), then the session (`loop`), then shakes hands,
each a step that may fail; the exit stack unwinds what was entered, and an exit may itself raise
(`stuck`). The child may die at any time (`ProcDies`), which ends its output and with it the receive loop
(`LoopEnds`), while `_started` stays. `Call`, `Reply` and `Timeout` are a page read. A web read
takes the chunks of a body up to `MaxBytes` and `MaxChars`, with the character that a byte limit
cuts in two (`CharsOf`), and checks where redirects led.

### CorpusIngest and CorpusEvaluation

A run `i` of `ingest_corpus` reads the worktree (`Discover`), and for each file starts a
transaction that finds the path's document unchanged (`Skip`) or deletes it and
adds another with its chunks (`Replace`, `Index`, `Commit`), then counts the rows, reads the
contents and writes the manifest, each a statement of its own (`CountRows`, `ReadContents`,
`WriteManifest`). `Fail` stops it anywhere. The unique constraint is on path, content and mode, not
on the path alone, so two overlapping runs that saw different contents leave two documents of one
path (`by` tells which run inserted a document). `overlapped` says that two runs have been active at once, ever, and `IngestIsComplete` is about
the time before: a later run that overlaps none may still find two documents of a path and replace one. `Edit` and `GitCommit` change the worktree and `HEAD`; `MaxEdits` bounds
the edits.

The harness reads the manifest and then checks it against the registration and the database
statement by statement (`CheckCounts`, `CheckContents`, `CheckModes`), retrieves per query in a
session of its own (`Search`, `LookUpPaths`) and records the run in several transactions. `quiet`
says that no document was committed since `CheckContents`. A commit between two of the checks is
noticed by the later one or harmless, but after the comparison of the contents nothing notices one, as the
harness holds no lock: that is the condition under which a recorded run can be held to its manifest.

### HeldoutRun and EpisodicMemory

`HeldoutRun` has processes that share two files. `Reserve` makes `<n>.reserved` with `O_EXCL`,
`AppendStarted` writes the line, and so on up to `Finalize`; `Crash` and `CrashInCall` may happen at
each point, also in the middle of an append (`torn`), which makes every later reader of the file
raise. Billable calls are audited before and after.

`EpisodicMemory` is one execution over one conversation: `Embed` collects the texts of all
candidates, `Calibrate`, `Generate` and `Charge` compute theirs again. A chunk is a pair of offsets in a
message, and `separators` says where it may end; similarities are any order of the chunks.

### FactLifecycle and SpendCampaign

`FactLifecycle` takes one response per user turn (`Respond`, malformed or oversized too) and
applies its operations to the store: the three cases of an assertion, a retraction with or without
an active fact, and the rejections. `RequestIsAccepted` is the precondition of the next extraction.
A value is a meaning and a spelling, which is what `normalize_value` tells apart.

`SpendCampaign` runs the stages of `run_t4.py` through a cache and a spend guard. A call is
reserved (`ReadLedger`, `AppendReservation`, two steps, because the check and the append are), sent,
answered or not, settled, cached. `billed` is what the provider charged, which the process may never
learn. One process at a time is assumed (`Procs` has one element in the run): the guard takes no
lock. `inputs` is the version of the dataset, which may be edited between any two steps, never back
to an older one; a result is stored with the version it names and the version it was computed from.

### DualRun and DualMemory

`DualRun` is `run_external`: an `O_EXCL` reservation, embedding batches and extractions in
sequence, then asyncio workers over a shared queue, with a ledger of calls per kind and the files of a
complete run. `Interrupt` is Ctrl-C, which `except Exception` does not see.

`DualMemory` is what one step of that experiment is shown: `pieces` are the chunks, `dense` and
`lexical` two rankings, `facts` what the extractor made of each event, `contexts` the composed arms.
`GoldFacts` is what the dataset says of each event: the extraction is scored against it, event by event,
and the facts of arm R are made of it, whatever was extracted. A secret that the extraction of *another* event
repeats is to the score a false positive and no prohibited fact, and can be shown; `NothingLeaks` speaks
of the facts that the dataset prohibits of their own event.

### AttemptLedger and Replay

`AttemptLedger` is the guard object and the runner: reserve, dispatch, finalize, complete. The
repository holds no confirmatory runner, so the guards' confirmatory branches are modelled
under one shaped as the development runner. `Replay` builds arms B and E and the oracle
for one step of one conversation, of one of the three kinds of step, with events and an answer of any
size and place. At most one thing is wrong with the shared index (`fault`). The step is refused where the
code raises: the framing cap and the input cap of `build_bounded_history` (`BuildB`), the scope, the
challenge and the caps of `build_bm25_context` (`BuildE`), the oracle's fit and
`EvaluationStepAudit.__post_init__` (`Audit`, `StepHolds`).

### Platform, Experiments and MCExperiments

The parts of the service that `Platform` brings together share no state and do not interact, and nor
do the experiments of `Experiments`, `Contexts` and `MCExperiments`, so a product of them would show nothing that the parts do not.
Each of the four is a disjoint sum: the variable `part` is chosen initially, the part it names
takes its steps, the variables of the others stay at an idle value, and each property is stated of
its part. Every state of every part is reached as it would be alone.

`Platform` has constants of its own, which it hands to the parts in `INSTANCE ... WITH`, so that
`PlatformProofs` can speak of all of their values; `MCPlatform` extends it and gives the values
for TLC. `Experiments` and `ExperimentsProofs` are the same for the experiments that pay for provider
calls (`HeldoutRun`, `SpendCampaign`, `DualRun`, `AttemptLedger`), and `Contexts` and `ContextsProofs` for
`EpisodicMemory`, `DualMemory` and `Replay`, beside them. `MCExperiments` extends `Contexts` and `FactLifecycle`.

## 3. Runs

| run | configuration | properties | distinct states |
|---|---|---|---|
| `turns` | `ChatTurns.cfg` | `TurnAtomicity`, `SessionDiscipline`, `TenantIsolation`, `AnswersAreTrue`, `SequenceOrder`, `MetricsAreTrue`, `MetricsComeLast`, `LogSpec` | 1 160 000 |
| `histories` | `ChatHistories.cfg` | `RepliesMatchPrompts`, `HistoryHasWholeTurns` | 4 850 000 |
| `stream` | `Stream.cfg` | `Pipeline`, `SummaryAgrees`, `ReplySpec`, `StreamIsAnswered`, `NothingLeftRunning`, `TurnsEnd` | 198 000 |
| `platform` | `Platform.cfg` | `HardCap`, `DropOrder`, `WholeTurns`, `TruncatedIsTrue`, `OutcomeIsTrue`, `EffectsMatchAnswers`, `NoStrayProcess`, `RerankersFallBack`, `CallsFollowTheSchedule`, `AnswersAreAccountedFor`, `RatingsAreWhole`, `IngestIsComplete`, `MeasuredWhatItDeclares` | 4 920 000 |
| `experiments` | `Experiments.cfg` | `NextTurnIsAccepted`, `Lineage`, `OneAttemptAtATime`, `VerdictsAreBacked`, `NothingUnreserved`, `ResultsAreEvidence`, `CompleteIsWhole`, `DispatchesAreBounded`, `NothingLeaks`, `NothingFailsLate`, `PreparedIffSound` | 586 000 |
| `usage_event` | `ChatUsage.cfg` | `TelemetryBreaksNothing`, violated: see "Findings" | |
| `stream_span`, `stream_completed` | `StreamSpan.cfg`, `StreamCompleted.cfg` | `SpanOkMeansAnswer`, `FinalMeansCompleted`, violated | |
| `starved`, `aws_client`, `headers` | `PlatformStarved.cfg`, `PlatformAws.cfg`, `PlatformHeaders.cfg` | `StarvedSelectsNothing`, `AwsNormalizesEveryFailure`, `HeadersOnEveryResponse`, violated | |
| `usage_unknown` | `ExperimentsUsage.cfg` | `UnknownIsNeverZero`, violated | |

The runs of `MCChatTurn` permute the requests (`Symmetry`): no definition singles one out, and
the `CHOOSE`s are over parameters, tenants and conversations, not requests. No other run uses symmetry.

`CHECK_DEADLOCK FALSE` everywhere: a set of requests that have all been answered, or a script
that has ended, is a system that has stopped, and rightly.

### What they show, and why the bounds are enough

* `turns`: two requests, each of either tenant, to a new or an existing conversation, streaming
  or not, with all failures. The sessions meet only in the tables and in the sequence, and each
  property relates one request to one other, so two requests reach every interference of a
  pair; the third tenant or conversation would be a copy of one of the two. One restart is
  enough for a turn cut in the middle and one after it.
* `histories`: two deployments in one run (`HistoriesSpec`), because both ask what one request leaves for
  the next.
  * Clients that do not wait, for the cache: two requests, non-streaming, because a streaming request neither
    reads nor writes the cache. Flags change at a restart, the corpus changes twice (evidence 1, evidence
    2, and 0 for the channel being off): enough for a stale key of each kind. `OneDeployment` keeps
    both fixed for the other deployment, which has no retrieval.
  * Clients that wait (`serial`), for the window: three streaming requests of one conversation are needed to have a
    window of two turns in which a bound falls; `MaxRows = 3` and `MaxMessages = 1` both cut inside a turn. That the
    clients wait is needed: two posts in flight in one conversation commit rows whose sequence numbers
    interleave, and `group_turns` pairs by adjacency.
* `stream`: one request, because a stream shares nothing with another; three deltas, so that there is a first,
  a middle and a last one, which may be white space; all four sets of disabled providers; Bedrock as either
  provider or neither.
* `platform`, by part:
  * budget: lengths 1 and 3, up to two turns and sources and three ranked events of which two
    can be selected, six caps from smaller than any envelope to larger than everything, a message
    below and above the small ones. The functions are piecewise linear in the lengths; two
    lengths and caps on either side of each sum reach every branch.
  * Notion writes: two requests, so one may be the retry of the other, and operations that are
    valid and that break each rule. Reads: two requests over one child process, bodies on
    each side of both limits, and a limit inside a character.
  * retrieval: three chunks, `TopK` 3, `TopN` 2: a ranking can be reordered, cut and
    short; the embedding call has two attempts.
  * calls: two adapters, two attempts, lengths around both thresholds, the deadline at any point.
  * stack: every combination of the request's attributes; one request, because requests share no
    context.
  * feedback: three requests, so that two may race with one that saw neither.
  * corpus: two files, one of them with chunks and one without, two ingestions and one edit: the
    second repairs, repeats, or overlaps the first, and the evaluation runs at any time.
* `experiments`, by part:
  * facts: one slot, two meanings with two spellings, three turns of up to two operations: a chain
    of three, a retraction and an assertion after it, all within a turn or across.
  * held-out: two processes and two attempts, the number the policy allows, one generation
    call after the embedding call.
  * spend: a cap that fits two reservations, three results, one crash, one edit.
  * dual: three workers over four jobs, so that one worker takes a second job while others
    fail; limits that bind (embedding) and that fit.
  * attempts: one step and the three arms, caps that bind in each phase; both sample sizes.
  * memory, episodic, replay: conversations of four to six events or messages, one of them too long
    for a chunk, capacities on either side of what fits, and a question that fits only because nothing was
    said before it.

### Fairness

`TurnSpec` of `StreamedTurn` has weak fairness on

* `Handles`, the steps of the handler outside of the provider's stream: the event loop runs a ready coroutine,
  statements of the database and Redis return or raise, the call of a request that does not stream is bounded
  by `timeout_s`. A handler that yields a frame goes on when the client takes it or has left: the server
  cancels the generator of a client that is gone, and a client that stays without reading for ever is not
  covered;
* `Generates` and `Drives`, the steps of `stream_chat`, of the route's `async for` and of the driver task, which
  wait for their queues only;
* `Provides(p)` and `Closes(p)`: each read of the wire has an HTTP timeout, and a provider sends finitely
  many events. Without that nothing bounds a stream, and after a disconnect nobody cancels its tasks.

Failures, disconnects and timeouts may happen and may not.

The other modules state safety only. Their scripts and experiments may stop anywhere, and
what matters about them is what they leave behind.

## 4. Proofs

Thirty-eight theorems, for every value of the constants. Every safety property a passing run checks is stated by
one of them:

| module | inductive invariants | theorems |
|---|---|---|
| `ChatTurnProofs` | `TypeInv`, `AtomicInv`, `SequenceInv`, `ReplyInv`, `SerialInv`, `OutcomeInv`, `TenantInv` | `TypeCorrectness == Spec => []TypeOK`, `AtomicTurns == Spec => []TurnAtomicity`, `DisciplinedSessions == Spec => []SessionDiscipline`, `OrderedSequence == Spec => []SequenceOrder`, `MatchingReplies == Spec => []RepliesMatchPrompts`, `HistoriesAreWhole == Spec => []HistoryHasWholeTurns`; `TrueAnswers == Spec => []AnswersAreTrue`, `TrueMetrics == Spec => []MetricsAreTrue`, `FinalMetrics == Spec => MetricsComeLast`, `TenantsApart == Spec => []TenantIsolation`, `Implements == Spec => LogSpec` |
| `ProviderStreamProofs` | `StreamInv`, `SummaryInv` | `ChunksArriveInOrder == Spec => []Pipeline`, `SummariesTellTheTruth == Spec => []SummaryAgrees`, `StreamRefinesReply == Spec => ReplySpec` |
| `PlatformProofs` | `RatingInv`, `ReaderInv`, `CallsInv`, `NotionInv`, `StackInv`, `RetrievalInv`, `BudgetInv` | `RatingsStayWhole`, `ReaderCleansUp`, `CallsKeepToTheSchedule`, `WritesMatchAnswers`, `RequestsAreAccountedFor`, `RerankingFallsBack`: `AnySpec =>` always `RatingsAreWhole`, `NoStrayProcess`, `CallsFollowTheSchedule`, `EffectsMatchAnswers`, `AnswersAreAccountedFor`, `RerankersFallBack`; `PromptIsBounded`, `SourcesDropLast`, `TurnsStayWhole`, `TruncationIsTold`, `MemoryOutcomeIsTrue`: the same of `HardCap`, `DropOrder`, `WholeTurns`, `TruncatedIsTrue`, `OutcomeIsTrue` |
| `ExperimentsProofs` | `AttemptInv`, `VerdictInv`, `EvidenceInv`, `DualInv`, `DispatchInv`, `SpendInv` | `AttemptsFollowEachOther`, `VerdictsRestOnCalls`, `PublishedRunsAreWhole`, `DispatchesStayBounded`: `PaidSpec =>` always `OneAttemptAtATime`, `VerdictsAreBacked`, `CompleteIsWhole`, `DispatchesAreBounded`; `RecordedResultsAreEvidence`: if `Undisturbed`, `PaidSpec => []ResultsAreEvidence`; `SpendStaysReserved`: if `OneProcess`, `PaidSpec => []NothingUnreserved` |
| `ContextsProofs` | `MemoryInv`, `EpisodicInv`, `ReplayInv` | `NoArmLearnsTheAnswer`, `CheckedBeforeItIsPaid`, `PreparationIsSound`: `ContextSpec =>` always `NothingLeaks`, `NothingFailsLate`, `PreparedIffSound` |
| `FactLifecycleProofs` | `IInv` | `SlotsAreChains == Spec => []Lineage`, `TurnsAreAccepted == Spec => []NextTurnIsAccepted` |
| `CorpusProofs` | `IInv`, `IngestInv` | `RecordedRunsAreSound == CorpusSpec => []MeasuredWhatItDeclares`, `IngestionsAreComplete == CorpusSpec => []IngestIsComplete` |

They rest on the assumptions the modules name, which TLC evaluates on every run that extends them:

* `NonEmptyConstants` and the rest of `ChatStore`'s constants; `WindowBounds` (both bounds are
  positive); `ChatBounds` (the switches are Booleans, there is a stream mode).
* `StreamBounds`: a stream has a number of deltas; the sets of disabled and of stripping providers, and of blank
  deltas, are sets of those.
* `PlatformBounds`: "none" is no rating; `TopN` is positive and `RetrievedK` a natural number, which
  the settings' defaults (5 and 20) are; the corpus is finite; of the routes' answers none has the status 0 that stands
  for "no answer yet", and 401 is what only the staging guard answers.
* `BudgetBounds`: lengths, messages and caps are positive (the settings refuse other caps), `TopK` is
  positive, envelopes have a length.
* `ExperimentBounds`: the numbers of attempts, calls, batches, crashes and edits, the limit of each kind of
  call, the costs and caps of the attempts, and the price of a call and the cap of the campaign are natural numbers.
* `DualBounds`, `EpisodicBounds`, `ReplayBounds`: lengths, costs and budgets are natural numbers; the query is an event of
  the conversation and the thresholds are finitely many; a grid cell overlaps by less than a chunk; the budgets fit into
  each other as `ContextBudgets.validate` and the constants of `replay.py` have it.
* `QuestionsFit`: a question fits beside the instructions, the header of the memory, the reserve and a full share of
  the conversation, or what was said before it is short. See "The experiments": nothing in the code checks it, and
  the registered data satisfy it.
* `FactBounds` (`MaxTurns` and `MaxOps` are natural numbers), `ChunkCounts` (a content has a number
  of chunks).

`HistoryHasWholeTurns` speaks of deployments that are `serial`: a client waits for the answer to its last
post in a conversation before it posts there again. Without that it would be false, and nothing is said of
concurrent turns.

`RecordedResultsAreEvidence` assumes `Undisturbed`: one process of the campaign, with any number of crashes, or several of
which none dies. A stage writes its result to one file and then records it; a second process that died while it wrote the same
file, between these two steps of the first, would leave the first to record a torn file. The code
takes no lock for the campaign and is run by hand, one process at a time, which is what the run of TLC has too.

`SpendStaysReserved` assumes `OneProcess`, with any number of crashes. It is about reservations: no call costs more than its own, and
what was settled and what is still reserved stay within the cap. What was settled may be less than the bill, see `usage_unknown` under "Findings". The guard checks the caps against the ledger it has read and then
appends; with two processes both may pass the check before either appends, and TLC finds the cap exceeded
when `Procs` has two elements.

### Chat

`TypeOK` alone is not inductive: the assistant row's content is `reply[r]`, which is a request
only because a streaming turn begins after its stream and a non-streaming one gets its reply
first (`ReplyReady`). `TypeInv` adds that.

`TurnAtomicity` speaks of the tables only, and a step such as `CommitTurn` preserves it only
because of what the session has staged. `SessionDiscipline` says that: a session stages rows
of its own turn, holds exactly the question while the reply is awaited and both messages when
it commits, and nothing of the turn is in the tables before. `AtomicInv == TypeInv /\
SessionDiscipline /\ TurnAtomicity` is inductive. `QuietStep` covers all the steps that publish
nothing and only keep or drop what is staged (most of them), `PublishStep` and `CommitStep` the
publication, and one lemma each the steps that stage rows. `SessionDiscipline` is checked in
`turns` too. It says nothing of the points after the last frame: there an interrupted release may leave the
transaction open until `CloseSession`, and that it does not stay open is `TurnsEnd`.

`AnswersAreTrue`, `MetricsAreTrue` and `MetricsComeLast` relate what a handler reports to the
tables, but the handler reads neither: an answer and a metrics row come from its locals,
`generation_outcome` and the branch it is in. `OutcomeOf(q)` ties the two together, point by
point: nothing is reported and no exception is pending before the COMMIT, a frame without a
failure is only sent for a durable turn, "not_found" and "timeout" are set only where nothing
was persisted, and a failed turn may still be durable (the lost acknowledgement), which is why
"error" claims nothing. A step of one request touches another's tables never
(`TablesPublished`), so `OutcomeNext` has one case for the request that moves and `OneRequest`
for the rest.

`TenantIsolation` is not inductive either: that a conversation has one owner holds because its
id was a fresh uuid of exactly one request. `Ownership` keeps that witness: every conversation,
committed or staged, is the one of a request that arrived with `is_new`, no two such requests
share an id, and a transaction that writes messages has found or staged its conversation.

`Implements` is a step simulation. The three steps that publish (`CommitTurn`,
`CommitUnacknowledged`, `DisconnectInCommit`) add one turn (`PublishAddsTurn`): `AtomicInv` gives
both roles and that the request was not in the log, `OutcomeInv` that it was not answered,
`TenantIsolation` in the next state that the conversation is the tenant's. The three steps that
answer (`SendFrame`, `SendFrameInTransaction`, `Finish`) are a `Tell` by `OutcomeOf`
(`AnswerIsTold`). Every other step leaves messages and answers alone.

### Facts

The links of a slot are broken and mended by three assignments in one operation, and they are mended
only because the fact that is superseded is the one active fact of its slot and older than the new
one. `IInv` therefore adds `OneActive`, and `Placed`: the facts in the store are of turns taken
already, and those of the current turn have smaller indices, so the identifier of a new fact is free
(`NewId`) and its predecessor is older (`PriorIsOlder`). The facts of a slot are not one chain: a retraction
ends one, and the next assertion supersedes nothing. `Links` says that the two ends of a link agree, and
`Segments` that of two facts of a slot the earlier is not active, and superseded by the later or by one before it,
or retracted. `Provenance` adds that a fact's sources are
user turns already taken, which is what the next request's preconditions ask.

### Platform

Each part has an invariant of its own, and what is inductive of the sum is `part = "x" => Inv`: a step of another part
changes neither `part` nor the variables of this one.

* Feedback (`RatingInv`). Which columns the UPDATE names depends on a row selected earlier, and
  nothing locks it. `RatingDecided` says what makes the race harmless: a request that goes on to
  commit saw another rating than it wants and an earlier time than it stamps, so both columns
  differ and both are written (`RatingWritesBoth`). `RatedInTime` keeps every stored time
  behind the clock.
* Reads (`ReaderInv`). What the exit stack has entered says which of process and session is alive at every
  point of `start()` and `stop()`; a process outlives them only as `stuck`, after an exit that raised. While
  the session is entered the loop may have ended only if the process had.
* Calls (`CallsInv`). The property speaks of all the calls of a request that has ended, also by its deadline. `CallsSoFar` says
  of each point that they are the schedule's first ones, so many at the primary and so many at the fallback, and that `tried`
  counts those of the adapter at work; a call is appended at the end of the schedule (`ScheduleGrows`).
* Notion (`NotionInv`). `WrittenOnce` bounds what Notion holds and what is in flight, together, by one call per request,
  and `AuditFollows` says for every point of a request which audit lines it has written. Both hold of
  every request in every stage, since a call in flight outlives its request and the process.
* Middleware (`StackInv`). `WayIn` and `WayOut` say, depth by depth, which context the layer runs in,
  whether the log line is written and which response is on its way; the property is what
  they come to at depth 0.
* Retrieval (`RetrievalInv`). `ComesFromSearch`: what a stage hands on is from what the search found. The
  rest is that the search is over before a reranker decides, so a failure of either one
  leaves something to answer, and that an error after it can only be of a client that was not `buildable`.

* Budget (`BudgetInv`). The cap is checked at one place, over what three others have packed for themselves, so `Unbounded` says
  what each channel holds before the cap is enforced, and `PackedTurns` what packing a window, once or
  twice, may leave of it: its newest turns, or the beginning of the last one. That a window that was cut can never be the
  conversation's again (`Flagged`) is what makes `history_truncated` true whichever place cut it; `Reported` is
  the same for `memory_outcome`, whose count is the evidence's only until the cap.

### Ordered rows, replies and whole turns

`SequenceOrder` compares committed rows, but a row gets its number in a flush, while it is staged. `SequenceInv`
therefore speaks of committed and staged rows together (`OrderedRows`): all numbers are below `sequence` and
none is used twice, a turn's question is before its answer, and what a handler read as its history is
among the committed rows, so it is below whatever it will flush.

`RepliesMatchPrompts` needs the cache. `ReplyInv` (`MatchedReplies`) says of every message row and of every reply that
waits in a handler that the request it was generated for has the tenant, message, fingerprint and evidence
of the one it serves, and of every cache entry that its key is that of the request its reply was generated for, and that
this request had no evidence. While the flags say that no channel is on, no working request has evidence, so an
entry that survives a restart in which they change serves no other evidence than its own.

`HistoryHasWholeTurns` is about adjacency. With serial clients at most one request of a conversation is busy, the rows of
a finished turn are next to each other, and those of the busy one are last (`SerialRows` in `SerialInv`): so a
bounded read cuts inside one turn only, the oldest, and `MaterializedWindow` drops what is left of it.

### A streamed reply

`Pipeline` is not inductive: that nothing of the primary is in the queues when the fallback's stream begins
depends on what the driver knows. `StreamInv` has three parts. `StreamTypes` is the shape of the
three tasks: what a session has sent is numbered, its end marker is the last of its queue and there once it
no longer reads. `PointsAgree` says what each point of the consumer and of the driver knows of the
sessions: which were asked, and which were not. `Flow` says where the chunks are, phase by phase: read directly
(`DirectFlow`), passed on by a driver (`DriverFlow`), given up for a fallback (`FallbackFlow`: the primary ended without a
chunk and nothing was forwarded), over (`DoneFlow`), final (`ResultFlow`: all the chunks are of the provider whose result it is).
In each, the chunks forwarded and those in the session's queue are together what the session has sent.

`SummaryInv` adds the summary `ResilientProvider` logs: there is none while the driver runs and one once it is
done, of the driver's error and final result; a request that was answered without a stream has one that names the
provider of its answer.

`StreamRefinesReply` maps the answer to `ReplyStream`'s once the verdict is "final", and to the empty sequence
until then. A chunk that the client receives is a `Deliver` because it continues a numbered
prefix (`ForwardedIsNumbered`); the two ways a consumer ends are `Finish` and `Abort`; every other step, of any of
the three tasks, leaves what the client sees alone.

### The experiments

* Held-out attempts (`AttemptInv`). The number of an attempt is taken from the lines a process read, and may be stale when
  it reserves it. What makes that harmless is the `O_EXCL` file: all numbers up to that of the last start are
  reserved, so a process at `append` holds the next number, it is the only one there, and nothing
  is appended before its line; so what it read as replaceable still is. An attempt is classified by the
  process that started it, hence the line before an end is its start (`OpenAttemptIsLast`).
* Verdicts (`VerdictInv`). `CallsAgree` says of each point of a run what the audit holds of it: the calls
  below `call[r]` started and succeeded, and in `calling` one more has begun. At the two points where a run goes on to
  its verdict this says, with the check of the usage, what `Backed` asks; and nothing is
  audited for a run that is done.
* Results (`EvidenceInv`). The dataset is read after its digest was taken and may be edited in between, so a result may name one
  version and be computed from another. `Holds` orders them, seen before read before current (`seen <= data <= inputs`), so the check that
  the dataset is still the one seen, before the file is written, makes all three equal (`StageWritten`); and
  once a process works on arms or tuning, the extraction it needs is on record (`OnRecord`), where it stays.
* Dual memory (`DualInv`). The number of calls is a cardinality, so `CallsCounted` says that the kinds add up to the length of the
  ledger and that no job is in it twice; `PhasesAgree` gives the count of a phase that is over. In the phase of the workers,
  `JobsTaken` holds: what was called and what is left in the queue are together the schedule, unless a
  reservation was refused (`broken`). When the workers have joined and nothing failed, the queue is empty, so every
  job was called (`WorkersJoined`).
* Attempts (`DispatchInv`). A second attempt is allowed by what the first is recorded to have come to, and the bound on what
  was dispatched needs that record to be true: `Unheard` says that nothing of a response arrived for the open
  attempt or for one that may be repeated, `RetriesFollow` that a second attempt has such a first one in its cell, and
  `AttemptsKnown` that no identifier is given twice. `WithinCaps` is about the costs of all records, a fold over the file that
  grows by the record appended.
* Spend (`SpendInv`). The ledger's balance is a fold over its lines, so `Stands` says of that fold what the guard relies on: what is
  open was reserved under an ordinal that is not given again, and spent and open together are within the cap.
  `Pays` follows the process between reading and appending, and from there to the settlement: its reservation is open, and what the
  provider has charged for its first attempt leaves the share of the second. A crash in between leaves
  the reservation open, which only ever counts too much.
* Dual memory contexts (`MemoryInv`). What an arm may be shown is filtered where chunks are ranked, and facts where the
  threshold is chosen, both before the context is composed; the invariant carries that the rankings hold chunks of the
  prefix only (`Known`) and that no prohibited fact of its event is above the threshold. The facts of arm R come from the
  dataset, which says itself what it prohibits. The rest follows the composition: fusion,
  packing, fallback and sieve hand on some of what they were given, whatever the scores are. That the fusion orders its chunks at
  all needs the comparison of the scores, sums of fractions, to be an order that is total up to the tie break.
* Episodic contexts (`EpisodicInv`). Each stage looks up the vectors of its own chunks and queries, so `embedded = Collected` from the
  embedding on, and the candidate chosen is one of those it was collected for. Capacity is arithmetic on sums: what the
  packing keeps is within its budget (`LatestFit`, `RecordsFit`), and the budgets add up (`BudgetsAddUp`). They do for a
  question of the size `validate` allots; a longer one is not refused, and `compose_context` would raise after the
  calls are paid. In both registered data sets there is one in each conversation (up to 318 tokens where 96 are
  allotted); it fits because the six messages before it are short (`PartOfTheTalk`), hence the two cases of
  `QuestionsFit`. The header of the memory is in none of the budgets, and fits because the instructions are
  shorter than their share.
* Long context (`ReplayInv`). A step passes three checks, so the invariant says what is known at each place: at E the
  index has no fault. That a sound step is stopped nowhere is the harder half: what is packed of the newest and of the
  retrieved events fits their budgets, the challenge notices exactly the faults it is there for, and whether the answer is
  in B, a set of newest events, is a matter of the tokens that followed it.

### Folds and sums

The measures of the budget, of the ledgers and of the contexts are `FoldLeft` and `MapThenSumSet` of the community
modules, both a `CHOOSE` of a recursive function over sets. `Folding` proves what they do for every operator, base and
weight, as a module with these as constants: the fold of the empty sequence, of one with an element appended, the induction
that a fold stays within a set closed under its operator, and for sums that they are independent of the order and grow with the set. A proof about one
measure instantiates `Folding` with its operator (`Adding`, `AllCosts`, `Replays`, `Lines`, ...) and connects the two by their
definitions. The induction itself is `Induction`: a set that has 0 and the successor of each of its numbers has all of them,
from the least element of a well-founded order, which takes a set and no operator parameter.

### Ingestion and evaluation

For the evaluation, `IInv` has four parts: `Shapes`, what each variable is; `Guarded`, that a
harness past a guard has seen it hold, of the documents as they still are while `quiet`; `Recorded`,
how far the store may be for where the harness is; `Measured`, that what was found or measured
while `quiet` is among the documents the guards saw.

For the ingestion, `IngestInv` speaks of one run and, while none overlapped, of all the documents:
`Alone`, that every other run has ended; `OnePerPath`; `Taken`, that the files a run is done with
are in the corpus as it discovered them; `Replaces`, what an open transaction will leave of its
path; `Reads`, that the draft of the manifest is what the corpus holds. `OnePerPath` is the
part that fails under overlap, and the one that makes "delete the row that was found" enough.
There is one lemma per action (`DiscoverKeeps`, `CommitKeeps`, ...).

### Only model-checked

* `TurnsEnd`, `StreamIsAnswered` and `NothingLeftRunning`: liveness under fairness is out of the prover's reach.
* The seven properties of "Findings" are false, and TLC's counterexamples show it.

Every other property of the runs is a theorem.

## 5. Findings

Each is a run TLC finds violated, with the line it contradicts.

| run | what the code does | what the repository says |
|---|---|---|
| `usage_event` | the `try` around the success usage event covers `db.add`; its INSERT runs in the flush of COMMIT, and a refused row rolls the turn back | "Telemetry must never break the request." (`app/api/routes/chat.py:696`) |
| `stream_span` | the span of a failed stream says "ok": the adapters end their chunks and raise in `get_final_result` | a provider stream that broke has `"rag.generation_outcome"` "error" (`tests/core/test_tracing_pipeline_stages.py:508`, with a stand-in whose chunks raise) |
| `stream_completed` | the final result is built when the body ends, completed or not | "returns this object once the stream is fully completed" (`app/core/domain/provider.py:56`) |
| `starved` | the cap drops a source after events were selected, sets `budget_starved` and leaves the count | of `budget_starved` and the other inert outcome: "Both record `ebm25_selected_count=0`" (`docs/adr/013-ebm25-controlled-evaluation-port.md:88`) |
| `aws_client` | the AWS client is built outside of the `try`; what that raises is no `RerankerError` and fails the retrieval | "AWS's own adapter fully normalizes every failure" (`app/core/providers/cascading_reranker.py:88`) |
| `headers` | when the route raises, the 500 is made outside of the layer that adds the identifiers | "Ensures both headers are present in every HTTP response." (`app/http/middleware/request_context.py:25`) |
| `usage_unknown` | a first attempt times out, the second reports its usage, and the call is settled for the second alone | "unknown usage never becomes zero" (`experiments/conversational_semantic_memory/spend_guard.py:11`) |

Seen while modelling and not the subject of a run:

* A failed streaming turn writes no error usage event; `README.md:43` says failures emit one. In
  `ChatTurn` only the non-streaming exits lead to `ErrorTelemetry`.
* A primary that fails to open its stream, with a fallback that is not configured, is asked again
  without streaming (`docs/lld_llm_chat_platform_live_doc.md:697`).
* `generation_outcome` is "ok" before the COMMIT, and a stream cancelled while COMMIT is awaited can leave a metrics row
  "ok" for a turn the server rolled back (`app/api/routes/chat.py:491`);
  `tests/api/test_chat_metrics_write_site.py:706` accepts "ok" of a stream that was cut off.
* A client that posts again after an "error" for a turn whose COMMIT was applied posts the turn
  twice: requests carry no idempotency key (`app/api/routes/chat.py:338`). A failed first turn
  answers with the id of a conversation that was rolled back (`app/api/routes/chat.py:765`).
* Nothing bounds a provider stream that never ends (`app/core/domain/chat_service.py:209`).
* Two overlapping ingestions that saw different contents of a file leave two documents of one
  path, and a later run replaces at most one of them (`app/scripts/ingest_corpus.py:197`).
* `ContextBudgets.validate` bounds the size it allots to a question, and nothing compares a question with it
  (`experiments/conversational_memory/memory.py:110`); `compose_context` refuses a context that is too large only when it is
  composed, after the embeddings are paid (`memory.py:453`). The registered data set has questions above the allotted size, all
  after a short history, so `NothingFailsLate` is stated for data that meet `QuestionsFit`.
* When the client sends no identifier, the id in the access log is not the one in the
  response's header (`app/http/middleware/structured_logging.py:55`): each layer makes one of its own. Of two
  `X-Request-ID` headers the log takes the first and the response has the last (`request_context.py:107`). This is why
  `AnswersAreAccountedFor` compares the two for requests that bring one.
* The score of the extraction is computed event by event, so a value the dataset prohibits of one event and the extractor
  finds in another counts as a false positive only (`experiments/dual_conversational_memory/scorers.py:156`).

## 6. Not modelled, and why

* The read endpoints (conversations, usage) are single SELECTs without state of their own.
* Settings, migrations and observability: declarations, DDL and logging. Where a setting matters it is
  a constant or an initial choice of a module; the constraints that matter are in `ChatStore` and
  `CorpusIngest`.
* The reranking benchmark and the scoring, tokenising and report code of the experiments: functions
  from data to numbers, with nothing the properties tell apart.
* The T3 run, the held-out access marks and the coverage statistics of the semantic memory
  experiment, and the tuning campaigns of the corpus evaluation (`t23_*`, `tuning.py`): left for later.
* Pool sizes, roles and grants of PostgreSQL and the wire formats of the providers are outside of what
  the properties tell apart.

## 7. What is left

1. Modules for the T3 run with its held-out access, and for the evaluation campaigns.
2. An abstraction of `CorpusIngest` in place of `ChatTurn!Reingest`, which changes the evidence in
   one step.
