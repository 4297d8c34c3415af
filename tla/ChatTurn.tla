------------------------------ MODULE ChatTurn ------------------------------
(***************************************************************************)
(* POST /chat, the only write path of the platform: the handlers of         *)
(* concurrent requests, streaming and not, from the dependencies that read  *)
(* the conversation's history to the answer the client gets.  pc[r] is the  *)
(* point r's coroutine has reached; a step runs from one await to the next. *)
(***************************************************************************)
EXTENDS ChatStore, ResponseCache, RecentWindow

CONSTANTS
    ClientModes,     \* the clients in play: those that wait for an answer, or do not
    StreamModes,     \* the values of payload.stream in play, a subset of BOOLEAN
    FlagSettings,    \* the settings of the retrieval flags in play, a subset of BOOLEAN
    MaxCorpus,       \* bound: how often the evidence corpus changes
    MaxRestarts      \* bound: how often the process is restarted

ASSUME ChatBounds ==
    /\ ClientModes \subseteq BOOLEAN
    /\ StreamModes \subseteq BOOLEAN /\ StreamModes # {}
    /\ FlagSettings \subseteq BOOLEAN /\ FlagSettings # {}
    /\ MaxCorpus \in Nat
    /\ MaxRestarts \in Nat

None == "none"

Points ==
    {"idle", "context", "streaming", "begin", "reply", "assistant", "commit", "store",
     "telemetry", "frame", "frame_in_tx", "metrics", "done"}

Outcomes == {None, "ok", "not_found", "timeout", "error"}
Answers  == {None, "success", "not_found", "error"}
Failures == {None, "provider", "database", "usage_event"}

Params ==
    [stream : StreamModes, tenant : Tenants, conversation : Conversations,
     is_new : BOOLEAN, message : Texts]

Prompts == [history : SUBSET MessageRows, evidence : 0..MaxCorpus]

VARIABLES
    pc,
    rq,          \* the request's parameters
    prompt,      \* the history and evidence its dependencies gathered
    reply,       \* service_result: the request the reply was generated for
    outcome,     \* generation_outcome, for the metrics row
    failure,     \* what the exception that ended the turn came from
    told,        \* the answer that has left for the client
    metrics,     \* rag_request_metrics: the outcome of the request's row
    augmented,   \* chat_rag_augmentation_enabled or ebm25_enabled
    serial,      \* nobody posts to a conversation that has a request in flight
    corpus,      \* the evidence the retrieval channels find; 0 is none
    restarts

handlerVars == <<pc, rq, prompt, reply, outcome, failure, told, metrics>>
deployVars  == <<augmented, serial, corpus, restarts>>
vars == <<storeVars, cache, handlerVars, deployVars>>

NoPrompt == [history |-> {}, evidence |-> 0]

Init ==
    /\ StoreInit
    /\ CacheInit
    /\ pc = [r \in Requests |-> "idle"]
    /\ rq = [r \in Requests |-> CHOOSE p \in Params : TRUE]   \* set on arrival
    /\ prompt = [r \in Requests |-> NoPrompt]
    /\ reply = [r \in Requests |-> None]
    /\ outcome = [r \in Requests |-> None]
    /\ failure = [r \in Requests |-> None]
    /\ told = [r \in Requests |-> None]
    /\ metrics = [r \in Requests |-> None]
    /\ augmented \in FlagSettings
    /\ serial \in ClientModes
    /\ corpus = IF MaxCorpus = 0 THEN 0 ELSE 1
    /\ restarts = 0

----------------------------------------------------------------------------
Goto(r, point) == pc' = [pc EXCEPT ![r] = point]

IsStream(r) == rq[r].stream

\* A client posts a message, in a new conversation (whose id is a fresh uuid4)
\* or in one whose id it sends, existing or not, its own or not.
Arrive(r, p) ==
    /\ pc[r] = "idle"
    /\ p.is_new => \A q \in Requests : pc[q] # "idle" => rq[q].conversation # p.conversation
    /\ serial => \A q \in Requests :
          rq[q].conversation = p.conversation => pc[q] \in {"idle", "done"}
    /\ rq' = [rq EXCEPT ![r] = p]
    /\ Goto(r, "context")
    /\ UNCHANGED <<storeVars, cache, prompt, reply, outcome, failure, told, metrics,
                   deployVars>>

\* The read forgets the ownership check and the tenant filter.
HistoryOfAnyTenant(r) ==
    MaterializedWindow({m \in messages : m.conversation = rq[r].conversation})

\* What the memory dependency reads on its own short-lived session.
HistoryOf(r) ==
    IF rq[r].is_new \/ ~Owns(rq[r].tenant, rq[r].conversation)
    THEN {}
    ELSE MaterializedWindow({m \in messages : /\ m.conversation = rq[r].conversation
                                              /\ m.tenant = rq[r].tenant})

\* The dependencies get_chat_memory_context and get_chat_rag_context, before any
\* transaction.  Neither raises: a timeout, an error or a flag that is off leaves
\* its channel empty, and enforce_added_context_cap drops what does not fit.
ReadContext(r) ==
    /\ pc[r] = "context"
    /\ \E history \in NewestTurns(HistoryOf(r)), evidence \in {IF augmented THEN corpus ELSE 0, 0} :
          prompt' = [prompt EXCEPT ![r] = [history |-> history, evidence |-> evidence]]
    /\ Goto(r, IF IsStream(r) THEN "streaming" ELSE "begin")
    /\ UNCHANGED <<storeVars, cache, rq, reply, outcome, failure, told, metrics, deployVars>>

\* The provider's stream has ended with its final result.  No timeout bounds it.
StreamFinishes(r) ==
    /\ pc[r] = "streaming"
    /\ reply' = [reply EXCEPT ![r] = r]
    /\ Goto(r, "begin")
    /\ UNCHANGED <<storeVars, cache, rq, prompt, outcome, failure, told, metrics, deployVars>>

----------------------------------------------------------------------------
(* The turn ends in an exception.  Leaving "async with db.begin()" rolls the *)
(* session back.  The streaming handler then yields an error frame; the      *)
(* other one goes on to write its error telemetry.                           *)

\* The first outcome wins: an exception does not replace the "ok" set before COMMIT.
FailTurnKeepingOutcome(r, kind, cause) ==
    /\ outcome' = [outcome EXCEPT ![r] = IF @ = None THEN kind ELSE @]
    /\ failure' = [failure EXCEPT ![r] = cause]
    /\ Goto(r, IF IsStream(r) THEN "frame" ELSE "telemetry")
    /\ UNCHANGED <<cache, rq, prompt, reply, told, metrics, deployVars>>

FailTurn(r, kind, cause) ==
    /\ outcome' = [outcome EXCEPT ![r] = kind]
    /\ failure' = [failure EXCEPT ![r] = cause]
    /\ Goto(r, IF IsStream(r) THEN "frame" ELSE "telemetry")
    /\ UNCHANGED <<cache, rq, prompt, reply, told, metrics, deployVars>>

StreamFails(r) ==
    /\ pc[r] = "streaming"
    /\ FailTurn(r, "error", "provider")
    /\ UNCHANGED storeVars

\* The failure is caught inside the transaction's block, whose exit is no error any more.
ProviderFailsInTransaction(r) ==
    /\ pc[r] = "reply"
    /\ \E kind \in {"timeout", "error"} : FailTurn(r, kind, "provider")
    /\ UNCHANGED storeVars

\* ChatService.run raises ProviderTimeoutError at timeout_s, or
\* ProviderExecutionError.
ProviderFails(r) ==
    /\ pc[r] = "reply"
    /\ \E kind \in {"timeout", "error"} : FailTurn(r, kind, "provider")
    /\ Rollback(r)
    /\ UNCHANGED sequence

\* A statement of the turn, or its COMMIT, fails in the database.
DatabaseFails(r) ==
    /\ pc[r] \in {"begin", "assistant", "commit"}
    /\ FailTurn(r, "error", "database")
    /\ Rollback(r)
    /\ UNCHANGED sequence

----------------------------------------------------------------------------
(* The business transaction, the same on both paths but for the reply, which *)
(* the non-streaming handler obtains inside it.                              *)

\* The route does not compare the conversation's tenant with the request's.
OwnedWithoutTenantCheck(r) == \E row \in conversations : row.id = rq[r].conversation

\* "conv is None or conv.tenant_id != tenant_id", negated.
Owned(r) == Owns(rq[r].tenant, rq[r].conversation)

\* Create the conversation, or check that the tenant owns it; flush the user message.
OpenTurn(r) ==
    /\ pc[r] = "begin"
    /\ rq[r].is_new \/ Owned(r)
    /\ Begin(r, IF rq[r].is_new
                THEN {[id |-> rq[r].conversation, tenant |-> rq[r].tenant]} ELSE {},
             {MessageRow(r, rq[r].conversation, rq[r].tenant, "user", rq[r].message)})
    /\ sequence' = sequence + 1
    /\ Goto(r, IF IsStream(r) THEN "assistant" ELSE "reply")
    /\ UNCHANGED <<tables, cache, rq, prompt, reply, outcome, failure, told, metrics, deployVars>>

\* The conversation is missing or another tenant's.  Raising HTTPException leaves
\* the transaction; the streaming handler yields its frame inside it.
NotFound(r) ==
    /\ pc[r] = "begin"
    /\ ~rq[r].is_new /\ ~Owned(r)
    /\ outcome' = [outcome EXCEPT ![r] = "not_found"]
    /\ IF IsStream(r)
       THEN Begin(r, {}, {}) /\ Goto(r, "frame_in_tx")
       ELSE UNCHANGED tx /\ Goto(r, "metrics")
    /\ UNCHANGED <<tables, sequence, cache, rq, prompt, reply, failure, told, metrics, deployVars>>

Key(r) == CacheKey(rq[r].tenant, prompt[r].history, rq[r].message)

\* The lookup ignores _cache_bypass_reason.
CacheHitWithoutBypass(r) ==
    /\ pc[r] = "reply"
    /\ \E e \in Hits(Key(r)) : reply' = [reply EXCEPT ![r] = e.reply]
    /\ Goto(r, "assistant")
    /\ UNCHANGED <<storeVars, cache, rq, prompt, outcome, failure, told, metrics, deployVars>>

\* The reply comes from the cache, unless a retrieval channel is on.
CacheHit(r) ==
    /\ pc[r] = "reply"
    /\ ~augmented
    /\ \E e \in Hits(Key(r)) : reply' = [reply EXCEPT ![r] = e.reply]
    /\ Goto(r, "assistant")
    /\ UNCHANGED <<storeVars, cache, rq, prompt, outcome, failure, told, metrics, deployVars>>

\* Bypassed, a miss, or a lookup that failed: the provider answers in time.
ProviderAnswers(r) ==
    /\ pc[r] = "reply"
    /\ reply' = [reply EXCEPT ![r] = r]
    /\ Goto(r, "assistant")
    /\ UNCHANGED <<storeVars, cache, rq, prompt, outcome, failure, told, metrics, deployVars>>

AssistantRow(r) == MessageRow(r, rq[r].conversation, rq[r].tenant, "assistant", reply[r])

\* The user and the assistant row commit separately: the session is committed
\* before the assistant row is flushed.
FlushAssistantAfterCommit(r) ==
    /\ pc[r] = "assistant"
    /\ Publish(r)
    /\ tx' = [tx EXCEPT ![r] = [NoTx EXCEPT !.open = TRUE, !.messages = {AssistantRow(r)}]]
    /\ sequence' = sequence + 1
    /\ outcome' = [outcome EXCEPT ![r] = "ok"]
    /\ Goto(r, "commit")
    /\ UNCHANGED <<cache, rq, prompt, reply, failure, told, metrics, deployVars>>

\* The done frame leaves before the COMMIT.
FlushAssistantAndAnswer(r) ==
    /\ pc[r] = "assistant"
    /\ Stage(r, {AssistantRow(r)}, {})
    /\ sequence' = sequence + 1
    /\ outcome' = [outcome EXCEPT ![r] = "ok"]
    /\ told' = [told EXCEPT ![r] = IF IsStream(r) THEN "success" ELSE @]
    /\ Goto(r, "commit")
    /\ UNCHANGED <<tables, cache, rq, prompt, reply, failure, metrics, deployVars>>

\* Flushes the assistant row, sets generation_outcome, and adds the UsageEvent; the
\* event is left out when building it raises.
FlushAssistant(r) ==
    /\ pc[r] = "assistant"
    /\ \E usage \in {{}, {[request |-> r, status |-> "success", message |-> "assistant"]}} :
          Stage(r, {AssistantRow(r)}, usage)
    /\ sequence' = sequence + 1
    /\ outcome' = [outcome EXCEPT ![r] = "ok"]
    /\ Goto(r, "commit")
    /\ UNCHANGED <<tables, cache, rq, prompt, reply, failure, told, metrics, deployVars>>

CommitTurn(r) ==
    /\ pc[r] = "commit"
    /\ Commit(r)
    /\ Goto(r, IF IsStream(r) THEN "frame" ELSE "store")
    /\ UNCHANGED <<sequence, cache, rq, prompt, reply, outcome, failure, told, metrics, deployVars>>

\* The server commits, but its acknowledgement is lost: the handler sees an exception.
CommitUnacknowledged(r) ==
    /\ pc[r] = "commit"
    /\ FailTurn(r, "error", "database")
    /\ Commit(r)
    /\ UNCHANGED sequence

\* The UsageEvent is only added to the session, so it is inserted by the flush that
\* COMMIT starts with; the database refuses the row and the whole turn with it.
UsageInsertFails(r) ==
    /\ pc[r] = "commit"
    /\ tx[r].usage # {}
    /\ FailTurn(r, "error", "usage_event")
    /\ Rollback(r)
    /\ UNCHANGED sequence

----------------------------------------------------------------------------
(* After the transaction.                                                   *)

\* cache.set after the commit, for a reply the provider has just given; a write that
\* fails is swallowed.
StoreReply(r) ==
    /\ pc[r] = "store"
    /\ IF reply[r] = r /\ ~augmented
       THEN Store(Key(r), reply[r]) \/ UNCHANGED cache
       ELSE UNCHANGED cache
    /\ Goto(r, "metrics")
    /\ UNCHANGED <<storeVars, rq, prompt, reply, outcome, failure, told, metrics, deployVars>>

\* The error UsageEvent, in a transaction of its own and without foreign keys; best effort.
ErrorTelemetry(r) ==
    /\ pc[r] = "telemetry"
    /\ \E rows \in {{}, {[request |-> r, status |-> "error", message |-> "null"]}} :
          usage_events' = usage_events \cup rows
    /\ Goto(r, "metrics")
    /\ UNCHANGED <<conversations, messages, sequence, tx, cache, rq, prompt, reply, outcome,
                   failure, told, metrics, deployVars>>

\* The answer of the branch the handler is in.
Answer(r) ==
    IF outcome[r] = "not_found" THEN "not_found"
    ELSE IF failure[r] # None THEN "error" ELSE "success"

\* The streaming handler yields its done or error frame.
SendFrame(r) ==
    /\ pc[r] = "frame"
    /\ told' = [told EXCEPT ![r] = Answer(r)]
    /\ Goto(r, "metrics")
    /\ UNCHANGED <<storeVars, cache, rq, prompt, reply, outcome, failure, metrics, deployVars>>

\* The not_found frame, and the return that leaves its transaction.
SendFrameInTransaction(r) ==
    /\ pc[r] = "frame_in_tx"
    /\ told' = [told EXCEPT ![r] = Answer(r)]
    /\ Rollback(r)
    /\ Goto(r, "metrics")
    /\ UNCHANGED <<sequence, cache, rq, prompt, reply, outcome, failure, metrics, deployVars>>

\* The finally block: generation_outcome, or the path's default when none was set.
MetricsOutcome(r) ==
    IF outcome[r] # None THEN outcome[r] ELSE IF IsStream(r) THEN "cancelled" ELSE "error"

\* The row is written whether or not the transaction was released.
WriteMetricsUnguarded(r) ==
    /\ metrics' = [metrics EXCEPT ![r] = MetricsOutcome(r)]
    /\ UNCHANGED storeVars

\* One row on the operational session, lost on any error or timeout, and skipped while
\* the business transaction has not been released.
WriteMetrics(r) ==
    /\ \/ /\ ~tx[r].open
          /\ metrics' = [metrics EXCEPT ![r] = MetricsOutcome(r)]
       \/ UNCHANGED metrics
    /\ UNCHANGED storeVars

\* The finally block; the non-streaming answer leaves when it is through, whether or not
\* the client is still there.  The handler's locals go with it.
Finish(r) ==
    /\ pc[r] = "metrics"
    /\ WriteMetrics(r)
    /\ told' \in IF IsStream(r) THEN {told} ELSE {told, [told EXCEPT ![r] = Answer(r)]}
    /\ Goto(r, "done")
    /\ reply' = [reply EXCEPT ![r] = None]
    /\ outcome' = [outcome EXCEPT ![r] = None]
    /\ failure' = [failure EXCEPT ![r] = None]
    /\ UNCHANGED <<cache, rq, prompt, deployVars>>

----------------------------------------------------------------------------
(* A client that leaves cancels a streaming handler where it stands.  Neither *)
(* GeneratorExit nor CancelledError is an Exception, so no handler of the     *)
(* route catches it: the generator runs its finally block and ends.           *)

\* Cancelled outside of the COMMIT; an open transaction is rolled back, or its release
\* is interrupted as well and the session still reports it open.
Disconnect(r) ==
    /\ IsStream(r)
    /\ pc[r] \in {"streaming", "begin", "assistant", "frame", "frame_in_tx"}
    /\ tx' \in {tx, [tx EXCEPT ![r] = NoTx]}
    /\ Goto(r, "metrics")
    /\ UNCHANGED <<tables, sequence, cache, rq, prompt, reply, outcome, failure, told,
                   metrics, deployVars>>

\* Cancelled while COMMIT is under way: the server may or may not have applied it.
DisconnectInCommit(r) ==
    /\ IsStream(r)
    /\ pc[r] = "commit"
    /\ tx' \in {[tx EXCEPT ![r] = NoTx], [tx EXCEPT ![r] = [NoTx EXCEPT !.open = TRUE]]}
    /\ Publish(r) \/ UNCHANGED tables
    /\ Goto(r, "metrics")
    /\ UNCHANGED <<sequence, cache, rq, prompt, reply, outcome, failure, told, metrics,
                   deployVars>>

\* get_db closes the session only when the handler has given its answer: the close follows
\* the yield, and no "async with" stands around it.
CloseSessionAfterAnswer(r) ==
    /\ pc[r] = "done"
    /\ tx[r].open
    /\ told[r] # None
    /\ Rollback(r)
    /\ UNCHANGED <<sequence, cache, handlerVars, deployVars>>

\* get_db closes the session, which rolls back what an interrupted release left open.
CloseSession(r) ==
    /\ pc[r] = "done"
    /\ tx[r].open
    /\ Rollback(r)
    /\ UNCHANGED <<sequence, cache, handlerVars, deployVars>>

----------------------------------------------------------------------------
(* Around the handlers.                                                     *)

\* The process dies and a new one starts, perhaps with other feature flags.  The server
\* rolls the open transactions back; Redis keeps its entries.
Restart ==
    /\ restarts < MaxRestarts
    /\ restarts' = restarts + 1
    /\ augmented' \in FlagSettings
    /\ pc' = [r \in Requests |-> IF pc[r] = "idle" THEN "idle" ELSE "done"]
    /\ tx' = [r \in Requests |-> NoTx]
    /\ reply' = [r \in Requests |-> None]
    /\ outcome' = [r \in Requests |-> None]
    /\ failure' = [r \in Requests |-> None]
    /\ UNCHANGED <<tables, sequence, cache, rq, prompt, told, metrics, serial, corpus>>

\* The corpus is ingested again: the retrieval channels find other evidence.
Reingest ==
    /\ corpus < MaxCorpus
    /\ corpus' = corpus + 1
    /\ UNCHANGED <<storeVars, cache, handlerVars, augmented, serial, restarts>>

CacheExpires ==
    /\ \E e \in cache : Expire(e)
    /\ UNCHANGED <<storeVars, handlerVars, deployVars>>

\* What the event loop, the database and the timeouts drive without the client.
HandlerStep(r) ==
    \/ ReadContext(r)
    \/ OpenTurn(r) \/ NotFound(r)
    \/ CacheHit(r) \/ ProviderAnswers(r)
    \/ FlushAssistant(r)
    \/ CommitTurn(r)
    \/ StoreReply(r) \/ ErrorTelemetry(r)
    \/ SendFrame(r) \/ SendFrameInTransaction(r)
    \/ Finish(r) \/ CloseSession(r)

\* What may go wrong instead.
Failure(r) ==
    ProviderFails(r) \/ DatabaseFails(r) \/ CommitUnacknowledged(r) \/ UsageInsertFails(r)

ProviderStreams(r) == StreamFinishes(r) \/ StreamFails(r)

Next ==
    \/ \E r \in Requests :
          \/ \E p \in Params : Arrive(r, p)
          \/ HandlerStep(r) \/ Failure(r)
          \/ ProviderStreams(r)
          \/ Disconnect(r) \/ DisconnectInCommit(r)
    \/ Restart \/ Reingest \/ CacheExpires

Spec == Init /\ [][Next]_vars

----------------------------------------------------------------------------
(* Properties.                                                              *)

TypeOK ==
    /\ StoreTypeOK
    /\ pc \in [Requests -> Points]
    /\ rq \in [Requests -> Params]
    /\ prompt \in [Requests -> Prompts]
    /\ reply \in [Requests -> Requests \cup {None}]
    /\ outcome \in [Requests -> Outcomes]
    /\ failure \in [Requests -> Failures]
    /\ told \in [Requests -> Answers]
    /\ metrics \in [Requests -> Outcomes \cup {"cancelled"}]
    /\ \A e \in cache : e.reply \in Requests
    /\ augmented \in FlagSettings
    /\ serial \in ClientModes
    /\ corpus \in 0..MaxCorpus
    /\ restarts \in 0..MaxRestarts

\* The roles of the rows of r's turn that are durable.
RolesOf(r) == {m.role : m \in {x \in messages : x.request = r}}

Durable(r) == RolesOf(r) = Roles

\* "No partial persistence": whatever fails, disconnects or restarts, a turn is in the
\* tables with both its messages or not at all, no conversation is there without a
\* message, and a success usage event only with the turn it is about.
TurnAtomicity ==
    /\ \A r \in Requests : RolesOf(r) \in {{}, Roles}
    /\ \A c \in conversations : \E m \in messages : m.conversation = c.id
    /\ \A u \in usage_events : u.status = "success" => Durable(u.request)

\* The roles of the rows r has flushed and not committed.
StagedRoles(r) == {m.role : m \in tx[r].messages}

OwnSession(r) ==
    /\ ~tx[r].open => tx[r] = NoTx
    /\ \A m \in tx[r].messages :
          m.request = r /\ m.conversation = rq[r].conversation /\ m.tenant = rq[r].tenant
    /\ \A c \in tx[r].conversations :
          c = [id |-> rq[r].conversation, tenant |-> rq[r].tenant]
    /\ \A u \in tx[r].usage : u.request = r /\ u.status = "success"

\* A session stages rows of its own turn only, it holds the question while the reply is
\* awaited and both messages when it commits; before that nothing of the turn is in the
\* tables, and an error is reported only after the transaction was given back.  The points
\* after the last frame are not spoken of: there the closing of the session may still be due.
SessionDiscipline ==
    \A r \in Requests :
        /\ OwnSession(r)
        /\ pc[r] \in {"reply", "assistant"} => StagedRoles(r) = {"user"} /\ tx[r].usage = {}
        /\ pc[r] = "commit" => StagedRoles(r) = Roles
        /\ pc[r] \in {"idle", "context", "streaming", "begin", "store", "telemetry", "frame"}
              => ~tx[r].open
        /\ pc[r] \in {"idle", "context", "streaming", "begin", "reply", "assistant", "commit"}
              => RolesOf(r) = {}

\* A message belongs to the tenant that owns its conversation, which has one owner, and
\* the prompt sent to a provider has only messages of the request's own conversation and
\* tenant, although the stream path asks the provider before the route's own check.
TenantIsolation ==
    /\ \A c, d \in conversations : c.id = d.id => c = d
    /\ \A m \in messages : [id |-> m.conversation, tenant |-> m.tenant] \in conversations
    /\ \A r \in Requests : \A m \in prompt[r].history :
          m.tenant = rq[r].tenant /\ m.conversation = rq[r].conversation

\* A client that has been told "success" can find its turn, and one that was told
\* "not_found" has left nothing behind, not even a usage event.
AnswersAreTrue ==
    \A r \in Requests :
        /\ told[r] = "success" => Durable(r)
        /\ told[r] = "not_found" =>
              RolesOf(r) = {} /\ \A u \in usage_events : u.request # r

\* The reply a turn persists was generated for the same tenant, the same messages and
\* the same retrieved evidence, also when it came out of the response cache, across
\* restarts that change the feature flags.
RepliesMatchPrompts ==
    \A m \in messages :
        m.role = "assistant" =>
            LET q == m.content
                r == m.request
            IN  /\ rq[q].tenant = rq[r].tenant
                /\ rq[q].message = rq[r].message
                /\ Fingerprint(prompt[q].history) = Fingerprint(prompt[r].history)
                /\ prompt[q].evidence = prompt[r].evidence

\* sequence orders what it is used to order: no two rows share a number, a question comes
\* before its answer, and the history a turn was generated from comes before the turn.
SequenceOrder ==
    /\ \A m, n \in messages : m.sequence = n.sequence => m = n
    /\ \A m, n \in messages :
          m.request = n.request /\ m.role = "user" /\ n.role = "assistant"
              => m.sequence < n.sequence
    /\ \A n \in messages : \A m \in prompt[n.request].history : m.sequence < n.sequence

\* The window hands the provider whole turns, each question with the answer to it, when
\* clients wait for an answer before they post again.
HistoryHasWholeTurns ==
    serial => \A r \in Requests : \A m \in prompt[r].history :
        {x.role : x \in {y \in prompt[r].history : y.request = m.request}} = Roles

\* A metrics row agrees with the tables: "not_found", "timeout" and "cancelled" are the
\* outcomes of requests that persisted nothing, and "ok" that of a durable turn.  The
\* last holds of the non-streaming path only.
MetricsAreTrue ==
    \A r \in Requests :
        /\ metrics[r] \in {"not_found", "timeout", "cancelled"} => RolesOf(r) = {}
        /\ metrics[r] = "ok" /\ ~IsStream(r) => Durable(r)

\* AC11: the metrics row is written after the business transaction was released, and what
\* it reports is final, no row of the request appears any more.
MetricsComeLast ==
    [][\A r \in Requests :
          metrics'[r] # None => ~tx[r].open /\ RolesOf(r)' = RolesOf(r)]_vars

\* /chat implements the log of whole turns.
Log ==
    INSTANCE TurnLog WITH
        turns <- {[request |-> m.request, conversation |-> m.conversation,
                   tenant |-> m.tenant, roles |-> RolesOf(m.request)] : m \in messages}

LogSpec == Log!Spec

----------------------------------------------------------------------------
(* What the repository says of /chat and the code does not do.               *)

\* "Telemetry must never break the request" (the comment in chat.py over the usage event):
\* no turn fails because of its usage event.
TelemetryBreaksNothing ==
    \A r \in Requests : failure[r] # "usage_event"
=============================================================================
