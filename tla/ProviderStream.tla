--------------------------- MODULE ProviderStream ---------------------------
(***************************************************************************)
(* One streamed generation, from ChatService.stream_chat down to the wire:  *)
(*                                                                          *)
(*   provider --> adapter task --> its queue --> driver task of             *)
(*   ResilientProvider --> its queue --> the route's "async for" --> client *)
(*                                                                          *)
(* Three tasks of the event loop, joined by unbounded queues that end with  *)
(* an end marker; without a fallback provider there is no driver, and the   *)
(* route consumes the adapter's queue.  A chunk is <<p, i>>, the i-th delta *)
(* of provider p, and <<p, 0>> stands for a whole answer of p.              *)
(***************************************************************************)
EXTENDS Integers, Sequences, FiniteSetsExt

CONSTANTS
    MaxChunks,     \* bound: deltas a provider sends
    DisabledSets,  \* the deployments in play: which providers lack their credentials,
    StripSets,     \* and which are Bedrock's, that strips the text it has collected
    BlankSets      \* the deltas in play that are nothing but white space

Providers == {"primary", "fallback"}

ASSUME StreamBounds ==
    /\ MaxChunks \in Nat
    /\ DisabledSets \subseteq SUBSET Providers /\ StripSets \subseteq SUBSET Providers
    /\ BlankSets \subseteq SUBSET (Providers \X (1..MaxChunks))

\* _STREAM_END.
End == <<"end", 0>>

\* _is_retryable_provider_error splits the errors in two.
Errors == {"retryable", "fatal"}

VARIABLES
    resilient,  \* a fallback provider is configured
    disabled,   \* the DisabledProviders: their stream() is the protocol's default and returns None
    strips,     \* the providers whose final result is stripped
    blank,      \* the chunks of white space alone
    adapter,    \* adapter[p]: the stream session of p and the task that reads the provider
    driver,     \* _ResilientStreamState and the point the driver task has reached
    queue,      \* state.queue: from the driver to the consumer
    pc,         \* the point the consumer (stream_chat, then the route) has reached
    reply,      \* the chunks yielded to the client
    verdict,    \* how it ended for the client
    answer,     \* the content of the final result
    span,       \* rag.generation_outcome of the rag.generate span
    summaries   \* the provider.final log records

deployment == <<resilient, disabled, strips, blank>>

vars == <<deployment, adapter, driver, queue, pc, reply, verdict, answer, span, summaries>>

consumerVars == <<pc, reply, verdict, answer, span>>

NoAdapter == [task |-> "none", parts |-> <<>>, queue |-> <<>>, result |-> "none",
              completed |-> FALSE]

NoDriver == [at |-> "none", first_chunk_emitted |-> FALSE, fallback_used |-> FALSE,
             error |-> "none", final_result |-> "none"]

Init ==
    /\ resilient \in BOOLEAN
    /\ disabled \in DisabledSets
    /\ strips \in StripSets
    /\ blank \in BlankSets
    /\ adapter = [p \in Providers |-> NoAdapter]
    /\ driver = NoDriver
    /\ queue = <<>>
    /\ pc = "open_primary"
    /\ reply = <<>>
    /\ verdict = "none"
    /\ answer = <<>>
    /\ span = "none"
    /\ summaries = <<>>

----------------------------------------------------------------------------
(* The adapter of provider p: a task that turns server events into deltas.  *)

Opens(p) == adapter' = [adapter EXCEPT ![p].task = "reading"]

\* An event with text.
Delta(p) ==
    /\ adapter[p].task = "reading"
    /\ Len(adapter[p].parts) < MaxChunks
    /\ LET chunk == <<p, Len(adapter[p].parts) + 1>>
       IN  adapter' = [adapter EXCEPT ![p].parts = Append(@, chunk),
                                      ![p].queue = Append(@, chunk)]
    /\ UNCHANGED <<deployment, driver, queue, consumerVars, summaries>>

\* The end marker is put where the stream is found to be over, not in the finally block.
EndsUnmarked(p, result, completed) ==
    adapter' = [adapter EXCEPT ![p].result = result, ![p].completed = completed,
                               ![p].queue = IF result = "ok" THEN Append(@, End) ELSE @,
                               ![p].task = "closing"]

\* The finally block: the end marker, and then the connection is closed.
Ends(p, result, completed) ==
    adapter' = [adapter EXCEPT ![p].result = result, ![p].completed = completed,
                               ![p].queue = Append(@, End), ![p].task = "closing"]

\* The body ends.  The final result is built whether or not the provider's
\* "response.completed" was among its events.
EndOfStream(p) ==
    /\ adapter[p].task = "reading"
    /\ \E completed \in BOOLEAN : Ends(p, "ok", completed)
    /\ UNCHANGED <<deployment, driver, queue, consumerVars, summaries>>

\* An error event, a read timeout, or an event that does not parse.
StreamBreaks(p) ==
    /\ adapter[p].task = "reading"
    /\ \E kind \in Errors : Ends(p, kind, FALSE)
    /\ UNCHANGED <<deployment, driver, queue, consumerVars, summaries>>

\* Closing the connection may raise, and then so does awaiting the task.
Close(p) ==
    /\ adapter[p].task = "closing"
    /\ \E result \in {adapter[p].result, "fatal"} :
          adapter' = [adapter EXCEPT ![p].task = "done", ![p].result = result]
    /\ UNCHANGED <<deployment, driver, queue, consumerVars, summaries>>

\* str.strip(), delta by delta.
Strip(s) ==
    LET solid == {i \in 1..Len(s) : s[i] \notin blank}
    IN  IF solid = {} THEN <<>> ELSE SubSeq(s, Min(solid), Max(solid))

\* The content of the final result: the deltas joined, which Bedrock strips, or without any
\* text the final event's or "(empty response)".
Content(p) ==
    LET joined == IF p \in strips THEN Strip(adapter[p].parts) ELSE adapter[p].parts
    IN  IF joined = <<>> THEN << <<p, 0>> >> ELSE joined

----------------------------------------------------------------------------
(* The driver task: _drive_stream and _consume_session.                     *)

Driving(p) == driver.at = p

\* The record names the provider the request was routed to.
LogFinalOfPrimary(p, failure, used) ==
    IF resilient
    THEN summaries' = Append(summaries, [final_provider |-> "primary", failure_kind |-> failure,
                                         fallback_used |-> used])
    ELSE UNCHANGED summaries

\* _log_final: one provider.final record, by ResilientProvider only.
LogFinal(p, failure, used) ==
    IF resilient
    THEN summaries' = Append(summaries, [final_provider |-> p, failure_kind |-> failure,
                                         fallback_used |-> used])
    ELSE UNCHANGED summaries

\* "async for chunk in session.chunks".
Forward(p) ==
    /\ Driving(p)
    /\ adapter[p].queue # <<>> /\ Head(adapter[p].queue) # End
    /\ adapter' = [adapter EXCEPT ![p].queue = Tail(@)]
    /\ queue' = Append(queue, Head(adapter[p].queue))
    /\ driver' = [driver EXCEPT !.first_chunk_emitted = TRUE]
    /\ UNCHANGED <<deployment, consumerVars, summaries>>

\* The chunks are over, and get_final_result has awaited the adapter's task.
SessionEnds(p) ==
    /\ Driving(p)
    /\ adapter[p].queue = <<End>>
    /\ adapter[p].task = "done"

\* The end marker is the last line of the try, not of the finally block.
ConcludesWithoutEnd(p, failure) ==
    /\ driver' = [driver EXCEPT !.at = "done", !.error = failure,
                                !.final_result = IF failure = "none" THEN p ELSE "none"]
    /\ LogFinal(p, failure, driver.fallback_used)
    /\ queue' = IF failure = "none" THEN Append(queue, End) ELSE queue

\* The driver's finally block: one summary, and the end marker.
Concludes(p, failure) ==
    /\ driver' = [driver EXCEPT !.at = "done", !.error = failure,
                                !.final_result = IF failure = "none" THEN p ELSE "none"]
    /\ LogFinal(p, failure, driver.fallback_used)
    /\ queue' = Append(queue, End)

SessionSucceeds(p) ==
    /\ SessionEnds(p)
    /\ adapter[p].result = "ok"
    /\ Concludes(p, "none")
    /\ UNCHANGED <<deployment, adapter, consumerVars>>

\* The second condition of the driver is forgotten: nobody looks at what was emitted.
MayFallBackAnyTime(p) ==
    ~driver.fallback_used /\ adapter[p].result = "retryable"

MayFallBack(p) ==
    ~driver.first_chunk_emitted /\ ~driver.fallback_used /\ adapter[p].result = "retryable"

SessionFallsBack(p) ==
    /\ SessionEnds(p)
    /\ MayFallBack(p)
    /\ driver' = [driver EXCEPT !.at = "open_fallback", !.fallback_used = TRUE]
    /\ UNCHANGED <<deployment, adapter, queue, consumerVars, summaries>>

SessionFails(p) ==
    /\ SessionEnds(p)
    /\ adapter[p].result # "ok" /\ ~MayFallBack(p)
    /\ Concludes(p, adapter[p].result)
    /\ UNCHANGED <<deployment, adapter, consumerVars>>

\* The fallback opens its stream, fails to, or has none: then the primary's error is raised
\* again, inside the block that reports it as the fallback's.
DriverOpensFallback ==
    /\ driver.at = "open_fallback"
    /\ \/ /\ "fallback" \notin disabled
          /\ Opens("fallback")
          /\ driver' = [driver EXCEPT !.at = "fallback"]
          /\ UNCHANGED <<queue, summaries>>
       \/ /\ \E kind \in IF "fallback" \in disabled THEN {adapter["primary"].result} ELSE Errors :
                Concludes("fallback", kind)
          /\ UNCHANGED adapter
    /\ UNCHANGED <<deployment, consumerVars>>

----------------------------------------------------------------------------
(* ResilientProvider.stream: the first session, awaited by the consumer.    *)

\* _build_stream_session, and stream_chat wraps its chunks in the span, which opens on the
\* first pull.
Consume(p) ==
    /\ Opens(p)
    /\ driver' = [driver EXCEPT !.at = p, !.fallback_used = (p = "fallback")]
    /\ pc' = "consume"
    /\ span' = "open"
    /\ UNCHANGED <<reply, verdict, answer>>

\* The one provider's session, consumed by the route itself.
ConsumeDirectly ==
    /\ Opens("primary")
    /\ pc' = "consume_direct"
    /\ span' = "open"
    /\ UNCHANGED <<driver, reply, verdict, answer>>

\* The exception reaches the route: an error frame.
Fail ==
    /\ pc' = "done"
    /\ verdict' = "error"
    /\ UNCHANGED <<reply, answer>>

\* stream() returned None: stream_chat calls run().
Run ==
    /\ pc' = "run_primary"
    /\ span' = "open"
    /\ UNCHANGED <<reply, verdict, answer>>

OpenPrimary ==
    /\ pc = "open_primary"
    /\ \/ /\ "primary" \in disabled
          /\ Run
          /\ UNCHANGED <<adapter, driver, summaries>>
       \/ /\ "primary" \notin disabled
          /\ \/ resilient /\ Consume("primary") /\ UNCHANGED summaries
             \/ ~resilient /\ ConsumeDirectly /\ UNCHANGED summaries
             \/ Fail /\ LogFinal("primary", "fatal", FALSE) /\ UNCHANGED <<adapter, driver, span>>
             \/ /\ resilient   \* a retryable error
                /\ pc' = "open_fallback"
                /\ UNCHANGED <<adapter, driver, reply, verdict, answer, span, summaries>>
    /\ UNCHANGED <<deployment, queue>>

OpenFallback ==
    /\ pc = "open_fallback"
    /\ \/ /\ "fallback" \in disabled
          /\ Run
          /\ UNCHANGED <<adapter, driver, summaries>>
       \/ /\ "fallback" \notin disabled
          /\ \/ Consume("fallback") /\ UNCHANGED summaries
             \/ /\ \E kind \in Errors : LogFinal("fallback", kind, TRUE)
                /\ Fail
                /\ UNCHANGED <<adapter, driver, span>>
    /\ UNCHANGED <<deployment, queue>>

----------------------------------------------------------------------------
(* ChatService.run over ResilientProvider.generate.                         *)

\* A disabled provider raises an auth error, which is fatal.
RunPrimary ==
    /\ pc = "run_primary"
    /\ \/ /\ "primary" \notin disabled
          /\ answer' = << <<"primary", 0>> >>
          /\ LogFinal("primary", "none", FALSE)
          /\ pc' = "run_reply"
          /\ span' = "ok"
          /\ UNCHANGED <<reply, verdict>>
       \/ /\ "primary" \notin disabled /\ resilient   \* a retryable error
          /\ pc' = "run_fallback"
          /\ UNCHANGED <<reply, verdict, answer, span, summaries>>
       \/ /\ Fail
          /\ LogFinal("primary", "fatal", FALSE)
          /\ span' = "error"
    /\ UNCHANGED <<deployment, adapter, driver, queue>>

RunFallback ==
    /\ pc = "run_fallback"
    /\ \/ /\ "fallback" \notin disabled
          /\ answer' = << <<"fallback", 0>> >>
          /\ LogFinal("fallback", "none", TRUE)
          /\ pc' = "run_reply"
          /\ span' = "ok"
          /\ UNCHANGED <<reply, verdict>>
       \/ /\ Fail
          /\ \E kind \in IF "fallback" \in disabled THEN {"fatal"} ELSE Errors :
                LogFinal("fallback", kind, TRUE)
          /\ span' = "error"
    /\ UNCHANGED <<deployment, adapter, driver, queue>>

\* asyncio.wait_for cancels generate(), which logs no summary.
RunTimesOut ==
    /\ pc \in {"run_primary", "run_fallback"}
    /\ Fail
    /\ span' = "timeout"
    /\ UNCHANGED <<deployment, adapter, driver, queue, summaries>>

\* fallback_chunks yields the whole answer.
YieldWhole ==
    /\ pc = "run_reply"
    /\ reply' = answer
    /\ pc' = "run_result"
    /\ UNCHANGED <<deployment, adapter, driver, queue, verdict, answer, span, summaries>>

ReturnWhole ==
    /\ pc = "run_result"
    /\ verdict' = "final"
    /\ pc' = "done"
    /\ UNCHANGED <<deployment, adapter, driver, queue, reply, answer, span, summaries>>

----------------------------------------------------------------------------
(* The route consumes the stream.                                           *)

\* "async for chunk in stream_session.chunks: yield token".
Receive ==
    /\ pc = "consume"
    /\ queue # <<>> /\ Head(queue) # End
    /\ reply' = Append(reply, Head(queue))
    /\ queue' = Tail(queue)
    /\ UNCHANGED <<deployment, adapter, driver, pc, verdict, answer, span, summaries>>

\* The final result is returned, whatever the driver's error.
ReceiveEndIgnoringError ==
    /\ pc = "consume"
    /\ queue # <<>> /\ Head(queue) = End
    /\ queue' = Tail(queue)
    /\ span' = "ok"
    /\ answer' = IF driver.final_result = "none" THEN reply ELSE Content(driver.final_result)
    /\ verdict' = "final"
    /\ pc' = "done"
    /\ UNCHANGED <<deployment, adapter, driver, reply, summaries>>

\* The chunks are over, which closes the span, and get_final_result raises the driver's
\* error or returns its result.
ReceiveEnd ==
    /\ pc = "consume"
    /\ queue # <<>> /\ Head(queue) = End
    /\ queue' = Tail(queue)
    /\ span' = "ok"
    /\ pc' = "done"
    /\ \/ /\ driver.error = "none"
          /\ verdict' = "final"
          /\ answer' = Content(driver.final_result)
       \/ /\ driver.error # "none"
          /\ verdict' = "error"
          /\ UNCHANGED answer
    /\ UNCHANGED <<deployment, adapter, driver, reply, summaries>>

(* The same without a driver.                                               *)

ReceiveDirectly ==
    /\ pc = "consume_direct"
    /\ adapter["primary"].queue # <<>>
    /\ LET item == Head(adapter["primary"].queue)
       IN  /\ reply' = IF item = End THEN reply ELSE Append(reply, item)
           /\ pc' = IF item = End THEN "await_task" ELSE pc
           /\ span' = IF item = End THEN "ok" ELSE span
    /\ adapter' = [adapter EXCEPT !["primary"].queue = Tail(@)]
    /\ UNCHANGED <<deployment, driver, queue, verdict, answer, summaries>>

\* get_final_result has awaited the adapter's task.
TaskAwaited ==
    /\ pc = "await_task"
    /\ adapter["primary"].task = "done"
    /\ pc' = "done"
    /\ IF adapter["primary"].result = "ok"
       THEN verdict' = "final" /\ answer' = Content("primary")
       ELSE verdict' = "error" /\ UNCHANGED answer
    /\ UNCHANGED <<deployment, adapter, driver, queue, reply, span, summaries>>

\* The client leaves, which cancels the consumer wherever it waits.  The driver and the
\* adapter are tasks of their own, and nobody cancels them; but a task that is awaited is
\* cancelled with the one that awaits it.
Disconnect ==
    /\ pc # "done"
    /\ pc' = "done"
    /\ verdict' = "cancelled"
    /\ span' = IF pc \in {"consume", "consume_direct"} THEN "cancelled" ELSE span
    /\ adapter' = IF pc = "await_task"
                  THEN [adapter EXCEPT !["primary"].task = "done"] ELSE adapter
    /\ UNCHANGED <<deployment, driver, queue, reply, answer, summaries>>

----------------------------------------------------------------------------
DriverStep ==
    \/ \E p \in Providers :
          Forward(p) \/ SessionSucceeds(p) \/ SessionFallsBack(p) \/ SessionFails(p)
    \/ DriverOpensFallback

ConsumerStep ==
    \/ OpenPrimary \/ OpenFallback
    \/ RunPrimary \/ RunFallback \/ RunTimesOut \/ YieldWhole \/ ReturnWhole
    \/ Receive \/ ReceiveEnd \/ ReceiveDirectly \/ TaskAwaited

ProviderStep(p) == Delta(p) \/ EndOfStream(p) \/ StreamBreaks(p)

Next ==
    \/ \E p \in Providers : ProviderStep(p) \/ Close(p)
    \/ DriverStep \/ ConsumerStep \/ Disconnect

Spec == Init /\ [][Next]_vars

----------------------------------------------------------------------------
(* Properties.                                                              *)

Chunks == Providers \X (0..MaxChunks)

\* What a queue holds before its end marker.
Contents(q) == IF q # <<>> /\ q[Len(q)] = End THEN SubSeq(q, 1, Len(q) - 1) ELSE q

\* The chunks the driver has taken from its session, in the order it took them.
Forwarded == reply \o Contents(queue)

\* Over the two queues and across a fallback no chunk is lost, repeated, reordered or mixed
\* with another provider's, whether or not the client is still there to take it.
Pipeline ==
    /\ ~resilient /\ adapter["primary"].task # "none" =>
          reply \o Contents(adapter["primary"].queue) = adapter["primary"].parts
    /\ \A p \in Providers :
          driver.at = p => Forwarded \o Contents(adapter[p].queue) = adapter[p].parts
    /\ driver.at = "open_fallback" => Forwarded = <<>>
    /\ driver.final_result # "none" => Forwarded = adapter[driver.final_result].parts
    /\ driver.at = "done" => \E p \in Providers : Forwarded = adapter[p].parts

\* provider.final is the one summary of a request: it names the provider whose answer the
\* client has, or a failure when it got an error; only a request that timed out has none.
SummaryAgrees ==
    resilient =>
        /\ Len(summaries) <= 1
        /\ verdict = "final" =>
              /\ Len(summaries) = 1
              /\ summaries[1].failure_kind = "none"
              /\ summaries[1].final_provider = answer[1][1]
        /\ verdict = "error" /\ span # "timeout" =>
              Len(summaries) = 1 /\ summaries[1].failure_kind # "none"

\* The stream a client sees is one provider's, with one verdict; the content of a final
\* result is all of it, but for white space at its ends.
Reply == INSTANCE ReplyStream WITH answer <- IF verdict = "final" THEN answer ELSE <<>>

ReplySpec == Reply!Spec

----------------------------------------------------------------------------
(* What the repository says of streams and the code does not do.             *)

\* "closes on completion, error or cancellation" (the docstring of _traced_generation_stream):
\* a span whose generation_outcome is "ok" is about a generation that did not fail.
SpanOkMeansAnswer == span = "ok" => verdict # "error"

\* "returns this object once the stream is fully completed" (the docstring of
\* ProviderStreamResult): a final result is about a stream the provider completed.
FinalMeansCompleted ==
    \A p \in Providers :
        verdict = "final" /\ adapter[p].result = "ok" => adapter[p].completed
=============================================================================
