----------------------------- MODULE StreamedTurn -----------------------------
(***************************************************************************)
(* One request to /chat with the generation it streams: the handler of      *)
(* ChatTurn, whose "streaming" point is the consumer of ProviderStream, and *)
(* the tasks of the provider layer, which may outlive it.  What the two     *)
(* modules promise of each other's end is checked here, with the fairness   *)
(* that the event loop, the timeouts and the server justify.                *)
(***************************************************************************)
EXTENDS ProviderStream

CONSTANTS
    Request, Tenants, Conversations, Messages,   \* of ChatStore, with one request
    MaxRows, MaxMessages

VARIABLES
    conversations, messages, usage_events, sequence, tx, cache,
    at,       \* pc of ChatTurn
    result,   \* reply of ChatTurn
    rq, prompt, outcome, failure, told, metrics, augmented, serial, corpus, restarts

chatVars ==
    <<conversations, messages, usage_events, sequence, tx, cache, at, result, rq, prompt,
      outcome, failure, told, metrics, augmented, serial, corpus, restarts>>

turnVars == <<vars, chatVars>>

Chat ==
    INSTANCE ChatTurn WITH
        Requests <- {Request}, Texts <- Messages, StreamModes <- BOOLEAN,
        FlagSettings <- {FALSE}, ClientModes <- {FALSE}, MaxCorpus <- 0, MaxRestarts <- 0,
        pc <- at, reply <- result

Streaming == at[Request] = "streaming"

TurnInit == Init /\ Chat!Init

\* The handler, but for the time it spends in the provider's stream.
Handles == Chat!HandlerStep(Request) /\ UNCHANGED vars

\* A step of stream_chat, or of the route's "async for"; the one that ends the stream
\* takes the handler on.
Generates ==
    /\ Streaming
    /\ ConsumerStep
    /\ \/ verdict' = "none" /\ UNCHANGED chatVars
       \/ verdict' = "final" /\ Chat!StreamFinishes(Request)
       \/ verdict' = "error" /\ Chat!StreamFails(Request)

\* The tasks of the provider layer, whoever awaits them.
Drives == DriverStep /\ UNCHANGED chatVars

Closes(p) == Close(p) /\ UNCHANGED chatVars

Provides(p) == ProviderStep(p) /\ UNCHANGED chatVars

\* The client leaves.
Leaves ==
    \/ Streaming /\ Disconnect /\ Chat!Disconnect(Request)
    \/ ~Streaming /\ Chat!Disconnect(Request) /\ UNCHANGED vars
    \/ Chat!DisconnectInCommit(Request) /\ UNCHANGED vars

TurnNext ==
    \/ (\E p \in Chat!Params : Chat!Arrive(Request, p)) /\ UNCHANGED vars
    \/ Handles
    \/ Chat!Failure(Request) /\ UNCHANGED vars
    \/ Generates \/ Drives \/ Leaves
    \/ \E p \in Providers : Provides(p) \/ Closes(p)

\* A ready coroutine or task is run, a statement returns unless it raises, the provider
\* call of a request that does not stream ends within timeout_s, each read of the wire is
\* bounded by the HTTP timeout and a provider sends finitely many events, and a client
\* that no longer takes its frames has left.  Nothing has to fail.
TurnSpec ==
    /\ TurnInit /\ [][TurnNext]_turnVars
    /\ WF_turnVars(Handles) /\ WF_turnVars(Generates) /\ WF_turnVars(Drives)
    /\ \A p \in Providers : WF_turnVars(Provides(p)) /\ WF_turnVars(Closes(p))

----------------------------------------------------------------------------
(* Properties.                                                              *)

\* A turn that has begun ends, whatever fails in it and wherever its client leaves, as long
\* as the client takes its frames or leaves; and the session gives its transaction back,
\* also when its release was interrupted.
TurnsEnd ==
    at[Request] = "context" ~> at[Request] = "done" /\ ~tx[Request].open

\* When the providers end their streams the client's stream ends, over two queues, a
\* fallback, errors and timeouts.
StreamIsAnswered == Streaming ~> pc = "done"

\* The tasks of a request do not outlive the providers' streams, although a client that
\* leaves cancels neither.
NothingLeftRunning ==
    (\E p \in Providers : adapter[p].task # "none") ~>
        /\ driver.at \in {"none", "done"}
        /\ \A p \in Providers : adapter[p].task \in {"none", "done"}
=============================================================================
