---------------------------- MODULE ProviderCalls ----------------------------
(***************************************************************************)
(* One answer that is not streamed: the routing policy picks a provider, its *)
(* model and a fallback; each adapter retries its own transient errors; the *)
(* resilient provider then asks the fallback; and one deadline covers it    *)
(* all.  A Bedrock call runs in a thread that the deadline cannot stop.     *)
(***************************************************************************)
EXTENDS Naturals, Sequences, FiniteSets

CONSTANTS
    MaxAttempts,                \* of each adapter, one at least
    CheapMax, SmartMin,         \* the thresholds of the heuristic policy
    Lengths                     \* message lengths in play

Adapters == {"openai", "bedrock"}
NoProvider == "none"
Model == [openai |-> "openai_model", bedrock |-> "bedrock_model", none |-> "none"]
Transient == {"rate_limit", "upstream", "timeout"}
Kinds == Transient \cup {"auth", "bad_request", "unknown"}
NoError == [kind |-> "none", retryable |-> FALSE]

VARIABLES
    config,      \* policy, primary, fallback and the adapters that are configured
    request,     \* stream and message length
    decision,    \* provider, model, fallback and its model
    at,          \* resolve, primary, fallback, done
    flying,      \* a call is under way
    calls,       \* <<adapter, model>> of every call
    tried,       \* how many of them the adapter at work has made
    error,       \* the last error
    outcome,     \* none, answer, error, deadline
    threads      \* calls that nobody awaits any more

vars == <<config, request, decision, at, flying, calls, tried, error, outcome, threads>>

NoDecision == [provider |-> NoProvider, model |-> "none", fallback |-> NoProvider, fallback_model |-> "none"]

Init ==
    /\ config \in [policy : {"static", "heuristic"}, primary : Adapters,
                   fallback : Adapters \cup {NoProvider}, configured : SUBSET Adapters]
    /\ request \in [stream : BOOLEAN, length : Lengths]
    /\ decision = NoDecision
    /\ at = "resolve" /\ flying = FALSE /\ calls = <<>> /\ tried = 0
    /\ error = NoError /\ outcome = "none" /\ threads = 0

----------------------------------------------------------------------------
(* Routing.                                                                 *)

EstimatedTokens(length) == (length + 3) \div 4

Static(c) == [provider |-> c.primary, model |-> Model[c.primary],
              fallback |-> c.fallback, fallback_model |-> Model[c.fallback]]

Swapped(c) == [provider |-> c.fallback, model |-> Model[c.fallback],
               fallback |-> c.primary, fallback_model |-> Model[c.primary]]

\* The fallback answers when the primary is not configured, or a long message is not a cheap one.
PrefersFallback(c, r) ==
    /\ c.policy = "heuristic" /\ c.fallback # NoProvider /\ ~r.stream
    /\ \/ c.primary \notin c.configured
       \/ r.length > CheapMax /\ EstimatedTokens(r.length) >= SmartMin

Resolve ==
    /\ at = "resolve"
    /\ decision' = IF PrefersFallback(config, request) THEN Swapped(config) ELSE Static(config)
    /\ at' = "primary"
    /\ UNCHANGED <<config, request, flying, calls, tried, error, outcome, threads>>

----------------------------------------------------------------------------
(* The adapters.                                                            *)

Asked == IF at = "primary" THEN decision.provider ELSE decision.fallback
AskedModel == IF at = "primary" THEN decision.model ELSE decision.fallback_model

\* A resilient provider exists when the fallback is another one than the primary.
HasFallback == decision.fallback \notin {NoProvider, decision.provider}

\* Bedrock sets the flag of its errors, OpenAI leaves it unset and looks at the kind.
ErrorOf(adapter, kind) ==
    [kind |-> kind, retryable |-> adapter = "bedrock" /\ kind \in Transient]

ShouldRetry(adapter, e) == IF adapter = "bedrock" THEN e.retryable ELSE e.kind \in Transient

\* The flag alone decides.
FallsBackByFlag(e) == e.retryable

FallsBack(e) == e.retryable \/ e.kind \in Transient

Ends(how) == at' = "done" /\ outcome' = how

\* The adapter at work raises e.
Raises(e) ==
    /\ error' = e
    /\ IF at = "primary" /\ HasFallback /\ FallsBack(e)
       THEN at' = "fallback" /\ tried' = 0 /\ UNCHANGED outcome
       ELSE Ends("error") /\ UNCHANGED tried

StartCall ==
    /\ at \in {"primary", "fallback"} /\ ~flying
    /\ Asked \in config.configured
    /\ flying' = TRUE
    /\ tried' = tried + 1
    /\ calls' = Append(calls, <<Asked, AskedModel>>)
    /\ UNCHANGED <<config, request, decision, at, error, outcome, threads>>

\* A provider that is not configured is a DisabledProvider.
CallDisabled ==
    /\ at \in {"primary", "fallback"} /\ ~flying
    /\ Asked \notin config.configured
    /\ Raises([kind |-> "auth", retryable |-> FALSE])
    /\ UNCHANGED <<config, request, decision, flying, calls, threads>>

CallAnswers ==
    /\ flying /\ flying' = FALSE
    /\ Ends("answer")
    /\ UNCHANGED <<config, request, decision, calls, tried, error, threads>>

\* After the backoff the next attempt is a call of its own.
CallFails(kind) ==
    /\ flying /\ flying' = FALSE
    /\ LET e == ErrorOf(Asked, kind)
       IN  IF ShouldRetry(Asked, e) /\ tried < MaxAttempts
           THEN error' = e /\ UNCHANGED <<at, outcome, tried>>
           ELSE Raises(e)
    /\ UNCHANGED <<config, request, decision, calls, threads>>

\* wait_for: the coroutine is cancelled, its client closed, a thread goes on.
Deadline ==
    /\ at \in {"primary", "fallback"}
    /\ Ends("deadline")
    /\ flying' = FALSE
    /\ threads' = IF flying /\ Asked = "bedrock" THEN threads + 1 ELSE threads
    /\ UNCHANGED <<config, request, decision, calls, tried, error>>

ThreadEnds ==
    /\ threads > 0
    /\ threads' = threads - 1
    /\ UNCHANGED <<config, request, decision, at, flying, calls, tried, error, outcome>>

Next ==
    \/ Resolve \/ StartCall \/ CallDisabled \/ CallAnswers \/ Deadline \/ ThreadEnds
    \/ \E kind \in Kinds : CallFails(kind)

Spec == Init /\ [][Next]_vars

----------------------------------------------------------------------------
\* So many calls of the provider that was picked, then so many of its fallback, each with the
\* model that goes with it.
Schedule(m, k) ==
    [i \in 1 .. m + k |-> IF i <= m THEN <<decision.provider, decision.model>>
                          ELSE <<decision.fallback, decision.fallback_model>>]

\* However a request ends, also cut off by its deadline in the middle of either adapter's
\* retries: its calls are some of the provider that was picked, then some of the fallback; each
\* adapter is asked MaxAttempts times at most, and the fallback only after all of the primary's
\* attempts.  One that ends with a transient error has used up the attempts of both.  What runs
\* on unawaited is the last call alone, in a Bedrock thread that the deadline cut off.
CallsFollowTheSchedule ==
    /\ \E m, k \in 0 .. MaxAttempts :
          /\ calls = Schedule(m, k)
          /\ k > 0 => HasFallback /\ m = MaxAttempts
          /\ outcome = "answer" => m > 0
          /\ outcome = "error" /\ error.kind \in Transient =>
                m = MaxAttempts /\ (HasFallback => k = MaxAttempts)
    /\ threads > 0 =>
          outcome = "deadline" /\ threads = 1 /\ calls[Len(calls)][1] = "bedrock"
=============================================================================
