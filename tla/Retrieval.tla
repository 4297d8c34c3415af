------------------------------ MODULE Retrieval ------------------------------
(***************************************************************************)
(* One retrieval: rewrite the query, embed it, search the corpus by meaning *)
(* and by keyword, rerank through two backends in cascade, and judge a short *)
(* result.  Each stage calls a service that may fail; the chat route runs it *)
(* under a deadline and turns what it gets into bounded sources, the        *)
(* retrieval route returns it or the exception.                             *)
(***************************************************************************)
EXTENDS Naturals, Sequences, FiniteSets, SequencesExt

CONSTANTS
    ChunkIds,          \* the chunks of the corpus, as numbers: their ids order ties
    Length,            \* characters of each chunk
    TopK, TopN, MinReranked,
    MaxAttempts,       \* of the embedding call
    MaxSources, MaxSourceChars, MaxContextChars

VARIABLES
    route,        \* who retrieves: "chat" or "retrieve"
    semantic,     \* the chunks by distance to the query, ties by id
    keyword,      \* the chunks that match its words, by rank, ties by id
    buildable,    \* boto3.client() finds what it needs: a region, a profile that parses
    at,           \* the stage
    attempts,     \* of the embedding call
    candidates,   \* what the search found, in its order
    answer,       \* the indices a reranker ranked: none until one answered
    result,       \* the chunks, whether they fell back, and the evaluator's verdict
    outcome       \* ok, empty, timeout or error, with the sources of the chat route

vars == <<route, semantic, keyword, buildable, at, attempts, candidates, answer, result, outcome>>
corpus == <<route, semantic, keyword, buildable>>

NoResult == [chunks |-> <<>>, fallback |-> FALSE, verdict |-> "none"]
NoOutcome == [kind |-> "none", sources |-> <<>>]

Init ==
    /\ route \in {"chat", "retrieve"}
    /\ \E present \in SUBSET ChunkIds : semantic \in SetToSeqs(present)
    /\ keyword \in SetToAllKPermutations(ToSet(semantic))
    /\ buildable \in BOOLEAN
    /\ at = "rewrite" /\ attempts = 0
    /\ candidates = <<>> /\ answer = {}
    /\ result = NoResult /\ outcome = NoOutcome

----------------------------------------------------------------------------
(* hybrid_search: both rankings cut to TopK, fused by reciprocal rank.      *)

RankIn(ranking, c) == CHOOSE i \in 1 .. Len(ranking) : ranking[i] = c

Cut(s, n) == SubSeq(s, 1, IF Len(s) < n THEN Len(s) ELSE n)

\* 1/(60 + rank), as a fraction; zero when the chunk is not in the ranking.
Part(ranking, c) ==
    IF c \in ToSet(ranking) THEN <<1, 60 + RankIn(ranking, c)>> ELSE <<0, 1>>

Score(s, k, c) ==
    LET a == Part(s, c)  b == Part(k, c)
    IN  <<a[1] * b[2] + b[1] * a[2], a[2] * b[2]>>

\* A higher score first, then the smaller id.
Before(s, k, c, d) ==
    LET x == Score(s, k, c)  y == Score(s, k, d)
    IN  \/ x[1] * y[2] > y[1] * x[2]
        \/ x[1] * y[2] = y[1] * x[2] /\ c < d

\* The one that so many of the chunks found come before.
Placed(s, k, found, n) ==
    CHOOSE c \in found : Cardinality({d \in found : Before(s, k, d, c)}) = n

Fused(s, k) ==
    LET found == ToSet(s) \cup ToSet(k)
    IN  [i \in 1 .. Cardinality(found) |-> Placed(s, k, found, i - 1)]

HybridSearch == Cut(Fused(Cut(semantic, TopK), Cut(keyword, TopK)), TopK)

----------------------------------------------------------------------------
(* The chat route's sources.                                                *)

Least(a, b) == IF a < b THEN a ELSE b

Allowed(remaining) == Least(MaxSourceChars, remaining)

TakeSource(taken, c) ==
    IF Len(taken.sources) >= MaxSources \/ taken.remaining = 0 \/ Length[c] = 0
    THEN taken
    ELSE LET chars == Least(Length[c], Allowed(taken.remaining))
         IN  [sources |-> Append(taken.sources,
                            [citation |-> Len(taken.sources) + 1, chunk |-> c,
                             chars |-> chars, truncated |-> chars < Length[c]]),
              remaining |-> IF chars > taken.remaining THEN 0 ELSE taken.remaining - chars]

Augment(chunks) ==
    FoldLeft(TakeSource, [sources |-> <<>>, remaining |-> MaxContextChars], chunks).sources

----------------------------------------------------------------------------
(* How a retrieval ends.                                                    *)

Finish(r) ==
    /\ at' = "done"
    /\ result' = r
    /\ LET sources == IF route = "chat" THEN Augment(r.chunks) ELSE <<>>
       IN  outcome' = [kind |-> IF (IF route = "chat" THEN sources ELSE r.chunks) = <<>>
                                THEN "empty" ELSE "ok",
                       sources |-> sources]

\* An exception: the chat goes on without sources, the retrieval route answers 500.
Raise ==
    /\ at' = "done"
    /\ outcome' = [kind |-> "error", sources |-> <<>>]
    /\ UNCHANGED result

\* wait_for cancels the stage it is in.
Deadline ==
    /\ route = "chat" /\ at # "done"
    /\ at' = "done"
    /\ outcome' = [kind |-> "timeout", sources |-> <<>>]
    /\ UNCHANGED <<corpus, attempts, candidates, answer, result>>

----------------------------------------------------------------------------
(* rewrite, embed, search.                                                  *)

\* Whether the provider answers or fails, there is a query to embed.
Rewrite ==
    /\ at = "rewrite"
    /\ at' = "embed"
    /\ UNCHANGED <<corpus, attempts, candidates, answer, result, outcome>>

Embed ==
    /\ at = "embed"
    /\ attempts' = attempts + 1
    /\ at' = "search"
    /\ UNCHANGED <<corpus, candidates, answer, result, outcome>>

EmbedFails(retryable) ==
    /\ at = "embed"
    /\ attempts' = attempts + 1
    /\ IF retryable /\ attempts + 1 < MaxAttempts
       THEN UNCHANGED <<at, result, outcome>>
       ELSE Raise
    /\ UNCHANGED <<corpus, candidates, answer>>

Search ==
    /\ at = "search"
    /\ candidates' = HybridSearch
    /\ IF HybridSearch = <<>>
       THEN Finish(NoResult)
       ELSE at' = "rerank" /\ UNCHANGED <<result, outcome>>
    /\ UNCHANGED <<corpus, attempts, answer>>

SearchFails ==
    /\ at = "search"
    /\ Raise
    /\ UNCHANGED <<corpus, attempts, candidates, answer>>

----------------------------------------------------------------------------
(* rerank: GCP, then AWS, then the search's own order.                      *)

\* A short result goes to the evaluator first.
Ranked(chunks, fallback) ==
    LET r == [chunks |-> chunks, fallback |-> fallback, verdict |-> "none"]
    IN  IF Len(chunks) < MinReranked
        THEN at' = "evaluate" /\ result' = r /\ UNCHANGED outcome
        ELSE Finish(r)

FallBack == Ranked(Cut(candidates, TopN), TRUE) /\ UNCHANGED answer

\* Ranks follow the order of the answer; an index may come twice or out of range.
Answers == UNION {[1 .. n -> 0 .. Len(candidates)] : n \in 0 .. Len(candidates)}
IndicesAreValid(a) == \A i \in DOMAIN a : a[i] < Len(candidates)

TakeAnswer(a) ==
    IF IndicesAreValid(a)
    THEN answer' = {a} /\ Ranked([i \in DOMAIN a |-> candidates[a[i] + 1]], FALSE)
    ELSE FallBack

\* A top_n of more than the candidates, or a blank one, is refused before any call.
RequestIsValid(blank) == TopN <= Len(candidates) /\ ~blank

Validate(blank) ==
    /\ at = "rerank"
    /\ IF RequestIsValid(blank)
       THEN at' = "token" /\ UNCHANGED <<answer, result, outcome>>
       ELSE FallBack
    /\ UNCHANGED <<corpus, attempts, candidates>>

\* An exception that no adapter normalized goes through.
CascadesNormalized(failure) == failure = "transient"

Cascades(failure) == failure \in {"transient", "unnormalized"}

GcpAnswers(a) ==
    /\ at = "rank"
    /\ TakeAnswer(a)
    /\ UNCHANGED <<corpus, attempts, candidates>>

GcpToken ==
    /\ at = "token" /\ at' = "rank"
    /\ UNCHANGED <<corpus, attempts, candidates, answer, result, outcome>>

GcpFails(failure) ==
    /\ at \in {"token", "rank"}
    /\ IF Cascades(failure)
       THEN at' = "aws" /\ UNCHANGED <<answer, result, outcome>>
       ELSE IF failure = "terminal" THEN FallBack
       ELSE Raise /\ UNCHANGED answer
    /\ UNCHANGED <<corpus, attempts, candidates>>

AwsAnswers(a) ==
    /\ at = "aws" /\ buildable
    /\ TakeAnswer(a)
    /\ UNCHANGED <<corpus, attempts, candidates>>

\* Every failure of the call, and every answer that is no ranking, is a RerankerError.
AwsFails ==
    /\ at = "aws" /\ buildable
    /\ FallBack
    /\ UNCHANGED <<corpus, attempts, candidates>>

\* The client is built outside of the try: what boto3.client() raises is no RerankerError.
AwsIsNotBuilt ==
    /\ at = "aws" /\ ~buildable
    /\ Raise
    /\ UNCHANGED <<corpus, attempts, candidates, answer>>

\* A failing evaluator has no verdict.
Evaluate(verdict) ==
    /\ at = "evaluate"
    /\ Finish([result EXCEPT !.verdict = verdict])
    /\ UNCHANGED <<corpus, attempts, candidates, answer>>

----------------------------------------------------------------------------
Next ==
    \/ Deadline
    \/ Rewrite \/ Embed \/ Search \/ SearchFails
    \/ \E retryable \in BOOLEAN : EmbedFails(retryable)
    \/ \E blank \in BOOLEAN : Validate(blank)
    \/ GcpToken
    \/ \E failure \in {"transient", "terminal", "unnormalized"} : GcpFails(failure)
    \/ \E a \in Answers : GcpAnswers(a) \/ AwsAnswers(a)
    \/ AwsFails \/ AwsIsNotBuilt
    \/ \E verdict \in {"none", "SUFFICIENT", "INSUFFICIENT"} : Evaluate(verdict)

Spec == Init /\ [][Next]_vars

----------------------------------------------------------------------------
\* Once the search found something, the one failure of a reranker that fails the retrieval is
\* that the AWS client cannot be built when GCP has failed; otherwise its chunks are those of the
\* answer that was accepted, or the search's first ones and then it says so.
RerankersFallBack ==
    at = "done" /\ candidates # <<>> =>
        /\ outcome.kind = "error" => ~buildable /\ answer = {}
        /\ outcome.kind \notin {"error", "timeout"} =>
              \/ /\ ~result.fallback
                 /\ \E a \in answer : result.chunks = [i \in DOMAIN a |-> candidates[a[i] + 1]]
              \/ /\ result.fallback /\ answer = {} /\ result.chunks # <<>>
                 /\ result.chunks = SubSeq(candidates, 1, Len(result.chunks))

\* What the comment of _attempt_fallback says of the AWS adapter: whatever it raises is already
\* a RerankerError, so that the retrieval falls back (cascading_reranker.py).
AwsNormalizesEveryFailure ==
    at = "done" /\ candidates # <<>> => outcome.kind # "error"

=============================================================================
