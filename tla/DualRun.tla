------------------------------ MODULE DualRun ------------------------------
(***************************************************************************)
(* The single authorised development execution of the dual-memory           *)
(* experiment (run_development.py): a reservation file that is made once,   *)
(* embedding batches and extractions one after the other, generations by    *)
(* asyncio workers that share a queue and a failure flag, and a ledger of   *)
(* external calls with limits for each kind (protocol.py, external.py).     *)
(***************************************************************************)
EXTENDS Integers, Sequences, FiniteSets, SequencesExt

CONSTANTS
    Workers,       \* generation_concurrency
    MaxBatches,    \* bound: embedding batches the texts come to
    Extractions,   \* events to extract facts from
    Generations,   \* scheduled generation jobs: their limit, by construction
    Limits         \* external_call_limits

VARIABLES
    batches,       \* the embedding batches of the run
    point,         \* where run_external is
    reservation,   \* whether development-external.reserved exists
    calls,         \* the ledger: each call with its kind, job and outcome
    blocked,       \* budget_blocked events
    worker,        \* the call a worker awaits, 0 for none, -1 when it has returned
    queue,         \* the jobs not taken
    failure,       \* the failure the workers share
    results,       \* jobs with a row
    state,         \* development-state.json
    output         \* the files of a complete run that are written

vars ==
    <<batches, point, reservation, calls, blocked, worker, queue, failure, results, state, output>>

Kinds == {"embedding_batch", "semantic_extraction", "generation"}
NoState == [status |-> "none"]

Init ==
    /\ batches \in 1..MaxBatches
    /\ point = "start" /\ reservation = FALSE
    /\ calls = <<>> /\ blocked = 0
    /\ worker = [w \in Workers |-> 0]
    /\ queue = 1..Generations
    /\ failure = FALSE
    /\ results = {}
    /\ state = NoState
    /\ output = {}

----------------------------------------------------------------------------
(* The ledger.                                                              *)

Count(kind) == Cardinality({i \in DOMAIN calls : calls[i].kind = kind})

\* reserve(): there is no await in it, so the counts cannot change under it.
MayStart(kind) == Count(kind) < Limits[kind] /\ Len(calls) < Limits["total"]

Started(kind, job) == calls' = Append(calls, [kind |-> kind, job |-> job, outcome |-> "unknown"])

Ended(i, outcome) == calls' = [calls EXCEPT ![i].outcome = outcome]

WithOutcome(outcome) == Cardinality({i \in DOMAIN calls : calls[i].outcome = outcome})

summary ==
    [started   |-> Len(calls),
     succeeded |-> WithOutcome("succeeded"),
     failed    |-> WithOutcome("failed"),
     unknown   |-> WithOutcome("unknown")]

\* The except clause of run_external.
Invalid(reason) ==
    /\ point' = "over"
    /\ state' = [status |-> "DEVELOPMENT_INVALID", reason |-> reason, summary |-> summary']

----------------------------------------------------------------------------
(* run_external.                                                            *)

\* open("x"): a second execution is refused for ever after.
Reserve ==
    /\ point = "start" /\ ~reservation
    /\ reservation' = TRUE
    /\ point' = "verify"
    /\ UNCHANGED <<batches, calls, blocked, worker, queue, failure, results, state, output>>

\* The origin and the registration are outside of the try: a failure leaves no state file.
Verify ==
    /\ point = "verify"
    /\ point' \in {"embedding_batch", "over"}
    /\ UNCHANGED <<batches, reservation, calls, blocked, worker, queue, failure, results>>
    /\ UNCHANGED <<state, output>>

Scheduled(phase) == IF phase = "embedding_batch" THEN batches ELSE Extractions

\* The sequential phases: a call is started when the last one has ended.
InSequence == point \in {"embedding_batch", "semantic_extraction"}
Awaited == IF calls = <<>> \/ Last(calls).outcome # "unknown" THEN 0 ELSE Len(calls)

StartNext ==
    /\ InSequence /\ Awaited = 0 /\ Count(point) < Scheduled(point)
    /\ IF MayStart(point)
       THEN Started(point, Count(point) + 1) /\ UNCHANGED <<blocked, point, state>>
       ELSE blocked' = blocked + 1 /\ UNCHANGED calls /\ Invalid("error")
    /\ UNCHANGED <<batches, reservation, worker, queue, failure, results, output>>

CallEnds ==
    /\ InSequence /\ Awaited # 0
    /\ \/ Ended(Awaited, "succeeded") /\ UNCHANGED <<point, state>>
       \/ Ended(Awaited, "failed") /\ Invalid("error")
    /\ UNCHANGED <<batches, reservation, blocked, worker, queue, failure, results, output>>

\* Between the phases profiles, thresholds and contexts are computed, or the run is invalid.
NextPhase ==
    /\ InSequence /\ Awaited = 0 /\ Count(point) = Scheduled(point)
    /\ UNCHANGED calls
    /\ \/ /\ point' = IF point = "embedding_batch" THEN "semantic_extraction" ELSE "generation"
          /\ UNCHANGED state
       \/ Invalid("error")
    /\ UNCHANGED <<batches, reservation, blocked, worker, queue, failure, results, output>>

\* A worker: from the check of the failure flag to the first await of the call.
Take(w) ==
    /\ point = "generation" /\ worker[w] = 0
    /\ IF failure \/ queue = {}
       THEN /\ worker' = [worker EXCEPT ![w] = -1]
            /\ UNCHANGED <<calls, blocked, queue, failure>>
       ELSE \E job \in queue :
            /\ \A other \in queue : job <= other
            /\ queue' = queue \ {job}
            /\ IF MayStart("generation")
               THEN /\ Started("generation", job)
                    /\ worker' = [worker EXCEPT ![w] = Len(calls) + 1]
                    /\ UNCHANGED <<blocked, failure>>
               ELSE blocked' = blocked + 1 /\ failure' = TRUE /\ UNCHANGED <<calls, worker>>
    /\ UNCHANGED <<batches, point, reservation, results, state, output>>

Generated(w) ==
    /\ point = "generation" /\ worker[w] > 0
    /\ Ended(worker[w], "succeeded")
    /\ results' = results \cup {calls[worker[w]].job}
    /\ worker' = [worker EXCEPT ![w] = 0]
    /\ UNCHANGED <<batches, point, reservation, blocked, queue, failure, state, output>>

\* The exception is kept for later; the other workers end the call they are in.
GenerationFails(w) ==
    /\ point = "generation" /\ worker[w] > 0
    /\ Ended(worker[w], "failed")
    /\ failure' = TRUE
    /\ worker' = [worker EXCEPT ![w] = 0]
    /\ UNCHANGED <<batches, point, reservation, blocked, queue, results, state, output>>

Joined == \A w \in Workers : worker[w] = -1

\* gather returns for a failure as well, and the counts are not looked at.
GatherUnchecked ==
    /\ point = "generation" /\ Joined
    /\ point' = "write" /\ UNCHANGED state
    /\ UNCHANGED <<batches, reservation, calls, blocked, worker, queue, failure, results, output>>

\* After gather: no failure, a row for each job, and a ledger without other outcomes.
Gather ==
    /\ point = "generation" /\ Joined
    /\ UNCHANGED calls
    /\ IF /\ ~failure /\ results = 1..Generations
          /\ summary.failed = 0 /\ summary.unknown = 0
          /\ \A kind \in Kinds : Count(kind) <= Limits[kind]
       THEN point' = "write" /\ UNCHANGED state
       ELSE Invalid("error")
    /\ UNCHANGED <<batches, reservation, blocked, worker, queue, failure, results, output>>

\* The output, the analysis, the report; the state file is last.
Files == <<"run", "analysis", "report">>
WriteFile ==
    /\ point = "write" /\ output # ToSet(Files)
    /\ UNCHANGED calls
    /\ \/ \E i \in DOMAIN Files :
             /\ output = {Files[j] : j \in 1..(i - 1)}
             /\ output' = output \cup {Files[i]}
             /\ UNCHANGED <<point, state>>
       \/ Invalid("error") /\ UNCHANGED output
    /\ UNCHANGED <<batches, reservation, blocked, worker, queue, failure, results>>

WriteState ==
    /\ point = "write" /\ output = ToSet(Files)
    /\ point' = "over"
    /\ state' = [status |-> "DEVELOPMENT_COMPLETE_NOT_PREREGISTERED", summary |-> summary]
    /\ UNCHANGED <<batches, reservation, calls, blocked, worker, queue, failure, results, output>>

----------------------------------------------------------------------------
\* Ctrl-C cancels the call in flight, or all workers: "except Exception" does not see it, so
\* the calls get no terminal event.
Interrupt ==
    /\ InSequence \/ point = "generation"
    /\ worker' = [w \in Workers |-> IF point = "generation" THEN -1 ELSE worker[w]]
    /\ UNCHANGED calls
    /\ Invalid("CancelledError")
    /\ UNCHANGED <<batches, reservation, blocked, queue, failure, results, output>>

\* The process dies; the operator may start it again.
Crash ==
    /\ point \notin {"start", "over"}
    /\ point' = "start"
    /\ worker' = [w \in Workers |-> -1]
    /\ UNCHANGED <<batches, reservation, calls, blocked, queue, failure, results, state, output>>

Next ==
    \/ Reserve \/ Verify
    \/ StartNext \/ CallEnds \/ NextPhase
    \/ \E w \in Workers : Take(w) \/ Generated(w) \/ GenerationFails(w)
    \/ Gather \/ WriteFile \/ WriteState
    \/ Interrupt \/ Crash

Spec == Init /\ [][Next]_vars

----------------------------------------------------------------------------
(* Properties.                                                              *)

\* However the workers interleave and wherever the process dies, a job is called once at most
\* and no limit is passed; and what is published as complete, before its state says so, rests
\* on one call for every job of the schedule, all of which succeeded.
CompleteIsWhole ==
    /\ \A kind \in Kinds : Count(kind) <= Limits[kind]
    /\ \A i, j \in DOMAIN calls :
          calls[i].kind = calls[j].kind /\ calls[i].job = calls[j].job => i = j
    /\ output # {} =>
          /\ \A i \in DOMAIN calls : calls[i].outcome = "succeeded"
          /\ Len(calls) = batches + Extractions + Generations
          /\ results = 1..Generations

=============================================================================
