---------------------------- MODULE Experiments ----------------------------
(***************************************************************************)
(* The experiments that pay for provider calls, one at a time: each keeps  *)
(* its own account of what it has tried, in files that outlive its         *)
(* processes.  They share no state: each behaviour is one of one           *)
(* experiment, which leaves the variables of the others idle.              *)
(***************************************************************************)
EXTENDS Integers

CONSTANTS
    \* HeldoutRun
    Runs, MaxAttempts, Completions,
    \* SpendCampaign
    Procs, Answers, StageCalls, Bound, Cap, MaxEvents, MaxCrashes, MaxEdits,
    \* DualRun
    Workers, MaxBatches, Extractions, Generations, Limits,
    \* AttemptLedger
    Steps, ArmCost, PhaseLimits, FirstAttempts, RetryCap, CumulativeCap

ASSUME ExperimentBounds ==
    /\ MaxAttempts \in Nat /\ Completions \in Nat
    /\ StageCalls \in Nat /\ MaxEdits \in Nat /\ MaxCrashes \in Nat
    /\ MaxBatches \in Nat /\ Extractions \in Nat /\ Generations \in Nat
    /\ \A kind \in {"embedding_batch", "semantic_extraction", "generation", "total"} :
          Limits[kind] \in Nat
    /\ \A arm \in DOMAIN ArmCost : ArmCost[arm] \in Nat
    /\ \A phase_or_sample \in {"development"} \cup DOMAIN FirstAttempts :
          PhaseLimits[phase_or_sample].cost \in Nat
    /\ Bound \in Nat /\ Cap \in Nat /\ CumulativeCap \in Nat

VARIABLES
    part,    \* the experiment of the behaviour
    pc, phase, number, call, unsafe, failure, ledger, reserved, trail, torn, sent, results,
    proc, charges, cache, chain, file, cut, inputs, billed, crashes,
    batches, point, reservation, calls, blocked, worker, queue, broken, answered, state,
    output,
    records, sample, running, rows, dispatched, received, summary

heldoutVars == <<pc, phase, number, call, unsafe, failure, ledger, reserved, trail, torn, sent,
    results>>
spendVars == <<proc, charges, cache, chain, file, cut, inputs, billed, crashes>>
dualVars == <<batches, point, reservation, calls, blocked, worker, queue, broken, answered,
    state, output>>
attemptVars == <<records, sample, running, rows, dispatched, received, summary>>

----------------------------------------------------------------------------

Heldout == INSTANCE HeldoutRun WITH Generations <- Completions, audit <- trail

Spend == INSTANCE SpendCampaign WITH ledger <- charges, torn <- cut, Calls <- StageCalls

Dual == INSTANCE DualRun WITH failure <- broken, results <- answered

Attempts == INSTANCE AttemptLedger WITH at <- running, sent <- dispatched

----------------------------------------------------------------------------

heldoutIdle ==
    /\ pc = 0 /\ phase = 0 /\ number = 0 /\ call = 0 /\ unsafe = 0 /\ failure = 0 /\ ledger = 0
    /\ reserved = 0 /\ trail = 0 /\ torn = 0 /\ sent = 0 /\ results = 0
spendIdle ==
    /\ proc = 0 /\ charges = 0 /\ cache = 0 /\ chain = 0 /\ file = 0 /\ cut = 0 /\ inputs = 0
    /\ billed = 0 /\ crashes = 0
dualIdle ==
    /\ batches = 0 /\ point = 0 /\ reservation = 0 /\ calls = 0 /\ blocked = 0 /\ worker = 0
    /\ queue = 0 /\ broken = 0 /\ answered = 0 /\ state = 0 /\ output = 0
attemptIdle ==
    /\ records = 0 /\ sample = 0 /\ running = 0 /\ rows = 0 /\ dispatched = 0 /\ received = 0
    /\ summary = 0

PaidParts == {"heldout", "spend", "dual", "attempt"}

PaidInit ==
    /\ IF part = "heldout" THEN Heldout!Init ELSE heldoutIdle
    /\ IF part = "spend" THEN Spend!Init ELSE spendIdle
    /\ IF part = "dual" THEN Dual!Init ELSE dualIdle
    /\ IF part = "attempt" THEN Attempts!Init ELSE attemptIdle

PaidNext ==
    /\ part' = part
    /\ IF part = "heldout" THEN Heldout!Next ELSE UNCHANGED heldoutVars
    /\ IF part = "spend" THEN Spend!Next ELSE UNCHANGED spendVars
    /\ IF part = "dual" THEN Dual!Next ELSE UNCHANGED dualVars
    /\ IF part = "attempt" THEN Attempts!Next ELSE UNCHANGED attemptVars

paidVars == <<part, heldoutVars, spendVars, dualVars, attemptVars>>

PaidSpec == part \in PaidParts /\ PaidInit /\ [][PaidNext]_paidVars

----------------------------------------------------------------------------
(* Each property is stated with its experiment.                             *)

\* Attempts at the held-out split begin one at a time, the next only after the last was
\* classified as replaceable, whatever processes start and die (HeldoutAttemptLedger.start).
OneAttemptAtATime == part = "heldout" => Heldout!OneAttemptAtATime

\* A held-out verdict rests on calls that ended and were accounted for, and on its output file,
\* or is the NO_GO of an isolation failure (build_heldout_decision).
VerdictsAreBacked == part = "heldout" => Heldout!VerdictsAreBacked

\* Nothing is dispatched that was not reserved, durably, within what the ledger left, and no call
\* costs more than its reservation (SpendGuard.reserve).
NothingUnreserved == part = "spend" => Spend!NothingUnreserved

\* What a docstring says: a settled call is charged what the provider charged, or more
\* (spend_guard.py, GenerationClient.complete).
UnknownIsNeverZero == part = "spend" => Spend!UnknownIsNeverZero

\* A published result was computed from the inputs it names, after their extraction (campaign.py).
ResultsAreEvidence == part = "spend" => Spend!ResultsAreEvidence

\* A complete run of the dual memory experiment made every call of its schedule, once, and all
\* succeeded (run_external, _generate_all).
CompleteIsWhole == part = "dual" => Dual!CompleteIsWhole

\* The long context runner dispatches within every cap and repeats a cell only when nothing of a
\* first response arrived (AttemptLedger, development runner).
DispatchesAreBounded == part = "attempt" => Attempts!DispatchesAreBounded
=============================================================================
