--------------------------- MODULE AttemptLedger ---------------------------
(***************************************************************************)
(* The attempts of the long-context experiment: the guards that every       *)
(* dispatch passes (guards.py) and the one-shot runner that persists a      *)
(* reservation, dispatches and replaces the reservation by the outcome      *)
(* (run_development.py).  Development permits no retry; a confirmatory cell *)
(* permits one, when nothing of a response was received.  The repository    *)
(* holds no confirmatory runner: the guards are modelled under one that      *)
(* reserves, dispatches and finalizes as the development runner does.        *)
(***************************************************************************)
EXTENDS Integers, Sequences, SequencesExt

CONSTANTS
    Steps,             \* evaluation steps
    ArmCost,           \* worst-case cost of a call, by arm
    PhaseLimits,       \* _phase_limits: attempts and cost, by phase or by frozen sample
    FirstAttempts,     \* planned first attempts, by frozen sample
    RetryCap,          \* CONFIRMATORY_RETRY_CAP
    CumulativeCap      \* CUMULATIVE_HARD_CAP_USD

Arms == DOMAIN ArmCost
Samples == DOMAIN FirstAttempts
NoSample == "none"
Phases == {"development", "confirmatory"}

VARIABLES
    records,     \* AttemptLedger.records
    sample,      \* the frozen number of confirmatory conversations
    at,          \* of the runner: between attempts, an attempt reserved or sent, over
    rows,        \* attempt-ledger.jsonl
    sent,        \* the attempts the provider was sent
    received,    \* the attempts of which something of a response arrived
    summary      \* run-summary.json

vars == <<records, sample, at, rows, sent, received, summary>>

Init ==
    /\ records = <<>>
    /\ sample = NoSample
    /\ at = "idle"
    /\ rows = <<>>
    /\ sent = {} /\ received = {}
    /\ summary = "none"

attempt_id(r) == <<r.phase, r.step, r.arm, r.ordinal>>

\* The records of a phase and of a cell, as their places in the ledger.
PhaseRecords(phase) == {i \in DOMAIN records : records[i].phase = phase}
Cell(phase, step, arm) ==
    {i \in PhaseRecords(phase) : records[i].step = step /\ records[i].arm = arm}
Attempts(ordinal) ==
    Cardinality({i \in PhaseRecords("confirmatory") : records[i].ordinal = ordinal})

\* What the records of some phases have reserved.
Cost(phases) ==
    FoldLeft(LAMBDA sum, r : IF r.phase \in phases THEN sum + ArmCost[r.arm] ELSE sum, 0, records)

----------------------------------------------------------------------------
(* The guards.                                                              *)

Eligible == {"transport_before_first_byte", "retryable_status"}

\* Any failure is retried.
RetryOnFailure(r) == r.phase = "confirmatory" /\ r.ordinal = 1 /\ r.outcome # "answered"

retry_is_eligible(r) ==
    r.phase = "confirmatory" /\ r.ordinal = 1 /\ r.outcome \in Eligible

LimitsOf(phase) == IF phase = "development" THEN PhaseLimits[phase] ELSE PhaseLimits[sample]

\* The attempt and cost caps of the phase and of all phases.
Fits(phase, arm) ==
    /\ Cardinality(PhaseRecords(phase)) < LimitsOf(phase).attempts
    /\ Cost({phase}) + ArmCost[arm] <= LimitsOf(phase).cost
    /\ Cost(Phases) + ArmCost[arm] <= CumulativeCap

\* validate_pre_dispatch and AttemptLedger.append.
MayDispatch(phase, step, arm) ==
    LET cell == Cell(phase, step, arm)
    IN  /\ arm = "ORACLE-GOLD" => phase = "development"
        /\ phase = "confirmatory" => sample \in Samples
        /\ Fits(phase, arm)
        /\ \/ cell = {} /\ (phase = "confirmatory" => Attempts(1) < FirstAttempts[sample])
           \/ /\ \E first \in cell : cell = {first} /\ retry_is_eligible(records[first])
              /\ Attempts(2) < RetryCap

\* The sample size is frozen before the first confirmatory attempt, and for good.
Freeze(n) ==
    /\ PhaseRecords("confirmatory") = {} /\ sample \in {NoSample, n}
    /\ sample' = n
    /\ UNCHANGED <<records, at, rows, sent, received, summary>>

----------------------------------------------------------------------------
(* The runner.                                                              *)

\* _reserve_before_dispatch: the row is in the file before the transport is reachable.
Reserve(phase, step, arm) ==
    /\ at = "idle" /\ MayDispatch(phase, step, arm)
    /\ records' = Append(records,
          [phase |-> phase, step |-> step, arm |-> arm, outcome |-> "reserved",
           ordinal |-> Cardinality(Cell(phase, step, arm)) + 1])
    /\ rows' = records'
    /\ at' = "reserved"
    /\ UNCHANGED <<sample, sent, received, summary>>

Dispatch ==
    /\ at = "reserved"
    /\ sent' = sent \cup {attempt_id(Last(records))}
    /\ at' = "sent"
    /\ UNCHANGED <<records, sample, rows, received, summary>>

Receive == received' = received \cup {attempt_id(Last(records))}

\* _finalize_attempt replaces the last record and its row.
Finalize(outcome) ==
    /\ records' = [records EXCEPT ![Len(records)].outcome = outcome]
    /\ rows' = records'

Answer ==
    /\ at = "sent"
    /\ Receive /\ Finalize("answered")
    /\ at' = "idle"
    /\ UNCHANGED <<sample, sent, summary>>

Failed(outcome) ==
    /\ at = "sent"
    /\ IF outcome = "invalid_response" THEN Receive ELSE UNCHANGED received
    /\ Finalize(outcome)
    /\ UNCHANGED <<sample, sent>>

\* A development attempt that fails ends the run; a confirmatory one leaves it to the guards.
AttemptFails(outcome) ==
    /\ Failed(outcome)
    /\ IF Last(records).phase = "development"
       THEN at' = "over" /\ summary' = "DEVELOPMENT_INCOMPLETE"
       ELSE at' = "idle" /\ UNCHANGED summary

\* Usage over the reserved ceilings makes the record invalid, and a socket timeout or a closed
\* connection is not among the exceptions of the runner: the reservation stays as it is.
RunnerRaises ==
    /\ at = "sent"
    /\ Receive \/ UNCHANGED received
    /\ at' = "over"
    /\ UNCHANGED <<records, sample, rows, sent, summary>>

Done == \A step \in Steps, arm \in Arms : Cell("development", step, arm) # {}

Complete ==
    /\ at = "idle" /\ summary = "none" /\ Done
    /\ summary' = "DEVELOPMENT_COMPLETE"
    /\ UNCHANGED <<records, sample, at, rows, sent, received>>

\* A run that died, or any other, finds its output directory non-empty: reruns are prohibited.
Crash ==
    /\ at \notin {"over"}
    /\ at' = "over"
    /\ UNCHANGED <<records, sample, rows, sent, received, summary>>

Next ==
    \/ \E n \in Samples : Freeze(n)
    \/ \E phase \in Phases, step \in Steps, arm \in Arms : Reserve(phase, step, arm)
    \/ Dispatch \/ Answer
    \/ \E outcome \in Eligible \cup {"other_failure", "invalid_response"} : AttemptFails(outcome)
    \/ RunnerRaises \/ Complete \/ Crash

Spec == Init /\ [][Next]_vars

----------------------------------------------------------------------------
(* Properties.                                                              *)

\* What was dispatched is on file wherever the run ends, at its worst-case cost and within every
\* cap; and a cell is dispatched again once, and only when nothing of a first response arrived.
DispatchesAreBounded ==
    /\ \A id \in sent : \E i \in DOMAIN rows : attempt_id(rows[i]) = id
    /\ Cost(Phases) <= CumulativeCap
    /\ Cost({"development"}) <= PhaseLimits["development"].cost
    /\ sample # NoSample => Cost({"confirmatory"}) <= PhaseLimits[sample].cost
    /\ \A id \in sent :
          id[4] = 2 => id[1] = "confirmatory" /\ <<id[1], id[2], id[3], 1>> \in sent \ received

=============================================================================
