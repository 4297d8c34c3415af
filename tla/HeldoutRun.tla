----------------------------- MODULE HeldoutRun -----------------------------
(***************************************************************************)
(* The runner of the conversational-memory experiment                       *)
(* (experiments/conversational_memory): operating-system processes that     *)
(* share two append-only files, the ledger of held-out attempts, which may  *)
(* hold one valid run and one replacement, and the audit of billable calls. *)
(* A process may die between any two steps, or in the middle of an append.  *)
(***************************************************************************)
EXTENDS Integers, Sequences, FiniteSets, SequencesExt

CONSTANTS
    Runs,           \* the processes, each with a run_id of its own
    MaxAttempts,    \* maximum_total_attempts of the registered policy
    Generations     \* the generation calls of a run, after its one embedding call

Points ==
    {"idle", "read", "reserve", "append", "load", "call", "calling", "evaluate",
     "decide", "classify", "finalize", "done", "dead"}

Calls == 0..Generations    \* call 0 is the embedding of all texts

VARIABLES
    pc,
    phase,      \* "development" or "heldout"
    number,     \* the attempt number a run has computed from the ledger
    call,       \* the next call of the run
    unsafe,     \* isolation_failures > 0
    failure,    \* the retry the failure of a run asks for, or "none"
    ledger,     \* heldout-attempts.jsonl, in the order of its lines
    reserved,   \* the attempt numbers whose .reserved file exists
    audit,      \* the events of execution-ledger.jsonl
    torn,       \* the files whose last line was cut by a crash
    sent,       \* the calls the provider was sent
    results     \* the runs whose output file is written

processVars == <<pc, phase, number, call, unsafe, failure>>
fileVars    == <<ledger, reserved, audit, torn, results>>
vars == <<processVars, fileVars, sent>>

Init ==
    /\ pc = [r \in Runs |-> "idle"]
    /\ phase = [r \in Runs |-> "development"]
    /\ number = [r \in Runs |-> 0]
    /\ call = [r \in Runs |-> 0]
    /\ unsafe = [r \in Runs |-> FALSE]
    /\ failure = [r \in Runs |-> "none"]
    /\ ledger = <<>>
    /\ reserved = {}
    /\ audit = {}
    /\ torn = {}
    /\ sent = {}
    /\ results = {}

Goto(r, point) == pc' = [pc EXCEPT ![r] = point]

\* An exception ends the run: a held-out attempt is classified first.
Fail(r, retry) ==
    /\ failure' = [failure EXCEPT ![r] = retry]
    /\ Goto(r, IF phase[r] = "heldout" THEN "classify" ELSE "done")

----------------------------------------------------------------------------
(* The ledger of attempts.                                                  *)

\* The lines that start an attempt.
Starts == {i \in DOMAIN ledger : ledger[i].status = "started"}

\* The terminal event of a run's attempt: the dict keeps the last one.
Terminal(r) == {i \in DOMAIN ledger : ledger[i].run = r /\ ledger[i].status # "started"}

\* The previous attempt is not asked for its classification.
MayStartUnclassified ==
    /\ \A e \in ToSet(ledger) : e.status # "completed"
    /\ Cardinality(Starts) < MaxAttempts

\* The policy of start(): nothing was completed, and the last attempt, if there is one,
\* was classified as invalid with leave to replace it.
MayStart ==
    /\ \A e \in ToSet(ledger) : e.status # "completed"
    /\ \A i \in Starts : (\A j \in Starts : j <= i) =>
          \E k \in Terminal(ledger[i].run) : ledger[k].retry
    /\ Cardinality(Starts) < MaxAttempts

\* An operator starts a process; load_registration and verify_dataset refuse it or not.
Launch(r) ==
    /\ pc[r] = "idle"
    /\ \E p \in {"development", "heldout"} :
          /\ phase' = [phase EXCEPT ![r] = p]
          /\ \/ Goto(r, IF p = "heldout" THEN "read" ELSE "load")
             \/ Goto(r, "done")
    /\ UNCHANGED <<number, call, unsafe, failure, fileVars, sent>>

\* start() up to the reservation.  _read_events raises on a line that does not decode.
ReadLedger(r) ==
    /\ pc[r] = "read"
    /\ IF "ledger" \notin torn /\ MayStart
       THEN number' = [number EXCEPT ![r] = Cardinality(Starts) + 1] /\ Goto(r, "reserve")
       ELSE UNCHANGED number /\ Goto(r, "done")
    /\ UNCHANGED <<phase, call, unsafe, failure, fileVars, sent>>

\* open(..., "x"): of two processes that computed the same number one gets it.
Reserve(r) ==
    /\ pc[r] = "reserve"
    /\ IF number[r] \in reserved
       THEN UNCHANGED reserved /\ Goto(r, "done")
       ELSE reserved' = reserved \cup {number[r]} /\ Goto(r, "append")
    /\ UNCHANGED <<phase, number, call, unsafe, failure, ledger, audit, torn, results, sent>>

Event(r, status, retry, verdict) ==
    [run |-> r, number |-> number[r], status |-> status, retry |-> retry, verdict |-> verdict]

AppendStarted(r) ==
    /\ pc[r] = "append"
    /\ ledger' = Append(ledger, Event(r, "started", FALSE, "none"))
    /\ Goto(r, "load")
    /\ UNCHANGED <<phase, number, call, unsafe, failure, reserved, audit, torn, results, sent>>

\* _terminal: one start, no terminal event yet, in a ledger that can be read.
AppendTerminal(r, event) ==
    IF /\ "ledger" \notin torn
       /\ Cardinality({i \in Starts : ledger[i].run = r}) = 1
       /\ Terminal(r) = {}
    THEN ledger' = Append(ledger, event)
    ELSE UNCHANGED ledger

\* _replacement_is_available
Replacement(r) == failure[r] = "retry" /\ number[r] < MaxAttempts

Classify(r) ==
    /\ pc[r] = "classify"
    /\ AppendTerminal(r, Event(r, "invalid", Replacement(r), "none"))
    /\ Goto(r, "done")
    /\ UNCHANGED <<phase, number, call, unsafe, failure, reserved, audit, torn, results, sent>>

\* The output file is read back and its verdict completes the attempt; a file that cannot
\* be read leaves the attempt without a classification.
Finalize(r, verdict) ==
    /\ pc[r] = "finalize"
    /\ r \in results
    /\ AppendTerminal(r, Event(r, "completed", FALSE, verdict)) \/ UNCHANGED ledger
    /\ Goto(r, "done")
    /\ UNCHANGED <<phase, number, call, unsafe, failure, reserved, audit, torn, results, sent>>

----------------------------------------------------------------------------
(* _execute_once: the calls, the evaluation, the decision.                   *)

AuditEvent(r, status, billable, usage) ==
    [run |-> r, call |-> call[r], status |-> status, billable |-> billable, usage |-> usage]

\* The registration and the dataset are checked again, and the instrument needs its key.
Load(r) ==
    /\ pc[r] = "load"
    /\ \/ Goto(r, "call") /\ UNCHANGED failure
       \/ Fail(r, "no_retry")
    /\ UNCHANGED <<phase, number, call, unsafe, fileVars, sent>>

\* The audit learns of a call before the provider does.
StartCall(r) ==
    /\ pc[r] = "call"
    /\ audit' = audit \cup {AuditEvent(r, "started", TRUE, FALSE)}
    /\ Goto(r, "calling")
    /\ UNCHANGED <<phase, number, call, unsafe, failure, ledger, reserved, torn, results, sent>>

\* A generation goes on with the next one, the embedding with the evaluation.
AfterCall(r) ==
    IF call[r] = 0 THEN "evaluate" ELSE IF call[r] < Generations THEN "call" ELSE "decide"

CallSucceeds(r) ==
    /\ pc[r] = "calling"
    /\ sent' = sent \cup {<<r, call[r]>>}
    /\ \E usage \in BOOLEAN : audit' = audit \cup {AuditEvent(r, "succeeded", TRUE, usage)}
    /\ call' = [call EXCEPT ![r] = @ + 1]
    /\ Goto(r, AfterCall(r))
    /\ UNCHANGED <<phase, number, unsafe, failure, ledger, reserved, torn, results>>

\* stream() raises before anything was sent, or the call breaks off and may be billed.  A
\* timeout, a network or an upstream error and a rate limit ask for a replacement.
CallFails(r) ==
    /\ pc[r] = "calling"
    /\ \E billable \in BOOLEAN, retry \in {"retry", "no_retry"} :
          /\ call[r] = 0 => billable
          /\ audit' = audit \cup {AuditEvent(r, "failed", billable, FALSE)}
          /\ sent' = IF billable THEN sent \cup {<<r, call[r]>>} ELSE sent
          /\ Fail(r, retry)
    /\ UNCHANGED <<phase, number, call, unsafe, ledger, reserved, torn, results>>

\* The vectors are not those that were asked for: the call gets no terminal event.
EmbeddingIsRefused(r) ==
    /\ pc[r] = "calling"
    /\ call[r] = 0
    /\ sent' = sent \cup {<<r, 0>>}
    /\ Fail(r, "no_retry")
    /\ UNCHANGED <<phase, number, call, unsafe, fileVars>>

\* evaluate_candidate counts the rows that came from another tenant or conversation; such
\* a held-out run generates nothing.
Evaluate(r) ==
    /\ pc[r] = "evaluate"
    /\ phase[r] = "heldout"
    /\ \E leak \in BOOLEAN :
          /\ unsafe' = [unsafe EXCEPT ![r] = leak]
          /\ Goto(r, IF leak \/ Generations = 0 THEN "decide" ELSE "call")
    /\ UNCHANGED <<phase, number, call, failure, fileVars, sent>>

\* A development run selects a candidate that is safe, of those that were evaluated, if
\* there is one; without --with-generation it skips the generation.
Select(r) ==
    /\ pc[r] = "evaluate"
    /\ phase[r] = "development"
    /\ \E leak \in BOOLEAN : unsafe' = [unsafe EXCEPT ![r] = leak]
    /\ \/ Goto(r, "call") /\ Generations > 0 /\ UNCHANGED failure
       \/ Goto(r, "decide") /\ UNCHANGED failure
       \/ Fail(r, "no_retry")
    /\ UNCHANGED <<phase, number, call, fileVars, sent>>

\* summarize_execution_ledger(run_id): the last event of a call that is not its start.
Ended(r, c, status) == \E e \in audit : e.run = r /\ e.call = c /\ e.status = status
Started(r) == {c \in Calls : Ended(r, c, "started")}
Unknown(r) == {c \in Started(r) : ~Ended(r, c, "succeeded") /\ ~Ended(r, c, "failed")}
Failed(r)  == {c \in Started(r) : Ended(r, c, "failed")}
MissingUsage(r) ==
    {c \in Started(r) \ {0} : \E e \in audit :
        e.run = r /\ e.call = c /\ e.status = "succeeded" /\ ~e.usage}

\* The decision does not ask for the usage of the calls.
EvidenceIgnoringUsage(r) ==
    IF Failed(r) # {} \/ Unknown(r) # {} THEN "no_retry" ELSE "none"

\* build_heldout_decision: what keeps a run from having a verdict.
Evidence(r) ==
    IF Failed(r) # {} \/ Unknown(r) # {} THEN "no_retry"
    ELSE IF MissingUsage(r) # {} THEN "retry" ELSE "none"

\* The decision and the output file.  An audit that cannot be read fails the run; an
\* isolation failure is a NO_GO whatever else the run has.
Decide(r) ==
    /\ pc[r] = "decide"
    /\ LET flaw == IF "audit" \in torn THEN "no_retry"
                   ELSE IF phase[r] = "development" \/ unsafe[r] THEN "none"
                   ELSE Evidence(r)
       IN  IF flaw # "none"
           THEN Fail(r, flaw) /\ UNCHANGED results
           ELSE /\ results' = results \cup {r}
                /\ Goto(r, IF phase[r] = "heldout" THEN "finalize" ELSE "done")
                /\ UNCHANGED failure
    /\ UNCHANGED <<phase, number, call, unsafe, ledger, reserved, audit, torn, sent>>

----------------------------------------------------------------------------
\* The process dies; a line it was writing is cut.
Crash(r) ==
    /\ pc[r] \notin {"idle", "done", "dead"}
    /\ Goto(r, "dead")
    /\ \/ UNCHANGED torn
       \/ pc[r] \in {"append", "classify", "finalize"} /\ torn' = torn \cup {"ledger"}
       \/ pc[r] \in {"call", "calling"} /\ torn' = torn \cup {"audit"}
    /\ UNCHANGED <<phase, number, call, unsafe, failure, ledger, reserved, audit, results, sent>>

\* The process dies after the call was sent and before its outcome is recorded.
CrashInCall(r) ==
    /\ pc[r] = "calling"
    /\ sent' = sent \cup {<<r, call[r]>>}
    /\ Goto(r, "dead")
    /\ UNCHANGED <<phase, number, call, unsafe, failure, fileVars>>

\* The verdict a decision may come to: all clauses have to pass.
Verdicts(r) == IF unsafe[r] THEN {"NO_GO"} ELSE {"GO", "NO_GO"}

RunStep(r) ==
    \/ Launch(r) \/ ReadLedger(r) \/ Reserve(r) \/ AppendStarted(r)
    \/ Load(r) \/ StartCall(r) \/ CallSucceeds(r) \/ CallFails(r) \/ EmbeddingIsRefused(r)
    \/ Evaluate(r) \/ Select(r) \/ Decide(r) \/ Classify(r)
    \/ \E verdict \in Verdicts(r) : Finalize(r, verdict)

Next == \E r \in Runs : RunStep(r) \/ Crash(r) \/ CrashInCall(r)

Spec == Init /\ [][Next]_vars

----------------------------------------------------------------------------
\* The one-valid-run policy, whatever processes are started side by side and wherever they
\* die: attempts are numbered without gaps, the next one begins only after the last was
\* classified as invalid with leave to replace it, and nothing follows a completed one.
OneAttemptAtATime ==
    \A i \in DOMAIN ledger :
        LET e == ledger[i]
        IN  IF e.status = "started"
            THEN /\ e.number = Cardinality({j \in 1..i : ledger[j].status = "started"})
                 /\ i > 1 => ledger[i - 1].status = "invalid" /\ ledger[i - 1].retry
            ELSE i > 1 /\ ledger[i - 1].status = "started" /\ ledger[i - 1].run = e.run

\* A verdict rests on calls that all ended and were all accounted for, unless it is the
\* automatic NO_GO of an isolation failure, and on an output file that says it.
VerdictsAreBacked ==
    \A e \in ToSet(ledger) :
        e.status = "completed" =>
            /\ e.run \in results
            /\ Failed(e.run) = {} /\ Unknown(e.run) = {}
            /\ IF unsafe[e.run] THEN e.verdict = "NO_GO"
               ELSE MissingUsage(e.run) = {} /\ Started(e.run) = Calls

=============================================================================
