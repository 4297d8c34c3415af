--------------------------- MODULE SpendCampaign ---------------------------
(***************************************************************************)
(* The paid stages of the conversational-semantic-memory experiment         *)
(* (run_t4.py).  Every provider call passes a cache and a spend guard that   *)
(* reserves its worst case in a hash-chained ledger before the dispatch     *)
(* (spend_guard.py, generation_client.py, embedding_client.py); every stage *)
(* that ends leaves a result file and an event in a chain (events.py).  A   *)
(* process may die between any two steps, or while it writes a file, and    *)
(* the operator starts it again.                                            *)
(***************************************************************************)
EXTENDS Integers, Sequences, SequencesExt

CONSTANTS
    Procs,        \* processes of the runner that may be up at once
    Answers,      \* what the model may answer to a prompt
    Calls,        \* completions of a stage
    Bound,        \* worst-case cost of one provider call, by the byte bound
    Cap,          \* min(ceiling_usd, sub_cap_usd)
    MaxEvents,    \* bound: completion events
    MaxCrashes,   \* bound
    MaxEdits      \* bound: edits of the dataset; an edit never restores an older version

MAX_ATTEMPTS == 2
Reserved == MAX_ATTEMPTS * Bound     \* the reservation prices the retry as well

Plans == {<<"extraction", "arms", "tuning">>, <<"extraction">>, <<"arms">>, <<"tuning">>}

\* The logical attempt: the rendered request with its scope.  Tuning asks what arms asked at
\* its own configuration; call 0 of both is an embedding.
Key(version, stage, k) ==
    [version |-> version, group |-> IF stage = "extraction" THEN stage ELSE "answer", k |-> k]
Keys == [version : 0..MaxEdits, group : {"extraction", "answer"}, k : 0..Calls]
IsEmbedding(key) == key.k = 0

VARIABLES
    proc,       \* of each process: where it is and what it holds
    ledger,     \* the spend ledger
    cache,      \* the cached completions and embeddings by key
    chain,      \* the completion events of the event log
    file,       \* the result files of the stages
    torn,       \* of "ledger", "chain": whether the last line was cut by a crash
    inputs,     \* the version of the dataset
    billed,     \* what the provider charged, by call_id
    crashes

vars == <<proc, ledger, cache, chain, file, torn, inputs, billed, crashes>>

Idle == [at |-> "idle", plan |-> <<>>, offline |-> FALSE, seen |-> 0, data |-> 0, k |-> 1,
         rows |-> {}, id |-> 0, attempt |-> 1, reply |-> <<>>]
None == [state |-> "none"]

Init ==
    /\ proc = [p \in Procs |-> Idle]
    /\ ledger = <<>>
    /\ cache = [key \in Keys |-> None]
    /\ chain = <<>>
    /\ file = [stage \in {"extraction", "arms", "tuning"} |-> None]
    /\ torn = {}
    /\ inputs = 0
    /\ billed = [id \in {} |-> 0]
    /\ crashes = 0

Stage(p) == Head(proc[p].plan)
CurrentKey(p) == Key(proc[p].data, Stage(p), proc[p].k)

Goto(p, at) == proc' = [proc EXCEPT ![p].at = at]

\* An exception ends the process.
Fail(p) == proc' = [proc EXCEPT ![p] = Idle]

----------------------------------------------------------------------------
(* The ledger.                                                              *)

OpenUsd(s) == MapThenSumSet(LAMBDA r : r.usd, s.open)

\* _state and validate_ledger: one replay of the events, in order.
Unspent == [committed |-> 0, open |-> {}, ordinal |-> 0, consistent |-> TRUE, fits |-> TRUE]

Entered(s, e) ==
    IF e.type = "reservation"
    THEN [s EXCEPT !.consistent = @ /\ \A r \in s.open : r.id # e.id,
                   !.open = @ \cup {e},
                   !.ordinal = @ + 1,
                   !.fits = @ /\ s.committed + OpenUsd(s) + e.usd <= Cap]
    ELSE [s EXCEPT !.consistent = @ /\ \E r \in s.open : r.id = e.id,
                   !.open = {r \in @ : r.id # e.id},
                   !.committed = @ + e.usd]

Replay(events) == FoldLeft(Entered, Unspent, events)

Spent(s) == s.committed + OpenUsd(s)

\* _ledger_check: the ledger can be read, is consistent and within the caps.
LedgerPasses ==
    LET s == Replay(ledger)
    IN  "ledger" \notin torn /\ s.consistent /\ s.fits /\ Spent(s) <= Cap

\* Reservations that nothing resolved do not count.
ReadCommitted(p) ==
    /\ proc[p].at = "reserve"
    /\ LET s == Replay(ledger)
       IN  IF "ledger" \notin torn /\ s.consistent /\ s.committed + Reserved <= Cap
           THEN proc' = [proc EXCEPT ![p].at = "append", ![p].id = s.ordinal]
           ELSE Fail(p)
    /\ UNCHANGED <<ledger, cache, chain, file, torn, inputs, billed, crashes>>

\* reserve(): the state is read without the lock that append takes.
ReadLedger(p) ==
    /\ proc[p].at = "reserve"
    /\ LET s == Replay(ledger)
       IN  IF "ledger" \notin torn /\ s.consistent /\ Spent(s) + Reserved <= Cap
           THEN proc' = [proc EXCEPT ![p].at = "append", ![p].id = s.ordinal]
           ELSE Fail(p)
    /\ UNCHANGED <<ledger, cache, chain, file, torn, inputs, billed, crashes>>

\* events.append verifies the chain under its lock before it writes.
AppendLedger(p, event, next) ==
    IF "ledger" \in torn
    THEN Fail(p) /\ UNCHANGED ledger
    ELSE ledger' = Append(ledger, event) /\ next

AppendReservation(p) ==
    /\ proc[p].at = "append"
    /\ AppendLedger(p, [type |-> "reservation", id |-> proc[p].id, usd |-> Reserved],
                    proc' = [proc EXCEPT ![p].at = "send", ![p].attempt = 1])
    /\ UNCHANGED <<cache, chain, file, torn, inputs, billed, crashes>>

----------------------------------------------------------------------------
(* The calls.                                                               *)

Bill(p, usd) ==
    LET id == proc[p].id
    IN  billed' = [i \in DOMAIN billed \cup {id} |->
                      (IF i \in DOMAIN billed THEN billed[i] ELSE 0)
                      + (IF i = id THEN usd ELSE 0)]

\* The provider answers.  It charges what the call used, which it may not report.
Answered(p) ==
    /\ proc[p].at = "send"
    /\ \E answer \in Answers, usd \in 1..Bound, reported \in BOOLEAN :
          /\ Bill(p, usd)
          /\ proc' = [proc EXCEPT ![p].at = "settle", ![p].reply =
                [state |-> "whole", answer |-> answer, usd |-> usd,
                 reported |-> reported /\ ~IsEmbedding(CurrentKey(p))]]
    /\ UNCHANGED <<ledger, cache, chain, file, torn, inputs, crashes>>

\* A timeout, which may be charged, or an error status: the one transport retry, or the end.
NotAnswered(p) ==
    /\ proc[p].at = "send"
    /\ \E usd \in 0..Bound, final \in BOOLEAN :
          /\ Bill(p, usd)
          /\ IF final \/ proc[p].attempt = MAX_ATTEMPTS
             THEN proc' = [proc EXCEPT ![p].at = "settle", ![p].reply = None]
             ELSE proc' = [proc EXCEPT ![p].attempt = @ + 1]
    /\ UNCHANGED <<ledger, cache, chain, file, torn, inputs, crashes>>

\* Unknown usage is charged as reserved.  A failed call is settled and raises.
Settle(p) ==
    /\ proc[p].at = "settle"
    /\ LET reply == proc[p].reply
           known == reply # None /\ reply.reported
       IN  AppendLedger(p,
               [type |-> "call_result", id |-> proc[p].id,
                usd |-> IF known THEN reply.usd ELSE Reserved],
               IF reply = None THEN Fail(p) ELSE Goto(p, "cache"))
    /\ UNCHANGED <<cache, chain, file, torn, inputs, billed, crashes>>

\* The stage keeps the answer; a completion without reported usage is refused, every time.
TakeReply(p, reply) ==
    IF IsEmbedding(CurrentKey(p)) \/ reply.reported
    THEN proc' = [proc EXCEPT ![p].at = "call", ![p].k = @ + 1, ![p].reply = <<>>,
                              ![p].id = 0, ![p].attempt = 1,
                              ![p].rows = @ \cup {<<CurrentKey(p), reply.answer>>}]
    ELSE Fail(p)

WriteCache(p) ==
    /\ proc[p].at = "cache"
    /\ cache' = [cache EXCEPT ![CurrentKey(p)] = proc[p].reply]
    /\ TakeReply(p, proc[p].reply)
    /\ UNCHANGED <<ledger, chain, file, torn, inputs, billed, crashes>>

\* complete() and embed(): a hit reaches neither the guard nor the provider; an entry that a
\* crash cut raises; offline, a miss raises.
LookUp(p) ==
    /\ proc[p].at = "call" /\ proc[p].k <= Calls
    /\ LET entry == cache[CurrentKey(p)]
       IN  \/ entry.state = "whole" /\ TakeReply(p, entry)
           \/ entry.state = "torn" /\ Fail(p)
           \/ entry = None /\ IF proc[p].offline THEN Fail(p) ELSE Goto(p, "reserve")
    /\ UNCHANGED <<ledger, cache, chain, file, torn, inputs, billed, crashes>>

----------------------------------------------------------------------------
(* The stages.                                                              *)

\* prerequisites: the chain verifies, the generation cache can be read, the ledger passes;
\* then the digests of the inputs are taken.
Prerequisites ==
    /\ "chain" \notin torn
    /\ \A key \in Keys : cache[key].state = "torn" => IsEmbedding(key)
    /\ LedgerPasses

Start(p, plan, offline) ==
    /\ proc[p].at = "idle" /\ Len(chain) + Len(plan) <= MaxEvents
    /\ Prerequisites
    /\ proc' = [proc EXCEPT ![p] = [Idle EXCEPT !.at = "load", !.plan = plan,
                                               !.offline = offline, !.seen = inputs]]
    /\ UNCHANGED <<ledger, cache, chain, file, torn, inputs, billed, crashes>>

\* The dataset is read after its digest was.
Load(p) ==
    /\ proc[p].at = "load"
    /\ proc' = [proc EXCEPT ![p].at = "stage", ![p].data = inputs]
    /\ UNCHANGED <<ledger, cache, chain, file, torn, inputs, billed, crashes>>

\* The extraction file is what an event of the chain says it was, and of the same inputs.
ExtractionIsEvidence(p) ==
    /\ "chain" \notin torn
    /\ \E e \in ToSet(chain) : e.stage = "extraction" /\ e.result = file["extraction"]
    /\ file["extraction"].inputs = proc[p].seen

BeginStage(p) ==
    /\ proc[p].at = "stage"
    /\ IF Stage(p) = "extraction" \/ ExtractionIsEvidence(p)
       THEN proc' = [proc EXCEPT ![p].at = "call", ![p].rows = {},
                              ![p].k = IF Stage(p) = "extraction" THEN 1 ELSE 0]
       ELSE Fail(p)
    /\ UNCHANGED <<ledger, cache, chain, file, torn, inputs, billed, crashes>>

Result(p) == [state |-> "whole", inputs |-> proc[p].seen, data |-> proc[p].data,
              rows |-> proc[p].rows]

\* The inputs are not read again at the end.
FrozenUnchecked(p) == TRUE

\* any(file_sha256(p) != digest): the inputs are still those whose digest was taken.
Frozen(p) == inputs = proc[p].seen

\* _write, first half: the result file.
WriteResult(p) ==
    /\ proc[p].at = "call" /\ proc[p].k > Calls
    /\ IF LedgerPasses /\ Frozen(p)
       THEN file' = [file EXCEPT ![Stage(p)] = Result(p)] /\ Goto(p, "record")
       ELSE Fail(p) /\ UNCHANGED file
    /\ UNCHANGED <<ledger, cache, chain, torn, inputs, billed, crashes>>

\* _write, second half: the digest of the file that is there now, in the chain.
RecordResult(p) ==
    /\ proc[p].at = "record"
    /\ IF "chain" \in torn
       THEN Fail(p) /\ UNCHANGED chain
       ELSE /\ chain' = Append(chain, [stage |-> Stage(p), result |-> file[Stage(p)]])
            /\ IF Len(proc[p].plan) > 1
               THEN proc' = [proc EXCEPT ![p].at = "stage", ![p].plan = Tail(@)]
               ELSE proc' = [proc EXCEPT ![p] = Idle]
    /\ UNCHANGED <<ledger, cache, file, torn, inputs, billed, crashes>>

----------------------------------------------------------------------------
\* What a crash leaves of the file the process was writing.
Tear(p) ==
    \/ /\ proc[p].at \in {"append", "settle"}
       /\ torn' = torn \cup {"ledger"} /\ UNCHANGED <<cache, file>>
    \/ /\ proc[p].at = "cache"
       /\ cache' = [cache EXCEPT ![CurrentKey(p)] = [state |-> "torn"]]
       /\ UNCHANGED <<torn, file>>
    \/ /\ proc[p].at = "record"
       /\ torn' = torn \cup {"chain"} /\ UNCHANGED <<cache, file>>
    \/ /\ proc[p].at = "record"
       /\ file' = [file EXCEPT ![Stage(p)] = [state |-> "torn", inputs |-> -1]]
       /\ UNCHANGED <<torn, cache>>

Crash(p) ==
    /\ proc[p].at # "idle" /\ crashes < MaxCrashes
    /\ crashes' = crashes + 1
    /\ Fail(p)
    /\ Tear(p) \/ UNCHANGED <<torn, cache, file>>
    /\ UNCHANGED <<ledger, chain, inputs, billed>>

EditInputs ==
    /\ inputs < MaxEdits
    /\ inputs' = inputs + 1
    /\ UNCHANGED <<proc, ledger, cache, chain, file, torn, billed, crashes>>

Step(p) ==
    \/ \E plan \in Plans, offline \in BOOLEAN : Start(p, plan, offline)
    \/ Load(p) \/ BeginStage(p) \/ LookUp(p)
    \/ ReadLedger(p) \/ AppendReservation(p) \/ Answered(p) \/ NotAnswered(p)
    \/ Settle(p) \/ WriteCache(p) \/ WriteResult(p) \/ RecordResult(p)

Next == EditInputs \/ \E p \in Procs : Step(p) \/ Crash(p)

Spec == Init /\ [][Next]_vars

----------------------------------------------------------------------------
(* Properties.                                                              *)

\* "A final total at or below the ceiling would not prove that a call which could have exceeded
\* it was never dispatched": whatever crashed before, each reservation fitted what was committed
\* and open when it was made, and all the provider charged for it was reserved, and durable,
\* before the call.  What is committed once a call is settled may be less than was charged, see
\* UnknownIsNeverZero: later reservations then fit the ledger, not the bill.
NothingUnreserved ==
    /\ Replay(ledger).fits /\ Spent(Replay(ledger)) <= Cap
    /\ \A id \in DOMAIN billed :
          \E e \in ToSet(ledger) : e.type = "reservation" /\ e.id = id /\ billed[id] <= e.usd

\* A result was computed from the inputs it names; arms and tuning come after an extraction
\* from these inputs is on record.
ResultsAreEvidence ==
    \A i \in DOMAIN chain :
        LET result == chain[i].result
        IN  /\ result.data = result.inputs
            /\ \E j \in 1..i : chain[j].stage = "extraction" /\ chain[j].result.inputs = result.inputs

\* What the docstring of the guard says of unknown usage, and what a retry does not do: the
\* attempt that timed out may have been charged, and the settlement counts the answered one.
UnknownIsNeverZero ==
    \A e \in ToSet(ledger) : e.type = "call_result" => billed[e.id] <= e.usd
=============================================================================
