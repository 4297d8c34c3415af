------------------------- MODULE ExperimentsProofs -------------------------
(***************************************************************************)
(* What the experiments that pay for provider calls promise, for all       *)
(* values of the constants: the held-out attempts and their verdicts, the  *)
(* results of the T4 campaign, the one execution of the dual memory, the   *)
(* attempts of the long context.                                           *)
(***************************************************************************)
EXTENDS Experiments, Sequences, FiniteSetTheorems, TLAPS

(* A step of the experiments is a step of one, or leaves it alone.          *)
LEMMA Continues ==
    ASSUME [PaidNext]_paidVars
    PROVE  /\ part' = part
           /\ part = "heldout" => [Heldout!Next]_heldoutVars
           /\ part = "spend" => [Spend!Next]_spendVars
           /\ part = "dual" => [Dual!Next]_dualVars
           /\ part = "attempt" => [Attempts!Next]_attemptVars
  <1>1. CASE PaidNext
    BY <1>1 DEF PaidNext
  <1>2. CASE UNCHANGED paidVars
    BY <1>2 DEF paidVars
  <1> QED
    BY <1>1, <1>2

----------------------------------------------------------------------------
(* The held-out attempts: HeldoutAttemptLedger.                             *)

Lines ==
    [run : Runs, number : Nat, status : {"started", "completed", "invalid"}, retry : BOOLEAN,
     verdict : {"none", "GO", "NO_GO"}]

Started == Cardinality(Heldout!Starts)

\* A next attempt may follow what is on file.
Replaceable ==
    ledger # <<>> =>
        ledger[Len(ledger)].status = "invalid" /\ ledger[Len(ledger)].retry

HeldoutTypes ==
    /\ pc \in [Runs -> Heldout!Points] /\ phase \in [Runs -> {"development", "heldout"}]
    /\ number \in [Runs -> Nat] /\ call \in [Runs -> Nat] /\ unsafe \in [Runs -> BOOLEAN]
    /\ failure \in [Runs -> {"none", "retry", "no_retry"}]
    /\ ledger \in Seq(Lines)

\* Each number is reserved before the line that has it, by one run; and while a run holds the
\* next number nothing is appended before its start.
AttemptInv ==
    /\ HeldoutTypes
    /\ Heldout!OneAttemptAtATime
    /\ 1 .. Started \subseteq reserved
    /\ \A i, j \in Heldout!Starts : ledger[i].run = ledger[j].run => i = j
    /\ \A i \in Heldout!Starts : pc[ledger[i].run] \notin {"idle", "read", "reserve", "append"}
    /\ \A r \in Runs :
          /\ pc[r] = "reserve" => number[r] \in 1 .. Started + 1
          /\ pc[r] = "append" => number[r] = Started + 1 /\ number[r] \in reserved
          /\ pc[r] \in {"reserve", "append"} /\ number[r] = Started + 1 => Replaceable
    /\ \A q, r \in Runs : pc[q] = "append" /\ pc[r] = "append" => q = r

\* The calls below n of a run succeeded, and it made no other.
Succeeded(r, n) ==
    /\ \A e \in trail : e.run = r => e.call \in 0 .. n - 1 /\ e.status \in {"started", "succeeded"}
    /\ \A c \in 0 .. n - 1 : Heldout!Ended(r, c, "started") /\ Heldout!Ended(r, c, "succeeded")

\* The calls below n succeeded, and that numbered n has begun.
Awaits(r, n) ==
    /\ \A e \in trail : e.run = r =>
          \/ e.call \in 0 .. n - 1 /\ e.status \in {"started", "succeeded"}
          \/ e.call = n /\ e.status = "started"
    /\ \A c \in 0 .. n - 1 : Heldout!Ended(r, c, "started") /\ Heldout!Ended(r, c, "succeeded")
    /\ Heldout!Ended(r, n, "started")

\* What a run knows of its calls where it is.
CallsAgree(r) ==
    /\ pc[r] \in {"idle", "read", "reserve", "append", "load"} => call[r] = 0
    /\ pc[r] \in {"idle", "read", "reserve", "append", "load", "call", "evaluate", "decide",
                  "finalize"} => Succeeded(r, call[r])
    /\ pc[r] = "calling" => Awaits(r, call[r])
    /\ pc[r] \in {"call", "calling"} => call[r] <= Completions
    /\ pc[r] = "evaluate" => call[r] = 1
    /\ pc[r] \in {"idle", "read", "reserve", "append", "load"} => ~unsafe[r]
    /\ pc[r] \in {"decide", "finalize"} =>
          /\ call[r] \in 1 .. Completions + 1
          /\ phase[r] = "heldout" /\ ~unsafe[r] => call[r] = Completions + 1
    /\ pc[r] = "finalize" => /\ phase[r] = "heldout"
                             /\ ~unsafe[r] => Heldout!MissingUsage(r) = {}

Backed(r) ==
    /\ Heldout!Failed(r) = {} /\ Heldout!Unknown(r) = {}
    /\ ~unsafe[r] => Heldout!MissingUsage(r) = {} /\ Heldout!Started(r) = Heldout!Calls

Completed(r) == {i \in DOMAIN ledger : ledger[i].run = r /\ ledger[i].status = "completed"}

VerdictInv ==
    /\ HeldoutTypes
    /\ trail \subseteq [run : Runs, call : Nat, status : {"started", "succeeded", "failed"},
                        billable : BOOLEAN, usage : BOOLEAN]
    /\ \A r \in Runs : CallsAgree(r)
    /\ \A r \in Runs : Completed(r) # {} =>
          /\ pc[r] = "done" /\ r \in results /\ Backed(r)
          /\ unsafe[r] => \A i \in Completed(r) : ledger[i].verdict = "NO_GO"

----------------------------------------------------------------------------
(* The results of the campaign: run_t4.py.                                  *)

Stages == {"extraction", "arms", "tuning"}
Working == {"call", "reserve", "append", "send", "settle", "cache", "record"}
Fields == {"at", "plan", "offline", "seen", "data", "k", "rows", "id", "attempt", "reply"}

\* Nothing takes a result file from the process that is about to record it.
Undisturbed == (\A p, q \in Procs : p = q) \/ MaxCrashes = 0

\* An extraction from such inputs is on record, in one of the first n events.
OnRecord(version, n) ==
    \E j \in 1 .. n : chain[j].stage = "extraction" /\ chain[j].result.inputs = version

\* What a process holds agrees with the files.
Holds(s) ==
    /\ s = [field \in Fields |-> s[field]]
    /\ s.at \in {"idle", "load", "stage"} \cup Working
    /\ s.seen \in Nat /\ s.data \in Nat /\ s.plan \in Seq(Stages)
    /\ s.at # "idle" => s.plan # <<>> /\ s.seen <= inputs
    /\ s.at \in {"stage"} \cup Working => s.seen <= s.data /\ s.data <= inputs
    /\ s.at \in Working => Head(s.plan) = "extraction" \/ OnRecord(s.seen, Len(chain))
    /\ s.at = "record" => file[Head(s.plan)].state = "whole"

FileStands(stage) ==
    file[stage].state = "whole" =>
        /\ file[stage].data = file[stage].inputs
        /\ stage = "extraction" \/ OnRecord(file[stage].inputs, Len(chain))

EvidenceInv ==
    /\ inputs \in Nat /\ crashes \in Nat
    /\ proc = [p \in Procs |-> proc[p]] /\ file = [stage \in Stages |-> file[stage]]
    /\ \E S : chain \in Seq(S)
    /\ \A p \in Procs : Holds(proc[p])
    /\ \A stage \in Stages : FileStands(stage)
    /\ Spend!ResultsAreEvidence

----------------------------------------------------------------------------
(* The one execution of the dual memory: run_external.                      *)

CallRecords ==
    [kind : Dual!Kinds, job : Nat, outcome : {"unknown", "succeeded", "failed"}]

InPhase == {"embedding_batch", "semantic_extraction", "generation"}

DualTypes ==
    /\ batches \in Nat
    /\ point \in {"start", "verify", "write", "over"} \cup InPhase
    /\ reservation \in BOOLEAN /\ broken \in BOOLEAN
    /\ calls \in Seq(CallRecords)
    /\ worker \in [Workers -> Int] /\ \A w \in Workers : worker[w] <= Len(calls)
    /\ queue \subseteq 1 .. Generations

\* Every call of the schedule was made, once, and succeeded.
WholeRun ==
    /\ \A i \in DOMAIN calls : calls[i].outcome = "succeeded"
    /\ Len(calls) = batches + Extractions + Generations
    /\ answered = 1 .. Generations

\* What the ledger of calls holds at any time.
CallsCounted ==
    /\ Len(calls) = Dual!Count("embedding_batch") + Dual!Count("semantic_extraction")
                       + Dual!Count("generation")
    /\ \A kind \in Dual!Kinds : Dual!Count(kind) <= Limits[kind]
    /\ \A i, j \in DOMAIN calls :
          calls[i].kind = calls[j].kind /\ calls[i].job = calls[j].job => i = j
    /\ \A kind \in Dual!Kinds \ {"generation"} : \A i \in DOMAIN calls :
          calls[i].kind = kind => calls[i].job <= Dual!Count(kind)

\* How far the ledger is at each point.
PhasesAgree ==
    /\ point # "start" => reservation
    /\ point \in {"verify"} \cup InPhase \/ ~reservation => output = {}
    /\ point \in {"verify"} \/ ~reservation => calls = <<>>
    /\ point \in {"verify", "embedding_batch", "semantic_extraction"} \/ ~reservation =>
          /\ queue = 1 .. Generations /\ ~broken /\ answered = {}
          /\ \A w \in Workers : worker[w] = 0
          /\ Dual!Count("generation") = 0
    /\ point = "embedding_batch" => Dual!Count("semantic_extraction") = 0
    /\ point \in {"semantic_extraction", "generation"} => Dual!Count("embedding_batch") = batches
    /\ point = "generation" => Dual!Count("semantic_extraction") = Extractions

\* A job has left the queue when it is called, and only then when none was refused.
JobsTaken ==
    point = "generation" =>
        /\ \A i \in DOMAIN calls : calls[i].kind = "generation" =>
              calls[i].job \in (1 .. Generations) \ queue
        /\ ~broken => Dual!Count("generation") + Cardinality(queue) = Generations
        /\ \A w \in Workers : worker[w] > 0 => calls[worker[w]].kind = "generation"
        /\ \A job \in answered :
              \E i \in DOMAIN calls : calls[i].kind = "generation" /\ calls[i].job = job

DualInv ==
    /\ DualTypes /\ CallsCounted /\ PhasesAgree /\ JobsTaken
    /\ point = "write" \/ output # {} => WholeRun

----------------------------------------------------------------------------
(* The ledger of attempts.                                                  *)

(* A line more: where the starts are, and how many.                         *)
LEMMA LineAdded ==
    ASSUME ledger \in Seq(Lines), NEW line \in Lines, ledger' = Append(ledger, line)
    PROVE  /\ ledger' \in Seq(Lines) /\ Len(ledger') = Len(ledger) + 1
           /\ DOMAIN ledger = 1 .. Len(ledger) /\ DOMAIN ledger' = 1 .. Len(ledger) + 1
           /\ \A i \in DOMAIN ledger : ledger'[i] = ledger[i] /\ ledger[i] \in Lines
           /\ ledger'[Len(ledger) + 1] = line
           /\ Heldout!Starts' = IF line.status = "started"
                                THEN Heldout!Starts \cup {Len(ledger) + 1} ELSE Heldout!Starts
           /\ IsFiniteSet(Heldout!Starts) /\ Started \in Nat
           /\ Started' = IF line.status = "started" THEN Started + 1 ELSE Started
  <1>1. /\ ledger' \in Seq(Lines) /\ Len(ledger') = Len(ledger) + 1
        /\ DOMAIN ledger = 1 .. Len(ledger) /\ DOMAIN ledger' = 1 .. Len(ledger) + 1
        /\ \A i \in DOMAIN ledger : ledger'[i] = ledger[i] /\ ledger[i] \in Lines
        /\ ledger'[Len(ledger) + 1] = line
    OBVIOUS
  <1>2. Heldout!Starts' = IF line.status = "started"
                          THEN Heldout!Starts \cup {Len(ledger) + 1} ELSE Heldout!Starts
    BY <1>1 DEF Heldout!Starts
  <1>3. IsFiniteSet(Heldout!Starts) /\ Started \in Nat
    <2>1. Len(ledger) \in Nat /\ Heldout!Starts \subseteq 1 .. Len(ledger)
      BY <1>1 DEF Heldout!Starts
    <2>2. IsFiniteSet(1 .. Len(ledger))
      BY <2>1, FS_Interval
    <2> QED
      BY <2>1, <2>2, FS_Subset, FS_CardinalityType DEF Started
  <1>4. Len(ledger) + 1 \notin Heldout!Starts
    BY <1>1 DEF Heldout!Starts
  <1>5. Started' = IF line.status = "started" THEN Started + 1 ELSE Started
    <2>1. CASE line.status = "started"
      <3>1. Cardinality(Heldout!Starts \cup {Len(ledger) + 1}) = Cardinality(Heldout!Starts) + 1
        BY <1>3, <1>4, FS_AddElement
      <3> QED
        BY <1>2, <2>1, <3>1 DEF Started
    <2>2. CASE line.status # "started"
      BY <1>2, <2>2 DEF Started
    <2> QED
      BY <2>1, <2>2
  <1> QED
    BY <1>1, <1>2, <1>3, <1>5

(* A start that nothing follows is the last line; after a terminal event    *)
(* there is none.                                                           *)
LEMMA OpenAttemptIsLast ==
    ASSUME AttemptInv, NEW i \in Heldout!Starts, Heldout!Terminal(ledger[i].run) = {}
    PROVE  i = Len(ledger)
  <1>1. ledger \in Seq(Lines) /\ i \in DOMAIN ledger /\ ledger[i].status = "started"
    BY DEF AttemptInv, HeldoutTypes, Heldout!Starts
  <1>2. DOMAIN ledger = 1 .. Len(ledger) /\ Len(ledger) \in Nat
    BY <1>1
  <1>3. ASSUME i # Len(ledger) PROVE FALSE
    <2>1. i + 1 \in DOMAIN ledger /\ i + 1 > 1 /\ (i + 1) - 1 = i
      BY <1>1, <1>2, <1>3
    <2>2. CASE ledger[i + 1].status = "started"
      <3>1. ledger[(i + 1) - 1].status = "invalid"
        BY <2>1, <2>2 DEF AttemptInv, Heldout!OneAttemptAtATime
      <3> QED
        BY <1>1, <2>1, <3>1
    <2>3. CASE ledger[i + 1].status # "started"
      <3>1. ledger[(i + 1) - 1].run = ledger[i + 1].run
        BY <2>1, <2>3 DEF AttemptInv, Heldout!OneAttemptAtATime
      <3>2. i + 1 \in Heldout!Terminal(ledger[i].run)
        BY <2>1, <2>3, <3>1 DEF Heldout!Terminal
      <3> QED
        BY <3>2
    <2> QED
      BY <2>2, <2>3
  <1> QED
    BY <1>3

(* The policy of start() is that the last attempt was classified.           *)
LEMMA PolicyMeansReplaceable ==
    ASSUME AttemptInv, Heldout!MayStart
    PROVE  Replaceable
  <1> SUFFICES ASSUME ledger # <<>>
               PROVE  ledger[Len(ledger)].status = "invalid" /\ ledger[Len(ledger)].retry
    BY DEF Replaceable
  <1> DEFINE n == Len(ledger)
  <1>1. ledger \in Seq(Lines)
    BY DEF AttemptInv, HeldoutTypes
  <1>2. n \in Nat /\ n >= 1 /\ n \in DOMAIN ledger /\ DOMAIN ledger = 1 .. n /\ ledger[n] \in Lines
    BY <1>1
  <1> HIDE DEF n
  <1>3. ledger[n].status # "completed"
    BY <1>2 DEF Heldout!MayStart, Heldout!ToSet
  \* A run has one start, so its terminal event comes right after it.
  <1>4. ASSUME NEW i \in Heldout!Starts, NEW k \in Heldout!Terminal(ledger[i].run)
        PROVE  k = i + 1
    <2>1. /\ k \in DOMAIN ledger /\ ledger[k].status # "started" /\ ledger[k].run = ledger[i].run
          /\ i \in DOMAIN ledger /\ ledger[i].status = "started"
      BY <1>4 DEF Heldout!Terminal, Heldout!Starts
    <2>2. k > 1 /\ ledger[k - 1].status = "started" /\ ledger[k - 1].run = ledger[k].run
      BY <2>1 DEF AttemptInv, Heldout!OneAttemptAtATime
    <2>3. k - 1 \in Heldout!Starts
      BY <1>2, <2>1, <2>2 DEF Heldout!Starts
    <2>4. k - 1 = i
      BY <2>1, <2>2, <2>3 DEF AttemptInv
    <2> QED
      BY <1>2, <2>1, <2>4
  <1>5. CASE ledger[n].status = "started"
    <2>1. n \in Heldout!Starts /\ \A j \in Heldout!Starts : j <= n
      BY <1>2, <1>5 DEF Heldout!Starts
    <2>2. PICK k \in Heldout!Terminal(ledger[n].run) : ledger[k].retry
      BY <2>1 DEF Heldout!MayStart
    <2>3. k = n + 1 /\ k \in DOMAIN ledger
      BY <1>4, <2>1, <2>2 DEF Heldout!Terminal
    <2> QED
      BY <1>2, <2>3
  <1>6. CASE ledger[n].status # "started"
    <2>1. n > 1 /\ ledger[n - 1].status = "started"
      BY <1>2, <1>6 DEF AttemptInv, Heldout!OneAttemptAtATime
    <2>2. n - 1 \in Heldout!Starts /\ \A j \in Heldout!Starts : j <= n - 1
      BY <1>2, <1>6, <2>1 DEF Heldout!Starts
    <2>3. PICK k \in Heldout!Terminal(ledger[n - 1].run) : ledger[k].retry
      BY <2>2 DEF Heldout!MayStart
    <2>4. k = (n - 1) + 1
      BY <1>4, <2>2, <2>3
    <2>5. k = n
      BY <1>2, <2>4
    <2>6. ledger[n].status = "invalid"
      BY <1>2, <1>3, <1>6 DEF Lines
    <2> QED
      BY <2>3, <2>5, <2>6 DEF n
  <1> QED
    BY <1>5, <1>6

LEMMA SameCount == \A S : Heldout!Cardinality(S) = Cardinality(S)
  BY DEF Heldout!Cardinality, Cardinality

LEMMA StartsAreCounted ==
    ASSUME HeldoutTypes
    PROVE  /\ IsFiniteSet(Heldout!Starts) /\ Started \in Nat
           /\ \A i \in Heldout!Starts : i \in 1 .. Len(ledger) /\ ledger[i].run \in Runs
  <1>1. ledger \in Seq(Lines) /\ Len(ledger) \in Nat /\ DOMAIN ledger = 1 .. Len(ledger)
    BY DEF HeldoutTypes
  <1>2. \A i \in Heldout!Starts : i \in 1 .. Len(ledger) /\ ledger[i].run \in Runs
    <2>1. \A i \in 1 .. Len(ledger) : ledger[i] \in Lines
      BY <1>1
    <2>2. \A i \in 1 .. Len(ledger) : ledger[i].run \in Runs
      BY <2>1 DEF Lines
    <2> QED
      BY <1>1, <2>2 DEF Heldout!Starts
  <1>3. IsFiniteSet(1 .. Len(ledger)) /\ Heldout!Starts \subseteq 1 .. Len(ledger)
    BY <1>1, <1>2, FS_Interval
  <1>4. IsFiniteSet(Heldout!Starts)
    BY <1>3, FS_Subset
  <1> QED
    BY <1>2, <1>4, FS_CardinalityType DEF Started

(* The variables keep their types.                                          *)
LEMMA HeldoutTyped ==
    ASSUME HeldoutTypes, [Heldout!Next]_heldoutVars
    PROVE  HeldoutTypes'
  <1>1. CASE UNCHANGED heldoutVars
    BY <1>1 DEF heldoutVars, HeldoutTypes
  <1> USE DEF HeldoutTypes, Heldout!Goto, Heldout!Fail, Heldout!Points, Heldout!fileVars
  <1>2. ASSUME NEW r \in Runs, Heldout!Launch(r) PROVE HeldoutTypes'
    BY <1>2 DEF Heldout!Launch
  <1>3. ASSUME NEW r \in Runs, Heldout!ReadLedger(r) PROVE HeldoutTypes'
    <2>1. Cardinality(Heldout!Starts) \in Nat
      BY StartsAreCounted DEF Started
    <2>2. Heldout!Cardinality(Heldout!Starts) + 1 \in Nat
      BY <2>1, SameCount
    <2> QED
      BY <1>3, <2>2 DEF Heldout!ReadLedger
  <1>4. ASSUME NEW r \in Runs, Heldout!Reserve(r) PROVE HeldoutTypes'
    BY <1>4 DEF Heldout!Reserve
  <1>5. ASSUME NEW r \in Runs, Heldout!AppendStarted(r) PROVE HeldoutTypes'
    BY <1>5 DEF Heldout!AppendStarted, Heldout!Event, Lines
  <1>6. ASSUME NEW r \in Runs, Heldout!Load(r) PROVE HeldoutTypes'
    BY <1>6 DEF Heldout!Load
  <1>7. ASSUME NEW r \in Runs, Heldout!StartCall(r) PROVE HeldoutTypes'
    BY <1>7 DEF Heldout!StartCall
  <1>8. ASSUME NEW r \in Runs, Heldout!CallSucceeds(r) PROVE HeldoutTypes'
    BY <1>8 DEF Heldout!CallSucceeds, Heldout!AfterCall
  <1>9. ASSUME NEW r \in Runs, Heldout!CallFails(r) PROVE HeldoutTypes'
    BY <1>9 DEF Heldout!CallFails
  <1>10. ASSUME NEW r \in Runs, Heldout!EmbeddingIsRefused(r) PROVE HeldoutTypes'
    BY <1>10 DEF Heldout!EmbeddingIsRefused
  <1>11. ASSUME NEW r \in Runs, Heldout!Evaluate(r) PROVE HeldoutTypes'
    BY <1>11 DEF Heldout!Evaluate
  <1>12. ASSUME NEW r \in Runs, Heldout!Select(r) PROVE HeldoutTypes'
    BY <1>12 DEF Heldout!Select
  <1>13. ASSUME NEW r \in Runs, Heldout!Decide(r) PROVE HeldoutTypes'
    BY <1>13 DEF Heldout!Decide, Heldout!Evidence
  <1>14. ASSUME NEW r \in Runs, Heldout!Classify(r) PROVE HeldoutTypes'
    <2> DEFINE line == Heldout!Event(r, "invalid", Heldout!Replacement(r), "none")
    <2>1. Heldout!Replacement(r) \in BOOLEAN
      BY DEF Heldout!Replacement
    <2>2. line \in Lines
      BY <2>1 DEF Heldout!Event, Lines
    <2>3. ledger' = Append(ledger, line) \/ ledger' = ledger
      BY <1>14 DEF Heldout!Classify, Heldout!AppendTerminal
    <2> HIDE DEF line
    <2>4. ledger' \in Seq(Lines)
      <3>1. ledger \in Seq(Lines)
        OBVIOUS
      <3>2. Append(ledger, line) \in Seq(Lines)
        BY <2>2, <3>1
      <3> QED
        BY <2>3, <3>1, <3>2
    <2> QED
      BY <1>14, <2>4 DEF Heldout!Classify
  <1>15. ASSUME NEW r \in Runs, NEW verdict \in Heldout!Verdicts(r), Heldout!Finalize(r, verdict)
         PROVE  HeldoutTypes'
    <2> DEFINE line == Heldout!Event(r, "completed", FALSE, verdict)
    <2>1. verdict \in {"none", "GO", "NO_GO"}
      BY <1>15 DEF Heldout!Verdicts
    <2>2. line \in Lines
      BY <2>1 DEF Heldout!Event, Lines
    <2>3. ledger' = Append(ledger, line) \/ ledger' = ledger
      BY <1>15 DEF Heldout!Finalize, Heldout!AppendTerminal
    <2> HIDE DEF line
    <2>4. ledger' \in Seq(Lines)
      <3>1. ledger \in Seq(Lines)
        OBVIOUS
      <3>2. Append(ledger, line) \in Seq(Lines)
        BY <2>2, <3>1
      <3> QED
        BY <2>3, <3>1, <3>2
    <2> QED
      BY <1>15, <2>4 DEF Heldout!Finalize
  <1>16. ASSUME NEW r \in Runs, Heldout!Crash(r) PROVE HeldoutTypes'
    BY <1>16 DEF Heldout!Crash
  <1>17. ASSUME NEW r \in Runs, Heldout!CrashInCall(r) PROVE HeldoutTypes'
    BY <1>17 DEF Heldout!CrashInCall
  <1> QED
    BY <1>1, <1>2, <1>3, <1>4, <1>5, <1>6, <1>7, <1>8, <1>9, <1>10, <1>11, <1>12, <1>13, <1>14,
       <1>15, <1>16, <1>17 DEF Heldout!Next, Heldout!RunStep

(* A step that appends nothing and leaves its run past the start of an      *)
(* attempt, or with none.                                                   *)
LEMMA NothingAppended ==
    ASSUME AttemptInv, HeldoutTypes', NEW r \in Runs, NEW at \in Heldout!Points,
           at \notin {"idle", "read", "reserve", "append"},
           pc' = [pc EXCEPT ![r] = at], UNCHANGED <<ledger, reserved, number>>
    PROVE  AttemptInv'
  <1>1. Heldout!Starts' = Heldout!Starts /\ Started' = Started /\ (Replaceable' <=> Replaceable)
    BY DEF Heldout!Starts, Started, Replaceable
  <1>2. \A q \in Runs : pc'[q] = IF q = r THEN at ELSE pc[q]
    BY DEF AttemptInv, HeldoutTypes
  <1>3. Heldout!OneAttemptAtATime'
    BY DEF AttemptInv, Heldout!OneAttemptAtATime
  <1>4. \A i \in Heldout!Starts : ledger[i].run \in Runs
    BY StartsAreCounted DEF AttemptInv
  <1> QED
    BY <1>1, <1>2, <1>3, <1>4 DEF AttemptInv

(* A run gets its number, then its reservation.                             *)
LEMMA NumberTaken ==
    ASSUME AttemptInv, HeldoutTypes', NEW r \in Runs, Heldout!ReadLedger(r)
    PROVE  AttemptInv'
  <1>1. CASE pc' = [pc EXCEPT ![r] = "done"] /\ UNCHANGED number
    <2>1. "done" \in Heldout!Points
      BY DEF Heldout!Points
    <2> QED
      BY <1>1, <2>1, NothingAppended DEF Heldout!ReadLedger, Heldout!fileVars
  <1>2. CASE /\ Heldout!MayStart /\ pc' = [pc EXCEPT ![r] = "reserve"]
             /\ number' = [number EXCEPT ![r] = Started + 1]
    <2>1. UNCHANGED <<ledger, reserved>> /\ pc[r] = "read"
      BY DEF Heldout!ReadLedger, Heldout!fileVars
    <2>2. Replaceable
      BY <1>2, PolicyMeansReplaceable
    <2>3. Heldout!Starts' = Heldout!Starts /\ Started' = Started /\ (Replaceable' <=> Replaceable)
      BY <2>1 DEF Heldout!Starts, Started, Replaceable
    <2>4. \A q \in Runs : /\ pc'[q] = IF q = r THEN "reserve" ELSE pc[q]
                          /\ number'[q] = IF q = r THEN Started + 1 ELSE number[q]
      BY <1>2 DEF AttemptInv, HeldoutTypes
    <2>5. Heldout!OneAttemptAtATime'
      BY <2>1 DEF AttemptInv, Heldout!OneAttemptAtATime
    <2>6. \A i \in Heldout!Starts : ledger[i].run \in Runs
      BY StartsAreCounted DEF AttemptInv
    <2>7. Started + 1 \in 1 .. Started + 1
      BY StartsAreCounted DEF AttemptInv
    <2>8. \A i, j \in Heldout!Starts' : ledger'[i].run = ledger'[j].run => i = j
      BY <2>1, <2>3 DEF AttemptInv
    <2>9. \A i \in Heldout!Starts' :
             pc'[ledger'[i].run] \notin {"idle", "read", "reserve", "append"}
      BY <2>1, <2>3, <2>4, <2>6 DEF AttemptInv
    <2>10. ASSUME NEW q \in Runs
           PROVE  /\ pc'[q] = "reserve" => number'[q] \in 1 .. Started' + 1
                  /\ pc'[q] = "append" => number'[q] = Started' + 1 /\ number'[q] \in reserved'
                  /\ pc'[q] \in {"reserve", "append"} /\ number'[q] = Started' + 1 => Replaceable'
      BY <2>1, <2>2, <2>3, <2>4, <2>7 DEF AttemptInv
    <2> QED
      BY <2>1, <2>3, <2>4, <2>5, <2>8, <2>9, <2>10 DEF AttemptInv
  <1> QED
    BY <1>1, <1>2, SameCount DEF Heldout!ReadLedger, Heldout!Goto, Started

LEMMA NumberReserved ==
    ASSUME AttemptInv, HeldoutTypes', NEW r \in Runs, Heldout!Reserve(r)
    PROVE  AttemptInv'
  <1>1. CASE number[r] \in reserved
    <2>1. "done" \in Heldout!Points
      BY DEF Heldout!Points
    <2> QED
      BY <1>1, <2>1, NothingAppended DEF Heldout!Reserve, Heldout!Goto
  <1>2. CASE number[r] \notin reserved
    <2>1. /\ UNCHANGED <<ledger, number>> /\ pc[r] = "reserve"
          /\ reserved' = reserved \cup {number[r]} /\ pc' = [pc EXCEPT ![r] = "append"]
      BY <1>2 DEF Heldout!Reserve, Heldout!Goto
    <2>2. Started \in Nat /\ number[r] \in 1 .. Started + 1 /\ 1 .. Started \subseteq reserved
      BY <2>1, StartsAreCounted DEF AttemptInv
    <2>3. number[r] = Started + 1
      BY <1>2, <2>2
    <2>4. Heldout!Starts' = Heldout!Starts /\ Started' = Started /\ (Replaceable' <=> Replaceable)
      BY <2>1 DEF Heldout!Starts, Started, Replaceable
    <2>5. \A q \in Runs : pc'[q] = IF q = r THEN "append" ELSE pc[q]
      BY <2>1 DEF AttemptInv, HeldoutTypes
    <2>6. Heldout!OneAttemptAtATime'
      BY <2>1 DEF AttemptInv, Heldout!OneAttemptAtATime
    <2>7. \A i \in Heldout!Starts : ledger[i].run \in Runs
      BY StartsAreCounted DEF AttemptInv
    \* Whoever held the number before would have reserved it.
    <2>8. \A q \in Runs : pc[q] # "append"
      BY <1>2, <2>3 DEF AttemptInv
    <2>9. \A i \in Heldout!Starts' :
             pc'[ledger'[i].run] \notin {"idle", "read", "reserve", "append"}
      BY <2>1, <2>4, <2>5, <2>7 DEF AttemptInv
    <2>10. ASSUME NEW q \in Runs
           PROVE  /\ pc'[q] = "reserve" => number'[q] \in 1 .. Started' + 1
                  /\ pc'[q] = "append" => number'[q] = Started' + 1 /\ number'[q] \in reserved'
                  /\ pc'[q] \in {"reserve", "append"} /\ number'[q] = Started' + 1 => Replaceable'
      BY <2>1, <2>3, <2>4, <2>5, <2>8 DEF AttemptInv
    <2>11. 1 .. Started' \subseteq reserved'
      BY <2>1, <2>2, <2>4
    <2> QED
      BY <2>1, <2>4, <2>5, <2>6, <2>8, <2>9, <2>10, <2>11 DEF AttemptInv
  <1> QED
    BY <1>1, <1>2

(* What the ledger says of a line does not depend on the lines after it.    *)
LEMMA EarlierLinesStand ==
    ASSUME AttemptInv, NEW line \in Lines, ledger' = Append(ledger, line)
    PROVE  \A i \in DOMAIN ledger :
              IF ledger'[i].status = "started"
              THEN /\ ledger'[i].number
                         = Heldout!Cardinality({j \in 1 .. i : ledger'[j].status = "started"})
                   /\ i > 1 => ledger'[i - 1].status = "invalid" /\ ledger'[i - 1].retry
              ELSE /\ i > 1 /\ ledger'[i - 1].status = "started"
                   /\ ledger'[i - 1].run = ledger'[i].run
  <1> SUFFICES ASSUME NEW i \in DOMAIN ledger
               PROVE  IF ledger'[i].status = "started"
                      THEN /\ ledger'[i].number
                              = Heldout!Cardinality({j \in 1 .. i : ledger'[j].status = "started"})
                           /\ i > 1 => ledger'[i - 1].status = "invalid" /\ ledger'[i - 1].retry
                      ELSE /\ i > 1 /\ ledger'[i - 1].status = "started"
                           /\ ledger'[i - 1].run = ledger'[i].run
    OBVIOUS
  <1>1. ledger \in Seq(Lines)
    BY DEF AttemptInv, HeldoutTypes
  <1>2. /\ DOMAIN ledger = 1 .. Len(ledger) /\ Len(ledger) \in Nat
        /\ \A j \in 1 .. i : ledger'[j] = ledger[j]
    BY <1>1, LineAdded
  <1>3. {j \in 1 .. i : ledger'[j].status = "started"}
           = {j \in 1 .. i : ledger[j].status = "started"}
    BY <1>2
  <1>4. i \in 1 .. i /\ (i > 1 => i - 1 \in 1 .. i)
    BY <1>2
  <1>5. ledger'[i] = ledger[i] /\ (i > 1 => ledger'[i - 1] = ledger[i - 1])
    BY <1>2, <1>4
  <1>6. IF ledger[i].status = "started"
        THEN /\ ledger[i].number
                   = Heldout!Cardinality({j \in 1 .. i : ledger[j].status = "started"})
             /\ i > 1 => ledger[i - 1].status = "invalid" /\ ledger[i - 1].retry
        ELSE i > 1 /\ ledger[i - 1].status = "started" /\ ledger[i - 1].run = ledger[i].run
    BY DEF AttemptInv, Heldout!OneAttemptAtATime
  <1> QED
    BY <1>3, <1>5, <1>6

(* The holder of the next number starts its attempt.                        *)
LEMMA AttemptStarted ==
    ASSUME AttemptInv, HeldoutTypes', NEW r \in Runs, Heldout!AppendStarted(r)
    PROVE  AttemptInv'
  <1> DEFINE line == Heldout!Event(r, "started", FALSE, "none")
             n == Len(ledger) + 1
  <1>1. /\ pc[r] = "append" /\ ledger' = Append(ledger, line) /\ pc' = [pc EXCEPT ![r] = "load"]
        /\ UNCHANGED <<number, reserved>>
    BY DEF Heldout!AppendStarted, Heldout!Goto
  <1>2. /\ number[r] = Started + 1 /\ number[r] \in reserved /\ Replaceable
        /\ ledger \in Seq(Lines) /\ number[r] \in Nat
    BY <1>1 DEF AttemptInv, HeldoutTypes
  <1>3. /\ line \in Lines /\ line.status = "started" /\ line.run = r /\ line.number = Started + 1
    BY <1>2 DEF Heldout!Event, Lines
  <1> HIDE DEF line
  <1>4. /\ Len(ledger') = n /\ n \in Nat
        /\ DOMAIN ledger = 1 .. Len(ledger) /\ DOMAIN ledger' = 1 .. n
        /\ \A i \in DOMAIN ledger : ledger'[i] = ledger[i] /\ ledger[i] \in Lines
        /\ ledger'[n] = line /\ Heldout!Starts' = Heldout!Starts \cup {n}
        /\ Started \in Nat /\ Started' = Started + 1
    BY <1>1, <1>2, <1>3, LineAdded
  <1>5. \A i \in Heldout!Starts : i \in DOMAIN ledger /\ ledger[i].run \in Runs
    BY <1>4, StartsAreCounted DEF AttemptInv, Heldout!Starts
  <1>6. n > 1 => ledger'[n - 1].status = "invalid" /\ ledger'[n - 1].retry
    <2> SUFFICES ASSUME n > 1 PROVE ledger'[n - 1].status = "invalid" /\ ledger'[n - 1].retry
      OBVIOUS
    <2>1. ledger # <<>> /\ n - 1 = Len(ledger) /\ n - 1 \in DOMAIN ledger
      BY <1>2, <1>4
    <2> QED
      BY <1>2, <1>4, <2>1 DEF Replaceable
  <1>7. ledger'[n].number = Heldout!Cardinality({j \in 1 .. n : ledger'[j].status = "started"})
    <2>1. {j \in 1 .. n : ledger'[j].status = "started"} = Heldout!Starts'
      BY <1>4 DEF Heldout!Starts
    <2>2. Started' = Cardinality(Heldout!Starts')
      BY DEF Started
    <2> QED
      BY <1>3, <1>4, <2>1, <2>2, SameCount
  <1>8. Heldout!OneAttemptAtATime'
    <2>1. \A i \in DOMAIN ledger' : i = n \/ i \in DOMAIN ledger
      BY <1>4
    <2> HIDE DEF n
    <2>2. ledger'[n].status = "started"
      BY <1>3, <1>4
    <2> SUFFICES ASSUME NEW i \in DOMAIN ledger'
                 PROVE  IF ledger'[i].status = "started"
                        THEN /\ ledger'[i].number
                                = Heldout!Cardinality({j \in 1 .. i : ledger'[j].status = "started"})
                             /\ i > 1 => ledger'[i - 1].status = "invalid" /\ ledger'[i - 1].retry
                        ELSE /\ i > 1 /\ ledger'[i - 1].status = "started"
                             /\ ledger'[i - 1].run = ledger'[i].run
      BY DEF Heldout!OneAttemptAtATime
    <2>3. CASE i = n
      BY <1>6, <1>7, <2>2, <2>3
    <2>4. CASE i \in DOMAIN ledger
      BY <1>1, <1>3, <2>4, EarlierLinesStand
    <2> QED
      BY <2>1, <2>3, <2>4
  <1> HIDE DEF n
  <1>9. \A q \in Runs : pc'[q] = IF q = r THEN "load" ELSE pc[q]
    BY <1>1 DEF AttemptInv, HeldoutTypes
  <1>10. \A i \in Heldout!Starts : ledger[i].run # r
    BY <1>1 DEF AttemptInv
  <1>11. \A i, j \in Heldout!Starts' : ledger'[i].run = ledger'[j].run => i = j
    BY <1>3, <1>4, <1>5, <1>10 DEF AttemptInv
  <1>12. \A i \in Heldout!Starts' : pc'[ledger'[i].run] \notin {"idle", "read", "reserve", "append"}
    <2>1. ASSUME NEW i \in Heldout!Starts
          PROVE  pc'[ledger'[i].run] \notin {"idle", "read", "reserve", "append"}
      <3>1. ledger'[i].run = ledger[i].run /\ ledger[i].run \in Runs
        BY <1>4, <1>5, <2>1
      <3> QED
        BY <1>9, <2>1, <3>1 DEF AttemptInv
    <2>2. pc'[ledger'[n].run] = "load"
      BY <1>3, <1>4, <1>9
    <2> QED
      BY <1>4, <2>1, <2>2
  \* The others that have a number have one that was used.
  <1>13. ASSUME NEW q \in Runs
         PROVE  /\ pc'[q] = "reserve" =>
                      number'[q] \in 1 .. Started' + 1 /\ number'[q] # Started' + 1
                /\ pc'[q] # "append"
    <2>1. pc'[q] # "append"
      BY <1>1, <1>9 DEF AttemptInv
    <2>2. CASE pc'[q] = "reserve"
      <3>1. number[q] \in 1 .. Started + 1
        BY <1>9, <2>2 DEF AttemptInv
      <3> QED
        BY <1>1, <1>4, <2>1, <3>1
    <2> QED
      BY <2>1, <2>2
  <1>14. 1 .. Started' \subseteq reserved'
    <2>1. \A k \in 1 .. Started + 1 : k = Started + 1 \/ k \in 1 .. Started
      BY <1>4
    <2> QED
      BY <1>1, <1>2, <1>4, <2>1 DEF AttemptInv
  <1> QED
    BY <1>8, <1>11, <1>12, <1>13, <1>14 DEF AttemptInv

(* A terminal event follows the start of its run.                           *)
LEMMA AttemptEnded ==
    ASSUME AttemptInv, HeldoutTypes', NEW r \in Runs, NEW line \in Lines,
           line.run = r, line.status # "started", Heldout!AppendTerminal(r, line),
           pc' = [pc EXCEPT ![r] = "done"], UNCHANGED <<number, reserved>>
    PROVE  AttemptInv'
  <1> DEFINE n == Len(ledger) + 1
  <1>0. "done" \in Heldout!Points
    BY DEF Heldout!Points
  <1>1. CASE UNCHANGED ledger
    BY <1>0, <1>1, NothingAppended
  <1>2. CASE /\ ledger' = Append(ledger, line) /\ Heldout!Terminal(r) = {}
             /\ Heldout!Cardinality({i \in Heldout!Starts : ledger[i].run = r}) = 1
    <2>1. ledger \in Seq(Lines)
      BY DEF AttemptInv, HeldoutTypes
    <2>2. /\ Len(ledger') = n /\ n \in Nat
          /\ DOMAIN ledger = 1 .. Len(ledger) /\ DOMAIN ledger' = 1 .. n
          /\ \A i \in DOMAIN ledger : ledger'[i] = ledger[i] /\ ledger[i] \in Lines
          /\ ledger'[n] = line /\ Heldout!Starts' = Heldout!Starts
          /\ Started' = Started
      BY <1>2, <2>1, LineAdded
    <2>3. \E i \in Heldout!Starts : ledger[i].run = r
      <3>1. Cardinality({i \in Heldout!Starts : ledger[i].run = r}) = 1
        BY <1>2, SameCount
      <3> DEFINE S == {i \in Heldout!Starts : ledger[i].run = r}
      <3> HIDE DEF S
      <3>2. Cardinality(S) = 1 => S # {}
        BY FS_EmptySet
      <3> QED
        BY <3>1, <3>2 DEF S
    <2>4. PICK i \in Heldout!Starts : ledger[i].run = r
      BY <2>3
    <2>5. i = Len(ledger)
      BY <1>2, <2>4, OpenAttemptIsLast
    <2>6. /\ i \in DOMAIN ledger /\ n > 1 /\ n - 1 = i /\ ledger # <<>>
          /\ ledger[Len(ledger)].status = "started"
      BY <2>2, <2>4, <2>5 DEF Heldout!Starts
    <2>7. n > 1 /\ ledger'[n - 1].status = "started" /\ ledger'[n - 1].run = ledger'[n].run
      BY <2>2, <2>4, <2>5, <2>6
    <2>8. Heldout!OneAttemptAtATime'
      <3>1. \A k \in DOMAIN ledger' : k = n \/ k \in DOMAIN ledger
        BY <2>2
      <3> HIDE DEF n
      <3> QED
        BY <1>2, <2>2, <2>7, <3>1, EarlierLinesStand DEF Heldout!OneAttemptAtATime
    <2> HIDE DEF n
    <2>9. \A q \in Runs : pc'[q] = IF q = r THEN "done" ELSE pc[q]
      BY DEF AttemptInv, HeldoutTypes
    <2>10. \A k \in Heldout!Starts : k \in DOMAIN ledger /\ ledger[k].run \in Runs
      BY <2>2, StartsAreCounted DEF AttemptInv, Heldout!Starts
    <2>11. \A j, k \in Heldout!Starts' : ledger'[j].run = ledger'[k].run => j = k
      BY <2>2, <2>10 DEF AttemptInv
    <2>12. \A k \in Heldout!Starts' :
              pc'[ledger'[k].run] \notin {"idle", "read", "reserve", "append"}
      BY <2>2, <2>9, <2>10 DEF AttemptInv
    \* Nobody holds the next number while the last attempt is open.
    <2>13. ~Replaceable
      BY <2>6 DEF Replaceable
    <2>14. ASSUME NEW q \in Runs
           PROVE  /\ pc'[q] = "reserve" =>
                        number'[q] \in 1 .. Started' + 1 /\ number'[q] # Started' + 1
                  /\ pc'[q] # "append"
      BY <2>2, <2>9, <2>13 DEF AttemptInv
    <2> QED
      BY <2>2, <2>8, <2>11, <2>12, <2>14 DEF AttemptInv
  <1> QED
    BY <1>1, <1>2 DEF Heldout!AppendTerminal

LEMMA AttemptNext ==
    ASSUME AttemptInv, [Heldout!Next]_heldoutVars
    PROVE  AttemptInv'
  <1>1. HeldoutTypes'
    BY HeldoutTyped DEF AttemptInv
  <1>2. CASE UNCHANGED heldoutVars
    <2>1. UNCHANGED <<pc, number, ledger, reserved>>
      BY <1>2 DEF heldoutVars
    <2>2. Heldout!Starts' = Heldout!Starts /\ Started' = Started /\ (Replaceable' <=> Replaceable)
      BY <2>1 DEF Heldout!Starts, Started, Replaceable
    <2>3. Heldout!OneAttemptAtATime'
      BY <2>1 DEF AttemptInv, Heldout!OneAttemptAtATime
    <2> QED
      BY <1>1, <2>1, <2>2, <2>3 DEF AttemptInv
  <1> DEFINE Moves(r) == \E at \in Heldout!Points \ {"idle", "read", "reserve", "append"} :
                            pc' = [pc EXCEPT ![r] = at]
  <1>3. ASSUME NEW r \in Runs, Moves(r), UNCHANGED <<ledger, reserved, number>> PROVE AttemptInv'
    BY <1>1, <1>3, NothingAppended
  <1>4. ASSUME NEW r \in Runs, Heldout!Launch(r) PROVE AttemptInv'
    <2>1. CASE pc' = [pc EXCEPT ![r] = "read"]
      <3>1. UNCHANGED <<ledger, reserved, number>> /\ pc[r] = "idle"
        BY <1>4 DEF Heldout!Launch, Heldout!fileVars
      <3>2. \A q \in Runs : pc'[q] = IF q = r THEN "read" ELSE pc[q]
        BY <2>1 DEF AttemptInv, HeldoutTypes
      <3>3. Heldout!Starts' = Heldout!Starts /\ Started' = Started /\ (Replaceable' <=> Replaceable)
        BY <3>1 DEF Heldout!Starts, Started, Replaceable
      <3>4. Heldout!OneAttemptAtATime'
        BY <3>1 DEF AttemptInv, Heldout!OneAttemptAtATime
      <3>5. \A i \in Heldout!Starts : ledger[i].run \in Runs /\ ledger[i].run # r
        BY <3>1, StartsAreCounted DEF AttemptInv
      <3> QED
        BY <1>1, <3>1, <3>2, <3>3, <3>4, <3>5 DEF AttemptInv
    <2>2. CASE Moves(r)
      BY <1>3, <1>4, <2>2 DEF Heldout!Launch, Heldout!fileVars
    <2> QED
      BY <1>4, <2>1, <2>2 DEF Heldout!Launch, Heldout!Goto, Heldout!Points
  <1>5. ASSUME NEW r \in Runs, Heldout!ReadLedger(r) PROVE AttemptInv'
    BY <1>1, <1>5, NumberTaken
  <1>6. ASSUME NEW r \in Runs, Heldout!Reserve(r) PROVE AttemptInv'
    BY <1>1, <1>6, NumberReserved
  <1>7. ASSUME NEW r \in Runs, Heldout!AppendStarted(r) PROVE AttemptInv'
    BY <1>1, <1>7, AttemptStarted
  <1>8. ASSUME NEW r \in Runs,
               \/ Heldout!Load(r) \/ Heldout!StartCall(r) \/ Heldout!CallSucceeds(r)
               \/ Heldout!CallFails(r) \/ Heldout!EmbeddingIsRefused(r) \/ Heldout!Evaluate(r)
               \/ Heldout!Select(r) \/ Heldout!Decide(r) \/ Heldout!Crash(r)
               \/ Heldout!CrashInCall(r)
        PROVE  Moves(r) /\ UNCHANGED <<ledger, reserved, number>>
    <2> USE DEF Heldout!Goto, Heldout!Fail, Heldout!Points, Heldout!fileVars
    <2>1. CASE Heldout!Load(r)
      BY <2>1 DEF Heldout!Load
    <2>2. CASE Heldout!StartCall(r)
      BY <2>2 DEF Heldout!StartCall
    <2>3. CASE Heldout!CallSucceeds(r)
      BY <2>3 DEF Heldout!CallSucceeds, Heldout!AfterCall
    <2>4. CASE Heldout!CallFails(r)
      BY <2>4 DEF Heldout!CallFails
    <2>5. CASE Heldout!EmbeddingIsRefused(r)
      BY <2>5 DEF Heldout!EmbeddingIsRefused
    <2>6. CASE Heldout!Evaluate(r)
      BY <2>6 DEF Heldout!Evaluate
    <2>7. CASE Heldout!Select(r)
      BY <2>7 DEF Heldout!Select
    <2>8. CASE Heldout!Decide(r)
      BY <2>8 DEF Heldout!Decide
    <2>9. CASE Heldout!Crash(r)
      BY <2>9 DEF Heldout!Crash
    <2>10. CASE Heldout!CrashInCall(r)
      BY <2>10 DEF Heldout!CrashInCall
    <2> QED
      BY <1>8, <2>1, <2>2, <2>3, <2>4, <2>5, <2>6, <2>7, <2>8, <2>9, <2>10
  <1>9. ASSUME NEW r \in Runs, Heldout!Classify(r) PROVE AttemptInv'
    <2> DEFINE line == Heldout!Event(r, "invalid", Heldout!Replacement(r), "none")
    <2>1. Heldout!Replacement(r) \in BOOLEAN /\ number[r] \in Nat
      BY DEF Heldout!Replacement, AttemptInv, HeldoutTypes
    <2>2. line \in Lines /\ line.run = r /\ line.status # "started"
      BY <2>1 DEF Heldout!Event, Lines
    <2>3. /\ Heldout!AppendTerminal(r, line) /\ pc' = [pc EXCEPT ![r] = "done"]
          /\ UNCHANGED <<number, reserved>>
      BY <1>9 DEF Heldout!Classify, Heldout!Goto
    <2> HIDE DEF line
    <2> QED
      BY <1>1, <2>2, <2>3, AttemptEnded
  <1>10. ASSUME NEW r \in Runs, NEW verdict \in Heldout!Verdicts(r), Heldout!Finalize(r, verdict)
         PROVE  AttemptInv'
    <2> DEFINE line == Heldout!Event(r, "completed", FALSE, verdict)
    <2>1. verdict \in {"none", "GO", "NO_GO"} /\ number[r] \in Nat
      BY <1>10 DEF Heldout!Verdicts, AttemptInv, HeldoutTypes
    <2>2. line \in Lines /\ line.run = r /\ line.status # "started"
      BY <2>1 DEF Heldout!Event, Lines
    <2>3. /\ Heldout!AppendTerminal(r, line) \/ UNCHANGED ledger
          /\ pc' = [pc EXCEPT ![r] = "done"] /\ UNCHANGED <<number, reserved>>
      BY <1>10 DEF Heldout!Finalize, Heldout!Goto
    <2> HIDE DEF line
    <2>4. CASE UNCHANGED ledger
      BY <1>3, <2>3, <2>4 DEF Heldout!Points
    <2>5. CASE Heldout!AppendTerminal(r, line)
      BY <1>1, <2>2, <2>3, <2>5, AttemptEnded
    <2> QED
      BY <2>3, <2>4, <2>5
  <1> QED
    BY <1>2, <1>3, <1>4, <1>5, <1>6, <1>7, <1>8, <1>9, <1>10 DEF Heldout!Next, Heldout!RunStep

LEMMA AttemptsBegin == ASSUME Heldout!Init PROVE AttemptInv
  <1>1. /\ ledger = <<>> /\ pc = [r \in Runs |-> "idle"] /\ reserved = {}
    BY DEF Heldout!Init
  <1>2. HeldoutTypes
    BY DEF Heldout!Init, HeldoutTypes, Heldout!Points
  <1>3. Heldout!Starts = {} /\ DOMAIN ledger = {}
    BY <1>1 DEF Heldout!Starts
  <1>4. Started = 0
    BY <1>3, FS_EmptySet DEF Started
  <1> QED
    BY <1>1, <1>2, <1>3, <1>4 DEF AttemptInv, Heldout!OneAttemptAtATime

\* Whatever processes are started side by side and wherever they die, the ledger is a line of
\* attempts: each is numbered after the last, which was classified as one to replace.
THEOREM AttemptsFollowEachOther == PaidSpec => []OneAttemptAtATime
<1> DEFINE Inv == part = "heldout" => AttemptInv
<1>1. part \in PaidParts /\ PaidInit => Inv
  BY AttemptsBegin DEF PaidInit
<1>2. Inv /\ [PaidNext]_paidVars => Inv'
  BY AttemptNext, Continues
<1>3. Inv => OneAttemptAtATime
  BY DEF AttemptInv, OneAttemptAtATime
<1> QED
  BY <1>1, <1>2, <1>3, PTL DEF PaidSpec

----------------------------------------------------------------------------
(* The verdicts: what a run's audit says of its calls.                      *)

\* A step of one run leaves what is said of the others.
OnlyRun(r) ==
    /\ \A q \in Runs : q # r => /\ pc'[q] = pc[q] /\ call'[q] = call[q]
                                /\ unsafe'[q] = unsafe[q] /\ phase'[q] = phase[q]
    /\ \A e : e.run # r => (e \in trail' <=> e \in trail)

LEMMA SameAudit ==
    ASSUME NEW q, \A e : e.run = q => (e \in trail' <=> e \in trail)
    PROVE  /\ \A c, s : Heldout!Ended(q, c, s)' <=> Heldout!Ended(q, c, s)
           /\ \A n : (Succeeded(q, n)' <=> Succeeded(q, n)) /\ (Awaits(q, n)' <=> Awaits(q, n))
           /\ Heldout!Started(q)' = Heldout!Started(q)
           /\ Heldout!Failed(q)' = Heldout!Failed(q) /\ Heldout!Unknown(q)' = Heldout!Unknown(q)
           /\ Heldout!MissingUsage(q)' = Heldout!MissingUsage(q)
  <1>1. \A c, s : Heldout!Ended(q, c, s)' <=> Heldout!Ended(q, c, s)
    BY DEF Heldout!Ended
  <1>2. \A n : (Succeeded(q, n)' <=> Succeeded(q, n)) /\ (Awaits(q, n)' <=> Awaits(q, n))
    BY <1>1 DEF Succeeded, Awaits
  <1>3. Heldout!Started(q)' = Heldout!Started(q)
    BY <1>1 DEF Heldout!Started
  <1>4. Heldout!Failed(q)' = Heldout!Failed(q) /\ Heldout!Unknown(q)' = Heldout!Unknown(q)
    BY <1>1, <1>3 DEF Heldout!Failed, Heldout!Unknown
  <1>5. Heldout!MissingUsage(q)' = Heldout!MissingUsage(q)
    BY <1>3 DEF Heldout!MissingUsage
  <1> QED
    BY <1>1, <1>2, <1>3, <1>4, <1>5

LEMMA CallsStillAgree ==
    ASSUME NEW q, CallsAgree(q), pc'[q] = pc[q], call'[q] = call[q], unsafe'[q] = unsafe[q],
           phase'[q] = phase[q], \A e : e.run = q => (e \in trail' <=> e \in trail)
    PROVE  CallsAgree(q)'
  <1> PICK n : n = call[q]
    OBVIOUS
  <1>1. (Succeeded(q, n)' <=> Succeeded(q, n)) /\ (Awaits(q, n)' <=> Awaits(q, n))
    BY SameAudit
  <1>2. Heldout!MissingUsage(q)' = Heldout!MissingUsage(q)
    BY SameAudit
  <1>3. CallsAgree(q)' <=>
           /\ pc'[q] \in {"idle", "read", "reserve", "append", "load"} => n = 0
           /\ pc'[q] \in {"idle", "read", "reserve", "append", "load", "call", "evaluate",
                          "decide", "finalize"} => Succeeded(q, n)'
           /\ pc'[q] = "calling" => Awaits(q, n)'
           /\ pc'[q] \in {"call", "calling"} => n <= Completions
           /\ pc'[q] = "evaluate" => n = 1
           /\ pc'[q] \in {"idle", "read", "reserve", "append", "load"} => ~unsafe'[q]
           /\ pc'[q] \in {"decide", "finalize"} =>
                 /\ n \in 1 .. Completions + 1
                 /\ phase'[q] = "heldout" /\ ~unsafe'[q] => n = Completions + 1
           /\ pc'[q] = "finalize" => /\ phase'[q] = "heldout"
                                     /\ ~unsafe'[q] => Heldout!MissingUsage(q)' = {}
    BY DEF CallsAgree
  <1>4. CallsAgree(q)
    OBVIOUS
  <1> QED
    BY <1>1, <1>2, <1>3, <1>4 DEF CallsAgree

(* Calls that all succeeded are accounted for.                              *)
LEMMA SucceededIsClean ==
    ASSUME NEW r, NEW n \in Nat, Succeeded(r, n)
    PROVE  /\ Heldout!Failed(r) = {} /\ Heldout!Unknown(r) = {}
           /\ n = Completions + 1 => Heldout!Started(r) = Heldout!Calls
  <1>1. \A c, s : Heldout!Ended(r, c, s) => c \in 0 .. n - 1 /\ s \in {"started", "succeeded"}
    BY DEF Succeeded, Heldout!Ended
  <1>2. \A c \in 0 .. n - 1 : Heldout!Ended(r, c, "started") /\ Heldout!Ended(r, c, "succeeded")
    BY DEF Succeeded
  <1>3. Heldout!Failed(r) = {}
    BY <1>1 DEF Heldout!Failed
  <1>4. Heldout!Unknown(r) = {}
    BY <1>1, <1>2 DEF Heldout!Unknown, Heldout!Started
  <1>5. n = Completions + 1 => Heldout!Started(r) = Heldout!Calls
    BY <1>2, ExperimentBounds DEF ExperimentBounds, Heldout!Started, Heldout!Calls
  <1> QED
    BY <1>3, <1>4, <1>5

(* One event more in the audit of a run.                                    *)
LEMMA EventAdded ==
    ASSUME NEW r, NEW n \in Nat, NEW e, e.run = r, e.call = n, trail' = trail \cup {e}
    PROVE  /\ Succeeded(r, n) /\ e.status = "started" => Awaits(r, n)'
           /\ Awaits(r, n) /\ e.status = "succeeded" => Succeeded(r, n + 1)'
  <1>1. \A c, s : Heldout!Ended(r, c, s)' <=> Heldout!Ended(r, c, s) \/ (c = n /\ s = e.status)
    BY DEF Heldout!Ended
  <1>2. ASSUME Succeeded(r, n), e.status = "started" PROVE Awaits(r, n)'
    BY <1>1, <1>2 DEF Succeeded, Awaits
  <1>3. ASSUME Awaits(r, n), e.status = "succeeded" PROVE Succeeded(r, n + 1)'
    <2>1. \A f \in trail' : f.run = r => f.call \in 0 .. n /\ f.status \in {"started", "succeeded"}
      BY <1>3 DEF Awaits
    <2>2. \A c \in 0 .. n : c = n \/ c \in 0 .. n - 1
      OBVIOUS
    <2>3. \A c \in 0 .. n : Heldout!Ended(r, c, "started")' /\ Heldout!Ended(r, c, "succeeded")'
      BY <1>1, <1>3, <2>2 DEF Awaits
    <2>4. (n + 1) - 1 = n
      OBVIOUS
    <2> QED
      BY <2>1, <2>3, <2>4 DEF Succeeded
  <1> QED
    BY <1>2, <1>3

AuditTypes ==
    trail \subseteq [run : Runs, call : Nat, status : {"started", "succeeded", "failed"},
                     billable : BOOLEAN, usage : BOOLEAN]

(* The audit of a run after one of its events.                              *)
LEMMA EventIsTyped ==
    ASSUME AuditTypes, call \in [Runs -> Nat], NEW r \in Runs,
           NEW status \in {"started", "succeeded", "failed"},
           NEW e, \E billable, usage \in BOOLEAN :
                      e = Heldout!AuditEvent(r, status, billable, usage),
           trail' = trail \cup {e}
    PROVE  AuditTypes' /\ e.run = r /\ e.call = call[r] /\ e.status = status
  <1> PICK billable, usage \in BOOLEAN : e = Heldout!AuditEvent(r, status, billable, usage)
    OBVIOUS
  <1> PICK c \in Nat : c = call[r]
    OBVIOUS
  <1>2. e = [run |-> r, call |-> c, status |-> status, billable |-> billable, usage |-> usage]
    BY Zenon DEF Heldout!AuditEvent
  <1>3. e \in [run : Runs, call : Nat, status : {"started", "succeeded", "failed"},
               billable : BOOLEAN, usage : BOOLEAN]
    <2>1. billable \in BOOLEAN /\ usage \in BOOLEAN
      OBVIOUS
    <2>2. r \in Runs /\ c \in Nat
      OBVIOUS
    <2>3. status \in {"started", "succeeded", "failed"}
      OBVIOUS
    <2> QED
      BY ONLY <1>2, <2>1, <2>2, <2>3, ZenonT(30)
  <1>4. e.run = r /\ e.call = call[r] /\ e.status = status
    BY <1>2
  <1>5. AuditTypes'
    BY <1>3 DEF AuditTypes
  <1> QED
    BY <1>4, <1>5

(* A step that keeps what its own run knows keeps the verdicts of others.   *)
LEMMA VerdictsStand ==
    ASSUME VerdictInv, HeldoutTypes', AuditTypes', NEW r \in Runs, pc[r] # "done", OnlyRun(r),
           CallsAgree(r)', results \subseteq results',
           \/ UNCHANGED ledger
           \/ \E line \in Lines :
                 /\ ledger' = Append(ledger, line)
                 /\ line.status = "completed" =>
                       /\ line.run = r /\ pc'[r] = "done" /\ r \in results' /\ Backed(r)'
                       /\ unsafe'[r] => line.verdict = "NO_GO"
    PROVE  VerdictInv'
  <1>1. \A q \in Runs : CallsAgree(q)'
    <2>1. ASSUME NEW q \in Runs, q # r PROVE CallsAgree(q)'
      <3>1. CallsAgree(q)
        BY DEF VerdictInv
      <3> QED
        BY <2>1, <3>1, CallsStillAgree DEF OnlyRun
    <2> QED
      BY <2>1
  <1>2. ASSUME NEW q \in Runs, q # r, Completed(q) # {},
               UNCHANGED ledger \/ Completed(q)' = Completed(q)
        PROVE  /\ pc'[q] = "done" /\ q \in results' /\ Backed(q)'
               /\ unsafe'[q] = unsafe[q]
    <2>1. pc[q] = "done" /\ q \in results /\ Backed(q)
      BY <1>2 DEF VerdictInv
    <2>2. /\ pc'[q] = pc[q] /\ unsafe'[q] = unsafe[q]
          /\ \A e : e.run = q => (e \in trail' <=> e \in trail)
      BY <1>2 DEF OnlyRun
    <2> QED
      BY <2>1, <2>2, SameAudit DEF Backed
  <1>3. Completed(r) = {}
    BY DEF VerdictInv
  <1>4. CASE UNCHANGED ledger
    <2>1. \A q \in Runs : Completed(q)' = Completed(q)
      BY <1>4 DEF Completed
    <2> QED
      BY <1>1, <1>2, <1>3, <1>4, <2>1 DEF VerdictInv, AuditTypes
  <1>5. ASSUME NEW line \in Lines, ledger' = Append(ledger, line),
               line.status = "completed" =>
                  /\ line.run = r /\ pc'[r] = "done" /\ r \in results' /\ Backed(r)'
                  /\ unsafe'[r] => line.verdict = "NO_GO"
        PROVE  VerdictInv'
    <2> DEFINE n == Len(ledger) + 1
    <2>1. ledger \in Seq(Lines)
      BY DEF VerdictInv, HeldoutTypes
    <2>2. /\ DOMAIN ledger' = DOMAIN ledger \cup {n} /\ n \notin DOMAIN ledger
          /\ ledger'[n] = line /\ \A i \in DOMAIN ledger : ledger'[i] = ledger[i]
      BY <1>5, <2>1
    <2> HIDE DEF n
    <2>3. ASSUME NEW q \in Runs, q # r
          PROVE  /\ Completed(q)' = Completed(q)
                 /\ \A i \in Completed(q) : ledger'[i] = ledger[i]
      BY <1>5, <2>2, <2>3 DEF Completed
    <2>4. \A i \in Completed(r)' : i = n /\ line.status = "completed"
      BY <1>3, <2>2 DEF Completed
    <2>5. ASSUME NEW q \in Runs, Completed(q)' # {}
          PROVE  /\ pc'[q] = "done" /\ q \in results' /\ Backed(q)'
                 /\ unsafe'[q] => \A i \in Completed(q)' : ledger'[i].verdict = "NO_GO"
      <3>1. CASE q = r
        <4>1. line.status = "completed"
          BY <2>4, <2>5, <3>1
        <4> QED
          BY <1>5, <2>2, <2>4, <3>1, <4>1
      <3>2. CASE q # r
        <4>1. Completed(q) # {} /\ Completed(q)' = Completed(q)
          BY <2>3, <2>5, <3>2
        <4>2. /\ pc'[q] = "done" /\ q \in results' /\ Backed(q)' /\ unsafe'[q] = unsafe[q]
          BY <1>2, <3>2, <4>1
        <4>3. unsafe[q] => \A i \in Completed(q) : ledger[i].verdict = "NO_GO"
          BY <4>1 DEF VerdictInv
        <4> QED
          BY <2>3, <3>2, <4>1, <4>2, <4>3
      <3> QED
        BY <3>1, <3>2
    <2> QED
      BY <1>1, <2>5 DEF VerdictInv, AuditTypes
  <1> QED
    BY <1>4, <1>5

(* What is to be shown of the run that moves, n being its next call.        *)
LEMMA AgreesAt ==
    ASSUME NEW r, NEW n, call'[r] = n,
           pc'[r] \in {"idle", "read", "reserve", "append", "load"} => n = 0 /\ ~unsafe'[r],
           pc'[r] \in {"idle", "read", "reserve", "append", "load", "call", "evaluate", "decide",
                       "finalize"} => Succeeded(r, n)',
           pc'[r] = "calling" => Awaits(r, n)',
           pc'[r] \in {"call", "calling"} => n <= Completions,
           pc'[r] = "evaluate" => n = 1,
           pc'[r] \in {"decide", "finalize"} =>
              /\ n \in 1 .. Completions + 1
              /\ phase'[r] = "heldout" /\ ~unsafe'[r] => n = Completions + 1,
           pc'[r] = "finalize" => /\ phase'[r] = "heldout"
                                  /\ ~unsafe'[r] => Heldout!MissingUsage(r)' = {}
    PROVE  CallsAgree(r)'
  BY DEF CallsAgree

(* A run that goes on without a call or an event.                           *)
LEMMA GoesOn ==
    ASSUME VerdictInv, NEW r \in Runs, NEW at, pc' = [pc EXCEPT ![r] = at],
           UNCHANGED <<call, trail>>,
           pc[r] \in {"idle", "read", "reserve", "append", "load", "call", "evaluate", "decide",
                      "finalize", "calling", "classify"},
           \/ at \in {"done", "dead", "classify"}
           \/ /\ pc[r] \in {"idle", "read", "reserve", "append", "load"} /\ UNCHANGED unsafe
              /\ at \in {"read", "reserve", "append", "load", "call"}
           \/ /\ pc[r] = "evaluate" /\ at \in {"call", "decide"}
              /\ at = "call" => Completions >= 1
              /\ at = "decide" /\ phase'[r] = "heldout" /\ ~unsafe'[r] => Completions = 0
           \/ /\ pc[r] = "decide" /\ at = "finalize" /\ UNCHANGED <<phase, unsafe>>
              /\ phase[r] = "heldout" /\ (~unsafe[r] => Heldout!MissingUsage(r) = {})
    PROVE  CallsAgree(r)'
  <1> PICK n \in Nat : n = call[r]
    BY DEF VerdictInv, HeldoutTypes
  <1>1. CallsAgree(r)
    BY DEF VerdictInv
  <1>2. call'[r] = n /\ pc'[r] = at
    BY DEF VerdictInv, HeldoutTypes
  <1>3. /\ Succeeded(r, n)' <=> Succeeded(r, n)
        /\ Heldout!MissingUsage(r)' = Heldout!MissingUsage(r)
    BY SameAudit
  <1>4. Completions \in Nat
    BY ExperimentBounds DEF ExperimentBounds
  <1>5. CASE at \in {"done", "dead", "classify"}
    BY <1>2, <1>5, AgreesAt
  <1>6. CASE /\ pc[r] \in {"idle", "read", "reserve", "append", "load"} /\ UNCHANGED unsafe
             /\ at \in {"read", "reserve", "append", "load", "call"}
    <2>1. n = 0 /\ Succeeded(r, n)' /\ ~unsafe'[r] /\ n <= Completions
      BY <1>1, <1>3, <1>4, <1>6 DEF CallsAgree
    <2> QED
      BY <1>2, <1>6, <2>1, AgreesAt
  <1>7. CASE /\ pc[r] = "evaluate" /\ at \in {"call", "decide"}
             /\ at = "call" => Completions >= 1
             /\ at = "decide" /\ phase'[r] = "heldout" /\ ~unsafe'[r] => Completions = 0
    <2>1. n = 1 /\ Succeeded(r, n)'
      BY <1>1, <1>3, <1>7 DEF CallsAgree
    <2>2. n \in 1 .. Completions + 1 /\ (at = "call" => n <= Completions)
          /\ (at = "decide" /\ phase'[r] = "heldout" /\ ~unsafe'[r] => n = Completions + 1)
      BY <1>4, <1>7, <2>1
    <2> QED
      BY <1>2, <1>7, <2>1, <2>2, AgreesAt
  <1>8. CASE /\ pc[r] = "decide" /\ at = "finalize" /\ UNCHANGED <<phase, unsafe>>
             /\ phase[r] = "heldout" /\ (~unsafe[r] => Heldout!MissingUsage(r) = {})
    <2>1. /\ n \in 1 .. Completions + 1 /\ Succeeded(r, n)'
          /\ phase[r] = "heldout" /\ ~unsafe[r] => n = Completions + 1
      BY <1>1, <1>3, <1>8 DEF CallsAgree
    <2> QED
      BY <1>2, <1>3, <1>8, <2>1, AgreesAt
  <1> QED
    BY <1>5, <1>6, <1>7, <1>8

(* The steps of a run, up to its calls.                                     *)
LEMMA VerdictQuiet ==
    ASSUME VerdictInv, HeldoutTypes', NEW r \in Runs,
           \/ Heldout!Launch(r) \/ Heldout!ReadLedger(r) \/ Heldout!Reserve(r)
           \/ Heldout!AppendStarted(r) \/ Heldout!Load(r) \/ Heldout!Evaluate(r)
           \/ Heldout!Select(r) \/ Heldout!Crash(r) \/ Heldout!CrashInCall(r)
           \/ Heldout!EmbeddingIsRefused(r) \/ Heldout!Classify(r)
    PROVE  VerdictInv'
  <1> USE DEF Heldout!Goto, Heldout!Fail, Heldout!Points, Heldout!fileVars
  <1>0. /\ Completions \in Nat /\ pc[r] \in Heldout!Points /\ number[r] \in Nat
        /\ phase \in [Runs -> {"development", "heldout"}] /\ unsafe \in [Runs -> BOOLEAN]
        /\ pc \in [Runs -> Heldout!Points] /\ AuditTypes /\ number \in [Runs -> Nat]
    BY ExperimentBounds DEF ExperimentBounds, VerdictInv, HeldoutTypes, AuditTypes
  <1> DEFINE Kept ==
        /\ pc[r] # "done" /\ UNCHANGED <<call, trail, results>>
        /\ \A q \in Runs : q # r => /\ pc'[q] = pc[q] /\ unsafe'[q] = unsafe[q]
                                    /\ phase'[q] = phase[q]
        /\ CallsAgree(r)'
  <1>1. ASSUME Kept,
               \/ UNCHANGED ledger
               \/ \E line \in Lines : ledger' = Append(ledger, line) /\ line.status # "completed"
        PROVE  VerdictInv'
    <2>1. OnlyRun(r) /\ AuditTypes' /\ results \subseteq results'
      BY <1>0, <1>1 DEF OnlyRun, AuditTypes
    <2> QED
      BY <1>1, <2>1, VerdictsStand
  <1>2. CASE Heldout!Launch(r)
    <2>1. PICK at \in {"read", "load", "done"} : pc' = [pc EXCEPT ![r] = at]
      BY <1>2 DEF Heldout!Launch
    <2>2. CallsAgree(r)'
      BY <1>2, <2>1, GoesOn DEF Heldout!Launch
    <2> QED
      BY <1>0, <1>1, <1>2, <2>1, <2>2 DEF Heldout!Launch
  <1>3. CASE Heldout!ReadLedger(r)
    <2>1. PICK at \in {"reserve", "done"} : pc' = [pc EXCEPT ![r] = at]
      BY <1>3 DEF Heldout!ReadLedger
    <2>2. CallsAgree(r)'
      BY <1>3, <2>1, GoesOn DEF Heldout!ReadLedger
    <2> QED
      BY <1>0, <1>1, <1>3, <2>1, <2>2 DEF Heldout!ReadLedger
  <1>4. CASE Heldout!Reserve(r)
    <2>1. PICK at \in {"append", "done"} : pc' = [pc EXCEPT ![r] = at]
      BY <1>4 DEF Heldout!Reserve
    <2>2. CallsAgree(r)'
      BY <1>4, <2>1, GoesOn DEF Heldout!Reserve
    <2> QED
      BY <1>0, <1>1, <1>4, <2>1, <2>2 DEF Heldout!Reserve
  <1>5. CASE Heldout!AppendStarted(r)
    <2> DEFINE line == Heldout!Event(r, "started", FALSE, "none")
    <2>1. line \in Lines /\ line.status # "completed"
      BY <1>0 DEF Heldout!Event, Lines
    <2>2. ledger' = Append(ledger, line) /\ pc' = [pc EXCEPT ![r] = "load"]
      BY <1>5 DEF Heldout!AppendStarted
    <2> HIDE DEF line
    <2>3. CallsAgree(r)'
      BY <1>5, <2>2, GoesOn DEF Heldout!AppendStarted
    <2> QED
      BY <1>0, <1>1, <1>5, <2>1, <2>2, <2>3 DEF Heldout!AppendStarted
  <1>6. CASE Heldout!Load(r)
    <2>1. PICK at \in {"call", "classify", "done"} : pc' = [pc EXCEPT ![r] = at]
      BY <1>6 DEF Heldout!Load
    <2>2. CallsAgree(r)'
      BY <1>6, <2>1, GoesOn DEF Heldout!Load
    <2> QED
      BY <1>0, <1>1, <1>6, <2>1, <2>2 DEF Heldout!Load
  <1>7. CASE Heldout!Evaluate(r)
    <2>1. PICK leak \in BOOLEAN :
             /\ unsafe' = [unsafe EXCEPT ![r] = leak]
             /\ pc' = [pc EXCEPT ![r] = IF leak \/ Completions = 0 THEN "decide" ELSE "call"]
      BY <1>7 DEF Heldout!Evaluate
    <2>2. PICK at : at = IF leak \/ Completions = 0 THEN "decide" ELSE "call"
      OBVIOUS
    <2>3. /\ at \in {"call", "decide"} /\ (at = "call" => Completions >= 1)
          /\ at = "decide" /\ ~unsafe'[r] => Completions = 0
      BY <1>0, <2>1, <2>2
    <2>4. CallsAgree(r)'
      BY <1>7, <2>1, <2>2, <2>3, GoesOn DEF Heldout!Evaluate
    <2> QED
      BY <1>0, <1>1, <1>7, <2>1, <2>4 DEF Heldout!Evaluate
  <1>8. CASE Heldout!Select(r)
    <2>1. PICK leak \in BOOLEAN, at \in {"call", "decide", "classify", "done"} :
             /\ unsafe' = [unsafe EXCEPT ![r] = leak] /\ pc' = [pc EXCEPT ![r] = at]
             /\ at = "call" => Completions > 0
      BY <1>8 DEF Heldout!Select
    <2>2. phase'[r] = "development" /\ UNCHANGED <<call, trail, phase>>
      BY <1>8 DEF Heldout!Select
    <2>3. pc[r] = "evaluate" /\ (at = "call" => Completions >= 1)
      BY <1>0, <1>8, <2>1 DEF Heldout!Select
    <2>4. CallsAgree(r)'
      <3>1. CASE at \in {"call", "decide"}
        BY <2>1, <2>2, <2>3, <3>1, GoesOn
      <3>2. CASE at \in {"classify", "done"}
        BY <2>1, <2>2, <2>3, <3>2, GoesOn
      <3> QED
        BY <2>1, <3>1, <3>2
    <2> QED
      BY <1>0, <1>1, <1>8, <2>1, <2>4 DEF Heldout!Select
  <1>9. CASE Heldout!Crash(r) \/ Heldout!CrashInCall(r)
    <2>1. /\ pc' = [pc EXCEPT ![r] = "dead"] /\ pc[r] \notin {"done", "dead"}
          /\ UNCHANGED <<phase, call, unsafe, ledger, trail, results>>
      BY <1>9 DEF Heldout!Crash, Heldout!CrashInCall
    <2>2. CallsAgree(r)'
      BY <1>0, <2>1, GoesOn
    <2> QED
      BY <1>0, <1>1, <2>1, <2>2
  <1>10. CASE Heldout!EmbeddingIsRefused(r)
    <2>1. PICK at \in {"classify", "done"} : pc' = [pc EXCEPT ![r] = at]
      BY <1>10 DEF Heldout!EmbeddingIsRefused
    <2>2. CallsAgree(r)'
      BY <1>10, <2>1, GoesOn DEF Heldout!EmbeddingIsRefused
    <2> QED
      BY <1>0, <1>1, <1>10, <2>1, <2>2 DEF Heldout!EmbeddingIsRefused
  <1>11. CASE Heldout!Classify(r)
    <2> DEFINE line == Heldout!Event(r, "invalid", Heldout!Replacement(r), "none")
    <2>1. Heldout!Replacement(r) \in BOOLEAN
      BY DEF Heldout!Replacement
    <2>2. line \in Lines /\ line.status # "completed"
      BY <1>0, <2>1 DEF Heldout!Event, Lines
    <2>3. /\ ledger' = Append(ledger, line) \/ UNCHANGED ledger
          /\ pc' = [pc EXCEPT ![r] = "done"]
      BY <1>11 DEF Heldout!Classify, Heldout!AppendTerminal
    <2> HIDE DEF line
    <2>4. CallsAgree(r)'
      BY <1>11, <2>3, GoesOn DEF Heldout!Classify
    <2> QED
      BY <1>0, <1>1, <1>11, <2>2, <2>3, <2>4 DEF Heldout!Classify
  <1> QED
    BY <1>2, <1>3, <1>4, <1>5, <1>6, <1>7, <1>8, <1>9, <1>10, <1>11

LEMMA VerdictNext ==
    ASSUME VerdictInv, [Heldout!Next]_heldoutVars
    PROVE  VerdictInv'
  <1>0. HeldoutTypes'
    BY HeldoutTyped DEF VerdictInv
  <1>1. CASE UNCHANGED heldoutVars
    <2>1. \A r \in Runs : CallsAgree(r)'
      <3> SUFFICES ASSUME NEW r \in Runs PROVE CallsAgree(r)'
        OBVIOUS
      <3>1. CallsAgree(r)
        BY DEF VerdictInv
      <3> QED
        BY <1>1, <3>1, CallsStillAgree DEF heldoutVars
    <2>2. \A r \in Runs : Completed(r)' = Completed(r) /\ (Backed(r)' <=> Backed(r))
      <3> SUFFICES ASSUME NEW r \in Runs
                   PROVE  Completed(r)' = Completed(r) /\ (Backed(r)' <=> Backed(r))
        OBVIOUS
      <3>1. Completed(r)' = Completed(r)
        BY <1>1 DEF Completed, heldoutVars
      <3>2. Backed(r)' <=> Backed(r)
        BY <1>1, SameAudit DEF Backed, heldoutVars
      <3> QED
        BY <3>1, <3>2
    <2> QED
      BY <1>0, <1>1, <2>1, <2>2 DEF VerdictInv, heldoutVars
  <1>2. /\ pc \in [Runs -> Heldout!Points] /\ call \in [Runs -> Nat] /\ AuditTypes
        /\ phase \in [Runs -> {"development", "heldout"}] /\ number \in [Runs -> Nat]
        /\ unsafe \in [Runs -> BOOLEAN] /\ Completions \in Nat
    BY ExperimentBounds DEF ExperimentBounds, VerdictInv, HeldoutTypes, AuditTypes
  <1>3. ASSUME NEW r \in Runs, Heldout!StartCall(r) PROVE VerdictInv'
    <2> PICK n \in Nat : n = call[r]
      BY <1>2
    <2>0. PICK e : /\ trail' = trail \cup {e}
                   /\ \E billable, usage \in BOOLEAN :
                         e = Heldout!AuditEvent(r, "started", billable, usage)
      BY <1>3, Zenon DEF Heldout!StartCall
    <2>1. AuditTypes' /\ e.run = r /\ e.call = call[r] /\ e.status = "started"
      <3>1. "started" \in {"started", "succeeded", "failed"}
        OBVIOUS
      <3>2. AuditTypes /\ call \in [Runs -> Nat] /\ r \in Runs
        BY <1>2
      <3> QED
        BY ONLY <2>0, <3>1, <3>2, EventIsTyped
    <2>2. /\ trail' = trail \cup {e} /\ pc[r] = "call" /\ pc' = [pc EXCEPT ![r] = "calling"]
          /\ UNCHANGED <<phase, call, unsafe, ledger, results>>
      BY <1>3, <2>0 DEF Heldout!StartCall, Heldout!Goto
    <2>3. Succeeded(r, n) /\ n <= Completions
      BY <2>2 DEF VerdictInv, CallsAgree
    <2>4. Awaits(r, n)' /\ pc'[r] = "calling"
      BY <1>2, <2>1, <2>2, <2>3, EventAdded
    <2>5. CallsAgree(r)'
      BY <2>2, <2>3, <2>4, AgreesAt
    <2>6. OnlyRun(r)
      BY <1>2, <2>1, <2>2 DEF OnlyRun
    <2> QED
      BY <1>0, <2>1, <2>2, <2>5, <2>6, VerdictsStand
  <1>4. ASSUME NEW r \in Runs, Heldout!CallSucceeds(r) PROVE VerdictInv'
    <2> PICK n \in Nat : n = call[r]
      BY <1>2
    <2>1. PICK e : /\ trail' = trail \cup {e}
                   /\ \E billable, usage \in BOOLEAN :
                         e = Heldout!AuditEvent(r, "succeeded", billable, usage)
      BY <1>4, Zenon DEF Heldout!CallSucceeds
    <2>2. AuditTypes' /\ e.run = r /\ e.call = call[r] /\ e.status = "succeeded"
      <3>1. "succeeded" \in {"started", "succeeded", "failed"}
        OBVIOUS
      <3>2. AuditTypes /\ call \in [Runs -> Nat] /\ r \in Runs
        BY <1>2
      <3> QED
        BY ONLY <2>1, <3>1, <3>2, EventIsTyped
    <2>3. /\ trail' = trail \cup {e} /\ pc[r] = "calling" /\ call' = [call EXCEPT ![r] = @ + 1]
          /\ pc' = [pc EXCEPT ![r] = Heldout!AfterCall(r)]
          /\ UNCHANGED <<phase, unsafe, ledger, results>>
      BY <1>4, <2>1 DEF Heldout!CallSucceeds, Heldout!Goto
    <2>4. Awaits(r, n) /\ n <= Completions
      BY <2>3 DEF VerdictInv, CallsAgree
    <2>5. Succeeded(r, n + 1)' /\ call'[r] = n + 1
      BY <1>2, <2>2, <2>3, <2>4, EventAdded
    <2>6. pc'[r] = IF n = 0 THEN "evaluate" ELSE IF n < Completions THEN "call" ELSE "decide"
      BY <1>2, <2>3 DEF Heldout!AfterCall
    <2>7. /\ pc'[r] = "evaluate" => n + 1 = 1
          /\ pc'[r] = "call" => n + 1 <= Completions
          /\ pc'[r] = "decide" => n + 1 = Completions + 1 /\ n + 1 \in 1 .. Completions + 1
          /\ pc'[r] \in {"evaluate", "call", "decide"}
      BY <1>2, <2>4, <2>6
    <2>8. CallsAgree(r)'
      BY <2>5, <2>7, AgreesAt
    <2>9. OnlyRun(r)
      BY <1>2, <2>2, <2>3 DEF OnlyRun
    <2> QED
      BY <1>0, <2>2, <2>3, <2>8, <2>9, VerdictsStand
  <1>5. ASSUME NEW r \in Runs, Heldout!CallFails(r) PROVE VerdictInv'
    <2>1. PICK e : /\ trail' = trail \cup {e}
                   /\ \E billable, usage \in BOOLEAN :
                         e = Heldout!AuditEvent(r, "failed", billable, usage)
      BY <1>5, Zenon DEF Heldout!CallFails
    <2>2. e.run = r /\ AuditTypes'
      BY <1>2, <2>1, EventIsTyped
    <2>4. PICK at \in {"classify", "done"} : pc' = [pc EXCEPT ![r] = at]
      BY <1>5 DEF Heldout!CallFails, Heldout!Fail, Heldout!Goto
    <2>5. pc[r] = "calling" /\ UNCHANGED <<phase, call, unsafe, ledger, results>>
      BY <1>5 DEF Heldout!CallFails
    <2>6. PICK n \in Nat : n = call'[r]
      BY <1>2, <2>5
    <2>7. pc'[r] \in {"classify", "done"}
      BY <1>2, <2>4
    <2>8. CallsAgree(r)'
      BY <2>6, <2>7, AgreesAt
    <2>9. OnlyRun(r)
      BY <1>2, <2>1, <2>2, <2>4, <2>5 DEF OnlyRun
    <2> QED
      BY <1>0, <2>2, <2>5, <2>8, <2>9, VerdictsStand
  <1>6. ASSUME NEW r \in Runs, Heldout!Decide(r) PROVE VerdictInv'
    <2>1. /\ pc[r] = "decide" /\ results \subseteq results'
          /\ UNCHANGED <<phase, number, call, unsafe, ledger, trail>>
      BY <1>6 DEF Heldout!Decide
    <2>2. \/ pc' = [pc EXCEPT ![r] = "classify"] \/ pc' = [pc EXCEPT ![r] = "done"]
          \/ /\ pc' = [pc EXCEPT ![r] = "finalize"] /\ phase[r] = "heldout"
             /\ ~unsafe[r] => Heldout!MissingUsage(r) = {}
      BY <1>6 DEF Heldout!Decide, Heldout!Fail, Heldout!Goto, Heldout!Evidence
    <2>3. CallsAgree(r)'
      BY <2>1, <2>2, GoesOn
    <2>4. OnlyRun(r) /\ AuditTypes'
      BY <1>2, <2>1, <2>2 DEF OnlyRun, AuditTypes
    <2> QED
      BY <1>0, <2>1, <2>3, <2>4, VerdictsStand
  <1>7. ASSUME NEW r \in Runs, NEW verdict \in Heldout!Verdicts(r), Heldout!Finalize(r, verdict)
        PROVE  VerdictInv'
    <2> DEFINE line == Heldout!Event(r, "completed", FALSE, verdict)
    <2> PICK n \in Nat : n = call[r]
      BY <1>2
    <2>1. /\ pc[r] = "finalize" /\ r \in results /\ pc' = [pc EXCEPT ![r] = "done"]
          /\ UNCHANGED <<phase, number, call, unsafe, trail, results>>
          /\ ledger' = Append(ledger, line) \/ UNCHANGED ledger
      BY <1>7 DEF Heldout!Finalize, Heldout!AppendTerminal, Heldout!Goto
    <2>2. line \in Lines /\ line.run = r /\ line.verdict = verdict
      <3>1. verdict \in {"none", "GO", "NO_GO"}
        BY <1>7 DEF Heldout!Verdicts
      <3> QED
        BY <1>2, <3>1 DEF Heldout!Event, Lines
    <2> HIDE DEF line
    <2>3. unsafe'[r] => line.verdict = "NO_GO"
      BY <1>7, <2>1, <2>2 DEF Heldout!Verdicts
    <2>4. /\ Succeeded(r, n) /\ (~unsafe[r] => Heldout!MissingUsage(r) = {})
          /\ ~unsafe[r] => n = Completions + 1
      BY <2>1 DEF VerdictInv, CallsAgree
    <2>5. Backed(r)
      BY <2>4, SucceededIsClean DEF Backed
    <2>6. Backed(r)'
      BY <2>1, <2>5, SameAudit DEF Backed
    <2>7. CallsAgree(r)'
      BY <2>1, GoesOn
    <2>8. OnlyRun(r) /\ AuditTypes' /\ pc'[r] = "done"
      BY <1>2, <2>1 DEF OnlyRun, AuditTypes
    <2> QED
      BY <1>0, <2>1, <2>2, <2>3, <2>6, <2>7, <2>8, VerdictsStand
  <1> QED
    BY <1>0, <1>1, <1>3, <1>4, <1>5, <1>6, <1>7, VerdictQuiet DEF Heldout!Next, Heldout!RunStep

LEMMA VerdictsBegin == ASSUME Heldout!Init PROVE VerdictInv
  <1>1. /\ ledger = <<>> /\ trail = {} /\ pc = [r \in Runs |-> "idle"]
        /\ call = [r \in Runs |-> 0] /\ unsafe = [r \in Runs |-> FALSE]
    BY DEF Heldout!Init
  <1>2. HeldoutTypes
    BY DEF Heldout!Init, HeldoutTypes, Heldout!Points
  <1>3. \A r \in Runs : Succeeded(r, 0)
    <2>1. 0 .. 0 - 1 = {}
      OBVIOUS
    <2> QED
      BY <1>1, <2>1 DEF Succeeded
  <1>4. \A r \in Runs : CallsAgree(r)
    BY <1>1, <1>3 DEF CallsAgree
  <1>5. DOMAIN ledger = {}
    BY <1>1
  <1>6. \A r \in Runs : Completed(r) = {}
    BY <1>5 DEF Completed
  <1> QED
    BY <1>1, <1>2, <1>4, <1>6 DEF VerdictInv

\* A verdict of the held-out split rests on calls that all ended and were accounted for, or is
\* the NO_GO of an isolation failure, and on the output file.
THEOREM VerdictsRestOnCalls == PaidSpec => []VerdictsAreBacked
<1> DEFINE Inv == part = "heldout" => VerdictInv
<1>1. part \in PaidParts /\ PaidInit => Inv
  BY VerdictsBegin DEF PaidInit
<1>2. Inv /\ [PaidNext]_paidVars => Inv'
  BY VerdictNext, Continues
<1>3. Inv => VerdictsAreBacked
  <2> SUFFICES ASSUME VerdictInv PROVE Heldout!VerdictsAreBacked
    BY DEF VerdictsAreBacked
  <2>1. ASSUME NEW i \in DOMAIN ledger, ledger[i].status = "completed"
        PROVE  /\ ledger[i].run \in results /\ Backed(ledger[i].run)
               /\ unsafe[ledger[i].run] => ledger[i].verdict = "NO_GO"
    <3>1. ledger[i] \in Lines
      BY DEF VerdictInv, HeldoutTypes
    <3>2. PICK r \in Runs : r = ledger[i].run
      BY <3>1 DEF Lines
    <3>3. i \in Completed(r)
      BY <2>1, <3>2 DEF Completed
    <3> QED
      BY <3>2, <3>3 DEF VerdictInv
  <2> QED
    BY <2>1 DEF Heldout!VerdictsAreBacked, Heldout!ToSet, Backed
<1> QED
  BY <1>1, <1>2, <1>3, PTL DEF PaidSpec


----------------------------------------------------------------------------
(* The results: what a process of the campaign knows.                       *)

\* A step within a stage.
Works(s, n) ==
    /\ n = [field \in Fields |-> n[field]] /\ n.at \in Working \ {"record"} /\ s.at \in Working
    /\ n.plan = s.plan /\ n.seen = s.seen /\ n.data = s.data

LEMMA Stays ==
    ASSUME NEW s, s = [field \in Fields |-> s[field]], s.at \in Working \ {"record"},
           NEW at \in Working \ {"record"}, NEW x
    PROVE  /\ Works(s, [s EXCEPT !.at = at])
           /\ Works(s, [s EXCEPT !.attempt = x])
           /\ Works(s, [s EXCEPT !.at = at, !.id = x])
           /\ Works(s, [s EXCEPT !.at = at, !.attempt = x])
           /\ Works(s, [s EXCEPT !.at = at, !.reply = x])
  <1>1. Works(s, [s EXCEPT !.at = at])
    BY DEF Works, Fields
  <1>2. Works(s, [s EXCEPT !.attempt = x])
    BY DEF Works, Fields
  <1>3. Works(s, [s EXCEPT !.at = at, !.id = x])
    BY DEF Works, Fields
  <1>4. Works(s, [s EXCEPT !.at = at, !.attempt = x])
    BY DEF Works, Fields
  <1>5. Works(s, [s EXCEPT !.at = at, !.reply = x])
    BY DEF Works, Fields
  <1> QED
    BY <1>1, <1>2, <1>3, <1>4, <1>5

LEMMA IdleHolds == Holds(Spend!Idle)
  <1> PICK s : s = Spend!Idle
    OBVIOUS
  <1>1. s = [field \in Fields |-> s[field]]
    BY DEF Spend!Idle, Fields
  <1>2. <<>> \in Seq(Stages)
    OBVIOUS
  <1>3. s.at = "idle" /\ s.plan = <<>> /\ s.seen = 0 /\ s.data = 0
    BY DEF Spend!Idle
  <1>4. s.at \notin {"stage"} \cup Working /\ s.at \in {"idle", "load", "stage"} \cup Working
    BY <1>3 DEF Working
  <1>5. "record" \in Working /\ 0 \in Nat
    BY DEF Working
  <1>6. Holds(s)
    BY ONLY <1>1, <1>2, <1>3, <1>4, <1>5, Zenon DEF Holds
  <1> QED
    BY <1>6

(* One process moves, and the files stay.                                   *)
LEMMA ProcessMoves ==
    ASSUME EvidenceInv, NEW p \in Procs, NEW n, proc' = [proc EXCEPT ![p] = n], Holds(n),
           UNCHANGED <<inputs, chain, file>>, crashes' \in Nat
    PROVE  EvidenceInv'
  <1>1. \A s : Holds(s)' <=> Holds(s)
    BY DEF Holds, OnRecord
  <1>2. /\ proc = [q \in Procs |-> proc[q]] /\ \A q \in Procs : Holds(proc[q])
    BY DEF EvidenceInv
  <1>3. \A q \in Procs : Holds(proc'[q])
    BY <1>2
  <1>4. \A q \in Procs : Holds(proc[q])'
    <2> SUFFICES ASSUME NEW q \in Procs PROVE Holds(proc[q])'
      OBVIOUS
    <2> PICK s : s = proc'[q]
      OBVIOUS
    <2>1. Holds(s)'
      BY <1>1, <1>3
    <2> QED
      BY <2>1 DEF Holds
  <1>5. \A stage \in Stages : FileStands(stage)'
    BY DEF EvidenceInv, FileStands, OnRecord
  <1>6. Spend!ResultsAreEvidence'
    BY DEF EvidenceInv, Spend!ResultsAreEvidence
  <1>7. proc' = [q \in Procs |-> proc'[q]]
    BY <1>2
  <1>8. /\ inputs' \in Nat /\ file' = [stage \in Stages |-> file'[stage]]
        /\ \E S : chain' \in Seq(S)
    BY DEF EvidenceInv
  <1> QED
    BY <1>4, <1>5, <1>6, <1>7, <1>8 DEF EvidenceInv

LEMMA Fails ==
    ASSUME EvidenceInv, NEW p \in Procs, Spend!Fail(p), UNCHANGED <<inputs, chain, file>>,
           crashes' \in Nat
    PROVE  EvidenceInv'
  BY IdleHolds, ProcessMoves DEF Spend!Fail

LEMMA StageGoesOn ==
    ASSUME EvidenceInv, NEW p \in Procs, NEW n, proc' = [proc EXCEPT ![p] = n],
           Works(proc[p], n), UNCHANGED <<inputs, chain, file, crashes>>
    PROVE  EvidenceInv'
  <1> PICK s : s = proc[p]
    OBVIOUS
  <1>1. Holds(s)
    BY DEF EvidenceInv
  <1>2. Holds(n)
    BY <1>1 DEF Holds, Works, Working
  <1> QED
    BY <1>2, ProcessMoves DEF EvidenceInv


(* The steps of a process that leave its stage where it is.                 *)
LEMMA EvidenceKept ==
    ASSUME EvidenceInv, NEW p \in Procs,
           \/ Spend!LookUp(p) \/ Spend!ReadLedger(p) \/ Spend!AppendReservation(p)
           \/ Spend!Answered(p) \/ Spend!NotAnswered(p) \/ Spend!Settle(p) \/ Spend!WriteCache(p)
    PROVE  EvidenceInv'
  <1> PICK s : s = proc[p]
    OBVIOUS
  <1>1. s = [field \in Fields |-> s[field]] /\ proc = [q \in Procs |-> proc[q]]
    BY DEF EvidenceInv, Holds
  <1>2. UNCHANGED <<inputs, chain, file, crashes>>
    BY DEF Spend!LookUp, Spend!ReadLedger, Spend!AppendReservation, Spend!Answered,
           Spend!NotAnswered, Spend!Settle, Spend!WriteCache
  <1>3. ASSUME Spend!Fail(p) PROVE EvidenceInv'
    BY <1>2, <1>3, Fails DEF EvidenceInv
  <1>4. ASSUME NEW n, proc' = [proc EXCEPT ![p] = n], Works(s, n) PROVE EvidenceInv'
    BY <1>2, <1>4, StageGoesOn
  <1>5. ASSUME NEW at \in Working \ {"record"}, Spend!Goto(p, at), s.at \in Working \ {"record"}
        PROVE  EvidenceInv'
    <2> DEFINE n == [s EXCEPT !.at = at]
    <2>1. proc' = [proc EXCEPT ![p] = n]
      BY <1>5 DEF Spend!Goto
    <2>2. Works(s, n)
      BY <1>1, <1>5, Stays
    <2> QED
      BY <1>4, <2>1, <2>2
  <1>6. ASSUME NEW reply, Spend!TakeReply(p, reply), s.at \in Working \ {"record"}
        PROVE  EvidenceInv'
    <2>1. CASE Spend!Fail(p)
      BY <1>3, <2>1
    <2>2. CASE ~Spend!Fail(p)
      <3> PICK row : row = <<Spend!CurrentKey(p), reply.answer>>
        OBVIOUS
      <3>0. proc' = [proc EXCEPT ![p].at = "call", ![p].k = @ + 1, ![p].reply = <<>>,
                                 ![p].id = 0, ![p].attempt = 1, ![p].rows = @ \cup {row}]
        BY <1>6, <2>2, Zenon DEF Spend!TakeReply
      <3> PICK n : n = proc'[p]
        OBVIOUS
      <3>1. proc' = [proc EXCEPT ![p] = n]
        BY <3>0
      <3>2. n.at = "call" /\ n.plan = s.plan /\ n.seen = s.seen /\ n.data = s.data
        BY <1>1, <3>0 DEF Fields
      <3>3. n = [field \in Fields |-> n[field]]
        BY <1>1, <3>0 DEF Fields
      <3>4. Works(s, n)
        BY <1>6, <3>2, <3>3 DEF Works, Working
      <3> QED
        BY <1>4, <3>1, <3>4
    <2> QED
      BY <2>1, <2>2
  <1>7. CASE Spend!LookUp(p)
    <2>1. s.at \in Working \ {"record"}
      BY <1>7 DEF Spend!LookUp, Working
    <2>2. PICK entry : Spend!TakeReply(p, entry) \/ Spend!Fail(p) \/ Spend!Goto(p, "reserve")
      BY <1>7, Zenon DEF Spend!LookUp
    <2>3. "reserve" \in Working \ {"record"}
      BY DEF Working
    <2> QED
      BY <1>3, <1>5, <1>6, <2>1, <2>2, <2>3
  <1>8. CASE Spend!ReadLedger(p)
    <2> DEFINE n == [s EXCEPT !.at = "append", !.id = Spend!Replay(charges).ordinal]
    <2>1. s.at \in Working \ {"record"} /\ "append" \in Working \ {"record"}
      BY <1>8 DEF Spend!ReadLedger, Working
    <2>2. Spend!Fail(p) \/ proc' = [proc EXCEPT ![p] = n]
      BY <1>8 DEF Spend!ReadLedger
    <2>3. Works(s, n)
      BY <1>1, <2>1, Stays
    <2> QED
      BY <1>3, <1>4, <2>2, <2>3
  <1>9. CASE Spend!AppendReservation(p)
    <2> DEFINE n == [s EXCEPT !.at = "send", !.attempt = 1]
    <2>1. s.at \in Working \ {"record"} /\ "send" \in Working \ {"record"}
      BY <1>9 DEF Spend!AppendReservation, Working
    <2>2. Spend!Fail(p) \/ proc' = [proc EXCEPT ![p] = n]
      BY <1>9 DEF Spend!AppendReservation, Spend!AppendLedger
    <2>3. Works(s, n)
      BY <1>1, <2>1, Stays
    <2> QED
      BY <1>3, <1>4, <2>2, <2>3
  <1>10. CASE Spend!Answered(p)
    <2>1. s.at \in Working \ {"record"} /\ "settle" \in Working \ {"record"}
      BY <1>10 DEF Spend!Answered, Working
    <2>2. PICK reply : proc' = [proc EXCEPT ![p].at = "settle", ![p].reply = reply]
      BY <1>10, Zenon DEF Spend!Answered
    <2> DEFINE n == [s EXCEPT !.at = "settle", !.reply = reply]
    <2>3. proc' = [proc EXCEPT ![p] = n]
      BY <2>2
    <2>4. Works(s, n)
      BY <1>1, <2>1, Stays
    <2> QED
      BY <1>4, <2>3, <2>4
  <1>11. CASE Spend!NotAnswered(p)
    <2> DEFINE m == [s EXCEPT !.at = "settle", !.reply = Spend!None]
               n == [s EXCEPT !.attempt = s.attempt + 1]
    <2>1. s.at \in Working \ {"record"} /\ "settle" \in Working \ {"record"}
      BY <1>11 DEF Spend!NotAnswered, Working
    <2>2. proc' = [proc EXCEPT ![p] = m] \/ proc' = [proc EXCEPT ![p] = n]
      BY <1>11 DEF Spend!NotAnswered
    <2>3. Works(s, m) /\ Works(s, n)
      BY <1>1, <2>1, Stays
    <2> QED
      BY <1>4, <2>2, <2>3
  <1>12. CASE Spend!Settle(p)
    <2>1. s.at \in Working \ {"record"} /\ "cache" \in Working \ {"record"}
      BY <1>12 DEF Spend!Settle, Working
    <2>2. Spend!Fail(p) \/ Spend!Goto(p, "cache")
      BY <1>12 DEF Spend!Settle, Spend!AppendLedger
    <2> QED
      BY <1>3, <1>5, <2>1, <2>2
  <1>13. CASE Spend!WriteCache(p)
    <2>1. s.at \in Working \ {"record"} /\ Spend!TakeReply(p, s.reply)
      BY <1>13 DEF Spend!WriteCache, Working
    <2> QED
      BY <1>6, <2>1
  <1> QED
    BY <1>7, <1>8, <1>9, <1>10, <1>11, <1>12, <1>13


(* One process moves, and what the others hold still agrees with the files. *)
LEMMA FilesMove ==
    ASSUME EvidenceInv, NEW p \in Procs, NEW n, proc' = [proc EXCEPT ![p] = n], Holds(n)',
           \A q \in Procs : q # p => \E m : m = proc[q] /\ Holds(m)',
           \A stage \in Stages : FileStands(stage)', Spend!ResultsAreEvidence',
           inputs' \in Nat, crashes' \in Nat, file' = [stage \in Stages |-> file'[stage]],
           \E S : chain' \in Seq(S)
    PROVE  EvidenceInv'
  <1>1. proc = [q \in Procs |-> proc[q]]
    BY DEF EvidenceInv
  <1>2. \A q \in Procs : Holds(proc[q])'
    <2> SUFFICES ASSUME NEW q \in Procs PROVE Holds(proc[q])'
      OBVIOUS
    <2>1. PICK m : m = proc'[q] /\ Holds(m)'
      BY <1>1
    <2> QED
      BY <2>1 DEF Holds
  <1>3. proc' = [q \in Procs |-> proc'[q]]
    BY <1>1
  <1> QED
    BY <1>2, <1>3 DEF EvidenceInv

LEMMA StageWritten ==
    ASSUME EvidenceInv, NEW p \in Procs, Spend!WriteResult(p)
    PROVE  EvidenceInv'
  <1> PICK s : s = proc[p]
    OBVIOUS
  <1>1. Holds(s) /\ s.at = "call" /\ UNCHANGED <<inputs, chain, crashes>>
    BY DEF EvidenceInv, Spend!WriteResult
  <1>2. CASE Spend!Fail(p) /\ UNCHANGED file
    BY <1>1, <1>2, Fails DEF EvidenceInv
  <1>3. CASE /\ inputs = s.seen /\ file' = [file EXCEPT ![Head(s.plan)] = Spend!Result(p)]
             /\ Spend!Goto(p, "record")
    <2> PICK stage \in Stages : stage = Head(s.plan)
      BY <1>1 DEF Holds
    <2> PICK result : result = Spend!Result(p)
      OBVIOUS
    <2>1. result.state = "whole" /\ result.inputs = s.seen /\ result.data = s.data
      BY DEF Spend!Result
    <2>2. file' = [file EXCEPT ![stage] = result] /\ file = [at \in Stages |-> file[at]]
      BY <1>3 DEF EvidenceInv
    <2>3. s.data = s.seen /\ (stage = "extraction" \/ OnRecord(s.seen, Len(chain)))
      BY <1>1, <1>3 DEF Holds, Working, EvidenceInv
    <2>4. \A v, i : OnRecord(v, i)' <=> OnRecord(v, i)
      BY <1>1 DEF OnRecord
    <2>5. \A at \in Stages : FileStands(at)'
      <3> SUFFICES ASSUME NEW at \in Stages PROVE FileStands(at)'
        OBVIOUS
      <3>1. CASE at = stage
        <4>1. file'[at] = result
          BY <2>2, <3>1
        <4>2. at = "extraction" \/ OnRecord(s.seen, Len(chain))'
          BY <1>1, <2>3, <3>1 DEF OnRecord
        <4> QED
          BY <2>1, <2>3, <4>1, <4>2 DEF FileStands
      <3>2. CASE at # stage
        <4>1. file'[at] = file[at] /\ FileStands(at)
          BY <2>2, <3>2 DEF EvidenceInv
        <4> QED
          BY <1>1, <4>1 DEF FileStands, OnRecord
      <3> QED
        BY <3>1, <3>2
    <2>6. \A m : Holds(m) => Holds(m)'
      <3> SUFFICES ASSUME NEW m, Holds(m) PROVE Holds(m)'
        OBVIOUS
      <3>1. m.at = "record" => file'[Head(m.plan)].state = "whole"
        <4>1. m.at = "record" => Head(m.plan) \in Stages /\ file[Head(m.plan)].state = "whole"
          BY DEF Holds, Working
        <4> QED
          BY <2>1, <2>2, <4>1
      <3> QED
        BY <1>1, <2>4, <3>1 DEF Holds
    <2> DEFINE n == [s EXCEPT !.at = "record"]
    <2>7. proc' = [proc EXCEPT ![p] = n]
      BY <1>3 DEF Spend!Goto
    <2>8. /\ n = [field \in Fields |-> n[field]] /\ n.at = "record" /\ n.plan = s.plan
          /\ n.seen = s.seen /\ n.data = s.data
      BY <1>1 DEF Holds, Fields
    <2> HIDE DEF n
    <2>9. file'[Head(n.plan)].state = "whole"
      BY <2>1, <2>2, <2>8
    <2>10. Holds(n)'
      BY <1>1, <2>4, <2>8, <2>9 DEF Holds, Working
    <2>11. \A q \in Procs : q # p => \E m : m = proc[q] /\ Holds(m)'
      BY <2>6 DEF EvidenceInv
    <2>12. Spend!ResultsAreEvidence'
      BY <1>1 DEF EvidenceInv, Spend!ResultsAreEvidence
    <2>13. file' = [at \in Stages |-> file'[at]]
      BY <2>2
    <2>14. inputs' \in Nat /\ crashes' \in Nat /\ \E S : chain' \in Seq(S)
      BY <1>1 DEF EvidenceInv
    <2> QED
      BY <2>5, <2>7, <2>10, <2>11, <2>12, <2>13, <2>14, FilesMove
  <1> QED
    BY <1>2, <1>3 DEF Spend!WriteResult, Spend!Frozen, Spend!Stage


LEMMA StageRecorded ==
    ASSUME EvidenceInv, NEW p \in Procs, Spend!RecordResult(p)
    PROVE  EvidenceInv'
  <1> PICK s : s = proc[p]
    OBVIOUS
  <1>1. Holds(s) /\ s.at = "record" /\ UNCHANGED <<inputs, file, crashes>>
    BY DEF EvidenceInv, Spend!RecordResult
  <1>2. CASE Spend!Fail(p) /\ UNCHANGED chain
    BY <1>1, <1>2, Fails DEF EvidenceInv
  <1>3. CASE /\ chain' = Append(chain, [stage |-> Head(s.plan), result |-> file[Head(s.plan)]])
             /\ \/ /\ Len(s.plan) > 1
                   /\ proc' = [proc EXCEPT ![p].at = "stage", ![p].plan = Tail(@)]
                \/ Spend!Fail(p)
    <2> PICK stage \in Stages : stage = Head(s.plan)
      BY <1>1 DEF Holds, Working
    <2> PICK result : result = file[stage]
      OBVIOUS
    <2> PICK S : chain \in Seq(S)
      BY DEF EvidenceInv
    <2> PICK event : event = [stage |-> stage, result |-> result]
      OBVIOUS
    <2>1. chain' = Append(chain, event) /\ event.stage = stage /\ event.result = result
      BY <1>3
    <2>2. /\ Len(chain) \in Nat /\ Len(chain') = Len(chain) + 1
          /\ DOMAIN chain = 1 .. Len(chain) /\ DOMAIN chain' = 1 .. Len(chain) + 1
          /\ \A i \in 1 .. Len(chain) : chain'[i] = chain[i]
          /\ chain'[Len(chain) + 1] = event
      BY <2>1
    <2> PICK last \in Nat : last = Len(chain)
      BY <2>2
    <2>3. \A v : OnRecord(v, Len(chain)) => OnRecord(v, Len(chain))'
      BY <2>2 DEF OnRecord
    <2>4. \A at \in Stages : FileStands(at)'
      BY <1>1, <2>3 DEF EvidenceInv, FileStands
    <2>5. \A m : Holds(m) => Holds(m)'
      BY <1>1, <2>3 DEF Holds
    <2>6. \A q \in Procs : q # p => \E m : m = proc[q] /\ Holds(m)'
      BY <2>5 DEF EvidenceInv
    <2>7. /\ result.data = result.inputs
          /\ stage = "extraction" \/ OnRecord(result.inputs, Len(chain))
      BY <1>1 DEF EvidenceInv, FileStands, Holds
    <2>8. Spend!ResultsAreEvidence'
      <3> SUFFICES ASSUME NEW i \in 1 .. last + 1
                   PROVE  /\ chain'[i].result.data = chain'[i].result.inputs
                          /\ \E j \in 1 .. i : /\ chain'[j].stage = "extraction"
                                               /\ chain'[j].result.inputs = chain'[i].result.inputs
        BY <2>2 DEF Spend!ResultsAreEvidence
      <3>1. CASE i \in 1 .. last
        BY <2>2, <3>1 DEF EvidenceInv, Spend!ResultsAreEvidence
      <3>2. CASE i = last + 1
        <4>1. chain'[i].result = result
          BY <2>1, <2>2, <3>2
        <4>2. CASE stage = "extraction"
          BY <2>1, <2>2, <2>7, <3>2, <4>1, <4>2
        <4>3. CASE OnRecord(result.inputs, Len(chain))
          BY <2>2, <2>7, <3>2, <4>1, <4>3 DEF OnRecord
        <4> QED
          BY <2>7, <4>2, <4>3
      <3> QED
        BY <3>1, <3>2
    <2>9. chain' \in Seq(S \cup {event})
      <3>1. chain \in Seq(S \cup {event})
        OBVIOUS
      <3> QED
        BY <2>1, <3>1
    <2>10. /\ inputs' \in Nat /\ crashes' \in Nat /\ file' = [at \in Stages |-> file'[at]]
           /\ \E T : chain' \in Seq(T)
      BY <1>1, <2>9 DEF EvidenceInv
    <2>11. ASSUME NEW n, proc' = [proc EXCEPT ![p] = n], Holds(n) PROVE EvidenceInv'
      BY <2>4, <2>5, <2>6, <2>8, <2>10, <2>11, FilesMove
    <2>12. CASE Spend!Fail(p)
      BY <2>11, <2>12, IdleHolds DEF Spend!Fail
    <2>13. CASE /\ Len(s.plan) > 1
                /\ proc' = [proc EXCEPT ![p].at = "stage", ![p].plan = Tail(@)]
      <3> PICK n : n = proc'[p]
        OBVIOUS
      <3>1. s = [field \in Fields |-> s[field]] /\ proc = [q \in Procs |-> proc[q]]
        BY <1>1 DEF EvidenceInv, Holds
      <3>2. proc' = [proc EXCEPT ![p] = n]
        BY <2>13
      <3>3. n.at = "stage" /\ n.plan = Tail(s.plan) /\ n.seen = s.seen /\ n.data = s.data
        BY <2>13, <3>1 DEF Fields
      <3>4. n = [field \in Fields |-> n[field]]
        BY <2>13, <3>1 DEF Fields
      <3>5. Tail(s.plan) \in Seq(Stages) /\ Tail(s.plan) # <<>>
        <4> PICK plan \in Seq(Stages) : plan = s.plan /\ Len(plan) > 1
          BY <1>1, <2>13 DEF Holds
        <4> PICK tail : tail = Tail(plan)
          OBVIOUS
        <4>1. tail \in Seq(Stages) /\ Len(tail) # 0
          OBVIOUS
        <4>2. tail # <<>>
          BY <4>1
        <4> QED
          BY <4>1, <4>2
      <3>6. Holds(n)
        BY <1>1, <3>3, <3>4, <3>5 DEF Holds, Working
      <3> QED
        BY <2>11, <3>2, <3>6
    <2> QED
      BY <1>3, <2>12, <2>13
  <1> QED
    BY <1>2, <1>3 DEF Spend!RecordResult, Spend!Stage, Spend!Fail


LEMMA StageBegun ==
    ASSUME EvidenceInv, NEW p \in Procs, Spend!BeginStage(p)
    PROVE  EvidenceInv'
  <1> PICK s : s = proc[p]
    OBVIOUS
  <1>1. /\ Holds(s) /\ s.at = "stage" /\ UNCHANGED <<inputs, file, crashes, chain>>
        /\ s = [field \in Fields |-> s[field]] /\ proc = [q \in Procs |-> proc[q]]
    BY DEF EvidenceInv, Holds, Spend!BeginStage
  <1>2. CASE Spend!Fail(p)
    BY <1>1, <1>2, Fails DEF EvidenceInv
  <1>3. CASE ~Spend!Fail(p)
    <2>1. PICK k : proc' = [proc EXCEPT ![p].at = "call", ![p].rows = {}, ![p].k = k]
      BY <1>3, Zenon DEF Spend!BeginStage
    <2>2. Head(s.plan) = "extraction" \/ Spend!ExtractionIsEvidence(p)
      BY <1>3 DEF Spend!BeginStage, Spend!Stage
    <2>3. Head(s.plan) = "extraction" \/ OnRecord(s.seen, Len(chain))
      <3>1. ASSUME Spend!ExtractionIsEvidence(p) PROVE OnRecord(s.seen, Len(chain))
        <4>1. PICK j \in DOMAIN chain : /\ chain[j].stage = "extraction"
                                        /\ chain[j].result = file["extraction"]
          BY <3>1, Zenon DEF Spend!ExtractionIsEvidence, Spend!ToSet
        <4>2. file["extraction"].inputs = s.seen
          BY <3>1 DEF Spend!ExtractionIsEvidence
        <4>3. DOMAIN chain = 1 .. Len(chain)
          BY DEF EvidenceInv
        <4> QED
          BY <4>1, <4>2, <4>3 DEF OnRecord
      <3> QED
        BY <2>2, <3>1
    <2> PICK n : n = proc'[p]
      OBVIOUS
    <2>4. proc' = [proc EXCEPT ![p] = n]
      BY <2>1
    <2>5. n.at = "call" /\ n.plan = s.plan /\ n.seen = s.seen /\ n.data = s.data
      BY <1>1, <2>1 DEF Fields
    <2>6. n = [field \in Fields |-> n[field]]
      BY <1>1, <2>1 DEF Fields
    <2>7. Holds(n)
      BY <1>1, <2>3, <2>5, <2>6 DEF Holds, Working
    <2> QED
      BY <1>1, <2>4, <2>7, ProcessMoves DEF EvidenceInv
  <1> QED
    BY <1>2, <1>3

LEMMA ProcessStarts ==
    ASSUME EvidenceInv, NEW p \in Procs, NEW plan \in Spend!Plans, NEW offline \in BOOLEAN,
           Spend!Start(p, plan, offline)
    PROVE  EvidenceInv'
  <1> DEFINE n == [Spend!Idle EXCEPT !.at = "load", !.plan = plan, !.offline = offline,
                                     !.seen = inputs]
  <1>1. proc' = [proc EXCEPT ![p] = n] /\ UNCHANGED <<inputs, file, crashes, chain>>
    BY DEF Spend!Start
  <1>2. plan \in Seq(Stages) /\ plan # <<>>
    <2>1. <<"extraction", "arms", "tuning">> \in Seq(Stages)
      BY DEF Stages
    <2>2. /\ <<"extraction">> \in Seq(Stages) /\ <<"arms">> \in Seq(Stages)
          /\ <<"tuning">> \in Seq(Stages)
      BY DEF Stages
    <2>3. plan \in Seq(Stages)
      BY <2>1, <2>2 DEF Spend!Plans
    <2>4. Len(plan) # 0
      BY DEF Spend!Plans
    <2> QED
      BY <2>3, <2>4
  <1>3. n.at = "load" /\ n.plan = plan /\ n.seen = inputs /\ n.data = 0
    BY DEF Spend!Idle
  <1>4. n = [field \in Fields |-> n[field]]
    BY DEF Spend!Idle, Fields
  <1>5. inputs \in Nat /\ crashes \in Nat
    BY DEF EvidenceInv
  <1> HIDE DEF n
  <1>6. Holds(n)
    BY <1>2, <1>3, <1>4, <1>5 DEF Holds, Working
  <1> QED
    BY <1>1, <1>5, <1>6, ProcessMoves

LEMMA DataLoaded ==
    ASSUME EvidenceInv, NEW p \in Procs, Spend!Load(p)
    PROVE  EvidenceInv'
  <1> PICK s : s = proc[p]
    OBVIOUS
  <1> PICK n : n = proc'[p]
    OBVIOUS
  <1>1. /\ Holds(s) /\ s.at = "load" /\ UNCHANGED <<inputs, file, crashes, chain>>
        /\ s = [field \in Fields |-> s[field]] /\ proc = [q \in Procs |-> proc[q]]
        /\ inputs \in Nat /\ crashes \in Nat
    BY DEF EvidenceInv, Holds, Spend!Load
  <1>2. proc' = [proc EXCEPT ![p].at = "stage", ![p].data = inputs]
    BY DEF Spend!Load
  <1>3. proc' = [proc EXCEPT ![p] = n]
    BY <1>2
  <1>4. n.at = "stage" /\ n.plan = s.plan /\ n.seen = s.seen /\ n.data = inputs
    BY <1>1, <1>2 DEF Fields
  <1>5. n = [field \in Fields |-> n[field]]
    BY <1>1, <1>2 DEF Fields
  <1>6. Holds(n)
    BY <1>1, <1>4, <1>5 DEF Holds, Working
  <1> QED
    BY <1>1, <1>3, <1>6, ProcessMoves

LEMMA DatasetEdited ==
    ASSUME EvidenceInv, Spend!EditInputs
    PROVE  EvidenceInv'
  <1>1. inputs' = inputs + 1 /\ UNCHANGED <<proc, chain, file, crashes>> /\ inputs \in Nat
    BY DEF Spend!EditInputs, EvidenceInv
  <1>2. \A p \in Procs : Holds(proc[p])'
    <2> SUFFICES ASSUME NEW p \in Procs PROVE Holds(proc[p])'
      OBVIOUS
    <2> PICK s : s = proc[p]
      OBVIOUS
    <2>1. Holds(s)
      BY DEF EvidenceInv
    <2>2. Holds(s)'
      BY <1>1, <2>1 DEF Holds, OnRecord, Working
    <2> QED
      BY <1>1, <2>2 DEF Holds
  <1>3. \A stage \in Stages : FileStands(stage)'
    BY <1>1 DEF EvidenceInv, FileStands, OnRecord
  <1>4. Spend!ResultsAreEvidence'
    BY <1>1 DEF EvidenceInv, Spend!ResultsAreEvidence
  <1> QED
    BY <1>1, <1>2, <1>3, <1>4 DEF EvidenceInv

(* A crash tears at most a file that only the process had in hand.          *)
LEMMA ProcessCrashed ==
    ASSUME Undisturbed, EvidenceInv, NEW p \in Procs, Spend!Crash(p)
    PROVE  EvidenceInv'
  <1> PICK s : s = proc[p]
    OBVIOUS
  <1>1. /\ Holds(s) /\ Spend!Fail(p) /\ UNCHANGED <<inputs, chain>>
        /\ crashes' = crashes + 1 /\ crashes \in Nat /\ inputs \in Nat
        /\ file = [at \in Stages |-> file[at]] /\ \E S : chain \in Seq(S)
    BY DEF EvidenceInv, Spend!Crash
  <1>a. MaxCrashes \in Nat
    BY ExperimentBounds DEF ExperimentBounds
  <1>2. \A q \in Procs : q = p
    BY <1>1, <1>a DEF Undisturbed, Spend!Crash
  <1>3. CASE UNCHANGED file
    BY <1>1, <1>3, Fails
  <1>4. CASE file' = [file EXCEPT ![Head(s.plan)] = [state |-> "torn", inputs |-> -1]]
    <2>1. \A stage \in Stages : FileStands(stage)'
      <3> SUFFICES ASSUME NEW stage \in Stages PROVE FileStands(stage)'
        OBVIOUS
      <3>1. FileStands(stage) /\ (file'[stage] = file[stage] \/ file'[stage].state = "torn")
        BY <1>1, <1>4 DEF EvidenceInv
      <3> QED
        BY <1>1, <3>1 DEF FileStands, OnRecord
    <2>2. Spend!ResultsAreEvidence'
      BY <1>1 DEF EvidenceInv, Spend!ResultsAreEvidence
    <2>3. Holds(Spend!Idle)'
      <3> PICK n : n = Spend!Idle
        OBVIOUS
      <3>1. Holds(n) /\ n.at = "idle"
        BY IdleHolds DEF Spend!Idle
      <3>2. Holds(n)'
        BY <3>1 DEF Holds, Working
      <3> QED
        BY <3>2
    <2>4. file' = [at \in Stages |-> file'[at]]
      BY <1>1, <1>4
    <2>5. proc' = [proc EXCEPT ![p] = Spend!Idle]
      BY <1>1 DEF Spend!Fail
    <2>6. inputs' \in Nat /\ crashes' \in Nat /\ \E S : chain' \in Seq(S)
      BY <1>1
    <2> QED
      BY <1>2, <2>1, <2>2, <2>3, <2>4, <2>5, <2>6, FilesMove
  <1> QED
    BY <1>3, <1>4 DEF Spend!Crash, Spend!Tear, Spend!Stage


LEMMA EvidenceNext ==
    ASSUME Undisturbed, EvidenceInv, [Spend!Next]_spendVars
    PROVE  EvidenceInv'
  <1>1. CASE UNCHANGED spendVars
    <2>1. UNCHANGED <<proc, inputs, chain, file, crashes>>
      BY <1>1 DEF spendVars
    <2>2. \A p \in Procs : Holds(proc[p])'
      <3> SUFFICES ASSUME NEW p \in Procs PROVE Holds(proc[p])'
        OBVIOUS
      <3>1. Holds(proc[p])
        BY DEF EvidenceInv
      <3> QED
        BY <2>1, <3>1 DEF Holds, OnRecord
    <2>3. \A stage \in Stages : FileStands(stage)'
      BY <2>1 DEF EvidenceInv, FileStands, OnRecord
    <2>4. Spend!ResultsAreEvidence'
      BY <2>1 DEF EvidenceInv, Spend!ResultsAreEvidence
    <2> QED
      BY <2>1, <2>2, <2>3, <2>4 DEF EvidenceInv
  <1>2. ASSUME NEW p \in Procs, Spend!Step(p) PROVE EvidenceInv'
    BY <1>2, EvidenceKept, StageWritten, StageRecorded, StageBegun, ProcessStarts, DataLoaded
       DEF Spend!Step
  <1>3. ASSUME NEW p \in Procs, Spend!Crash(p) PROVE EvidenceInv'
    BY <1>3, ProcessCrashed
  <1> QED
    BY <1>1, <1>2, <1>3, DatasetEdited DEF Spend!Next

LEMMA EvidenceBegins == ASSUME Spend!Init PROVE EvidenceInv
  <1>1. /\ inputs = 0 /\ crashes = 0 /\ chain = <<>>
        /\ proc = [p \in Procs |-> Spend!Idle]
        /\ file = [stage \in Stages |-> Spend!None]
    BY DEF Spend!Init, Stages
  <1>2. \A p \in Procs : Holds(proc[p])
    BY <1>1, IdleHolds
  <1>3. Spend!None.state = "none"
    BY DEF Spend!None
  <1>4. \A stage \in Stages : FileStands(stage)
    BY <1>1, <1>3 DEF FileStands
  <1>5. DOMAIN chain = {}
    BY <1>1
  <1>6. Spend!ResultsAreEvidence
    BY <1>5 DEF Spend!ResultsAreEvidence
  <1>7. chain \in Seq(Stages)
    BY <1>1
  <1> QED
    BY <1>1, <1>2, <1>4, <1>6, <1>7 DEF EvidenceInv

\* A recorded result was computed from the dataset whose digest it carries, and arms and tuning
\* follow an extraction from it, unless a second process dies while the first records its file.
THEOREM RecordedResultsAreEvidence ==
    ASSUME Undisturbed PROVE PaidSpec => []ResultsAreEvidence
<1> DEFINE Inv == part = "spend" => EvidenceInv
<1>1. part \in PaidParts /\ PaidInit => Inv
  BY EvidenceBegins DEF PaidInit
<1>2. Inv /\ [PaidNext]_paidVars => Inv'
  BY EvidenceNext, Continues
<1>3. Inv => ResultsAreEvidence
  BY DEF EvidenceInv, ResultsAreEvidence
<1> QED
  BY <1>1, <1>2, <1>3, PTL DEF PaidSpec


----------------------------------------------------------------------------
(* The calls of the dual memory run and their numbers.                      *)

Of(kind) == {i \in DOMAIN calls : calls[i].kind = kind}

LEMMA Counted ==
    ASSUME calls \in Seq(CallRecords)
    PROVE  \A kind : /\ IsFiniteSet(Of(kind)) /\ Dual!Count(kind) = Cardinality(Of(kind))
                     /\ Dual!Count(kind) \in Nat
                     /\ Dual!Count(kind) = 0 => Of(kind) = {}
                     /\ calls = <<>> => Dual!Count(kind) = 0
  <1> SUFFICES ASSUME NEW kind
               PROVE  /\ IsFiniteSet(Of(kind)) /\ Dual!Count(kind) = Cardinality(Of(kind))
                      /\ Dual!Count(kind) \in Nat
                      /\ Dual!Count(kind) = 0 => Of(kind) = {}
                      /\ calls = <<>> => Dual!Count(kind) = 0
    OBVIOUS
  <1>1. IsFiniteSet(1 .. Len(calls)) /\ DOMAIN calls = 1 .. Len(calls)
    BY FS_Interval
  <1>2. IsFiniteSet(Of(kind))
    BY <1>1, FS_Subset DEF Of
  <1>3. Dual!Count(kind) = Cardinality(Of(kind))
    BY DEF Dual!Count, Dual!Cardinality, Cardinality, Of, Dual!IsFiniteSet, IsFiniteSet
  <1>4. Cardinality(Of(kind)) \in Nat /\ (Cardinality(Of(kind)) = 0 <=> Of(kind) = {})
    BY <1>2, FS_EmptySet, FS_CardinalityType
  <1>5. calls = <<>> => Of(kind) = {}
    BY <1>1 DEF Of
  <1> QED
    BY <1>2, <1>3, <1>4, <1>5

(* A call more.                                                             *)
LEMMA CallStarted ==
    ASSUME calls \in Seq(CallRecords), NEW kind \in Dual!Kinds, NEW job \in Nat,
           calls' = Append(calls, [kind |-> kind, job |-> job, outcome |-> "unknown"])
    PROVE  /\ calls' \in Seq(CallRecords) /\ Len(calls') = Len(calls) + 1
           /\ \A i \in 1 .. Len(calls) : calls'[i] = calls[i]
           /\ calls'[Len(calls) + 1].kind = kind /\ calls'[Len(calls) + 1].job = job
           /\ \A k : Dual!Count(k)' = IF k = kind THEN Dual!Count(k) + 1 ELSE Dual!Count(k)
  <1> PICK c : c = [kind |-> kind, job |-> job, outcome |-> "unknown"]
    OBVIOUS
  <1>1. c \in CallRecords /\ c.kind = kind /\ c.job = job
    BY DEF CallRecords
  <1>2. calls' \in Seq(CallRecords)
    BY <1>1
  <1> PICK n \in Nat : n = Len(calls)
    OBVIOUS
  <1>3. /\ Len(calls') = n + 1 /\ DOMAIN calls = 1 .. n /\ DOMAIN calls' = 1 .. n + 1
        /\ \A i \in 1 .. n : calls'[i] = calls[i]
        /\ calls'[n + 1] = c
    OBVIOUS
  <1>4. Of(kind)' = Of(kind) \cup {n + 1} /\ n + 1 \notin Of(kind)
    BY <1>1, <1>3 DEF Of
  <1>5. \A k : k # kind => Of(k)' = Of(k)
    BY <1>1, <1>3 DEF Of
  <1>6. \A k : IsFiniteSet(Of(k)) /\ Dual!Count(k) = Cardinality(Of(k))
    BY Counted
  <1>7. \A k : Dual!Count(k)' = Cardinality(Of(k)')
    BY DEF Dual!Count, Dual!Cardinality, Cardinality, Of
  <1>8. Cardinality(Of(kind)') = Cardinality(Of(kind)) + 1
    BY <1>4, <1>6, FS_AddElement
  <1>9. \A k : Dual!Count(k)' = IF k = kind THEN Dual!Count(k) + 1 ELSE Dual!Count(k)
    <2> SUFFICES ASSUME NEW k
                 PROVE  Dual!Count(k)' = IF k = kind THEN Dual!Count(k) + 1 ELSE Dual!Count(k)
      OBVIOUS
    <2>1. Dual!Count(k)' = Cardinality(Of(k)') /\ Dual!Count(k) = Cardinality(Of(k))
      BY <1>6, <1>7
    <2>2. CASE k = kind
      <3>1. Of(k)' = Of(kind)' /\ Of(k) = Of(kind)
        BY <2>2 DEF Of
      <3> QED
        BY <1>8, <2>1, <2>2, <3>1
    <2>3. CASE k # kind
      BY <1>5, <2>1, <2>3
    <2> QED
      BY <2>2, <2>3
  <1> QED
    BY <1>1, <1>2, <1>3, <1>9

(* A call ends, which is of the kind and the job it was.                    *)
LEMMA CallEnded ==
    ASSUME calls \in Seq(CallRecords), NEW n \in 1 .. Len(calls),
           NEW outcome \in {"succeeded", "failed"},
           calls' = [calls EXCEPT ![n].outcome = outcome]
    PROVE  /\ calls' \in Seq(CallRecords) /\ Len(calls') = Len(calls)
           /\ \A i \in DOMAIN calls : /\ calls'[i].kind = calls[i].kind
                                      /\ calls'[i].job = calls[i].job
           /\ \A kind : Dual!Count(kind)' = Dual!Count(kind)
  <1> PICK c \in CallRecords : c = calls[n]
    OBVIOUS
  <1> DEFINE d == [c EXCEPT !.outcome = outcome]
  <1>1. calls' = [calls EXCEPT ![n] = d]
    OBVIOUS
  <1>2. d \in CallRecords /\ d.kind = c.kind /\ d.job = c.job
    BY DEF CallRecords
  <1> HIDE DEF d
  <1>3. /\ calls' \in Seq(CallRecords) /\ Len(calls') = Len(calls)
        /\ DOMAIN calls' = DOMAIN calls
    BY <1>1, <1>2
  <1>4. \A i \in DOMAIN calls : calls'[i].kind = calls[i].kind /\ calls'[i].job = calls[i].job
    BY <1>1, <1>2
  <1>5. \A k : Of(k)' = Of(k)
    BY <1>3, <1>4 DEF Of
  <1>6. \A k : Dual!Count(k) = Cardinality(Of(k))
    BY Counted
  <1>7. \A k : Dual!Count(k)' = Cardinality(Of(k)')
    BY DEF Dual!Count, Dual!Cardinality, Cardinality, Of
  <1> QED
    BY <1>3, <1>4, <1>5, <1>6, <1>7


(* A call whose kind may have one more, and whose job none of its kind has. *)
LEMMA CallAdded ==
    ASSUME DualTypes, CallsCounted, NEW kind \in Dual!Kinds, NEW job \in Nat,
           calls' = Append(calls, [kind |-> kind, job |-> job, outcome |-> "unknown"]),
           Dual!Count(kind) < Limits[kind],
           \A i \in DOMAIN calls : calls[i].kind = kind => calls[i].job # job,
           kind # "generation" => job <= Dual!Count(kind) + 1
    PROVE  CallsCounted'
  <1>1. calls \in Seq(CallRecords)
    BY DEF DualTypes
  <1> PICK n \in Nat : n = Len(calls)
    BY <1>1
  <1>2. /\ calls' \in Seq(CallRecords) /\ Len(calls') = n + 1
        /\ \A i \in 1 .. n : calls'[i] = calls[i]
        /\ calls'[n + 1].kind = kind /\ calls'[n + 1].job = job
        /\ \A k : Dual!Count(k)' = IF k = kind THEN Dual!Count(k) + 1 ELSE Dual!Count(k)
    BY <1>1, CallStarted
  <1>3. DOMAIN calls = 1 .. n /\ DOMAIN calls' = 1 .. n + 1
    BY <1>1, <1>2
  <1>4. \A k : Dual!Count(k) \in Nat
    BY <1>1, Counted
  <1>5. \A i \in 1 .. n : calls[i].job \in Nat
    <2>1. \A i \in 1 .. n : calls[i] \in CallRecords
      BY <1>1
    <2> QED
      BY <2>1 DEF CallRecords
  <1>6. Len(calls') = Dual!Count("embedding_batch")' + Dual!Count("semantic_extraction")'
                         + Dual!Count("generation")'
    <2>1. n = Dual!Count("embedding_batch") + Dual!Count("semantic_extraction")
                 + Dual!Count("generation")
      BY DEF CallsCounted
    <2> PICK a, b, c \in Nat : /\ a = Dual!Count("embedding_batch")
                               /\ b = Dual!Count("semantic_extraction")
                               /\ c = Dual!Count("generation")
      BY <1>4
    <2>2. Dual!Count("embedding_batch")' = IF kind = "embedding_batch" THEN a + 1 ELSE a
      BY <1>2
    <2>3. Dual!Count("semantic_extraction")' = IF kind = "semantic_extraction" THEN b + 1 ELSE b
      BY <1>2
    <2>4. Dual!Count("generation")' = IF kind = "generation" THEN c + 1 ELSE c
      BY <1>2
    <2>5. kind \in {"embedding_batch", "semantic_extraction", "generation"}
      BY DEF Dual!Kinds
    <2>6. Len(calls') = n + 1 /\ n = a + b + c
      BY <1>2, <2>1
    <2> QED
      BY ONLY <2>2, <2>3, <2>4, <2>5, <2>6, n \in Nat, a \in Nat, b \in Nat, c \in Nat
  <1>7. \A k \in Dual!Kinds : Limits[k] \in Nat
    BY ExperimentBounds DEF ExperimentBounds, Dual!Kinds
  <1>8. \A k \in Dual!Kinds : Dual!Count(k)' <= Limits[k]
    <2> SUFFICES ASSUME NEW k \in Dual!Kinds PROVE Dual!Count(k)' <= Limits[k]
      OBVIOUS
    <2>1. Dual!Count(k) <= Limits[k] /\ Dual!Count(k) \in Nat /\ Limits[k] \in Nat
      BY <1>4, <1>7 DEF CallsCounted
    <2> QED
      BY <1>2, <2>1
  <1>9. \A i, j \in 1 .. n + 1 :
           calls'[i].kind = calls'[j].kind /\ calls'[i].job = calls'[j].job => i = j
    <2>1. \A i \in 1 .. n + 1 : i \in 1 .. n \/ i = n + 1
      OBVIOUS
    <2>2. \A i, j \in 1 .. n :
             calls'[i].kind = calls'[j].kind /\ calls'[i].job = calls'[j].job => i = j
      BY <1>2, <1>3 DEF CallsCounted
    <2>3. \A i \in 1 .. n : ~(calls'[i].kind = kind /\ calls'[i].job = job)
      BY <1>2, <1>3
    <2> QED
      BY <1>2, <2>1, <2>2, <2>3
  <1>10. \A k \in Dual!Kinds \ {"generation"} : \A i \in 1 .. n + 1 :
            calls'[i].kind = k => calls'[i].job <= Dual!Count(k)'
    <2> SUFFICES ASSUME NEW k \in Dual!Kinds \ {"generation"}, NEW i \in 1 .. n + 1,
                        calls'[i].kind = k
                 PROVE  calls'[i].job <= Dual!Count(k)'
      OBVIOUS
    <2>1. CASE i = n + 1
      <3>1. k = kind /\ calls'[i].job = job
        BY <1>2, <2>1
      <3>2. Dual!Count(kind) = Dual!Count(k)
        BY <3>1
      <3> QED
        BY <1>2, <1>4, <3>1, <3>2
    <2>2. CASE i \in 1 .. n
      <3>1. calls[i].kind = k /\ calls'[i].job = calls[i].job
        BY <1>2, <2>2
      <3>2. calls[i].job <= Dual!Count(k) /\ calls[i].job \in Nat /\ Dual!Count(k) \in Nat
        BY <1>3, <1>4, <1>5, <2>2, <3>1 DEF CallsCounted
      <3>3. Dual!Count(k)' = Dual!Count(k) \/ Dual!Count(k)' = Dual!Count(k) + 1
        BY <1>2
      <3> QED
        BY <3>1, <3>2, <3>3
    <2> QED
      BY <2>1, <2>2
  <1> QED
    BY <1>3, <1>6, <1>8, <1>9, <1>10 DEF CallsCounted


(* A step that leaves the ledger.                                           *)
LEMMA CallsStay ==
    ASSUME UNCHANGED calls
    PROVE  /\ \A kind : Dual!Count(kind)' = Dual!Count(kind)
           /\ CallsCounted => CallsCounted'
  <1>1. \A kind : Dual!Count(kind)' = Dual!Count(kind)
    BY DEF Dual!Count
  <1> QED
    BY <1>1 DEF CallsCounted

(* The execution is over, or will be refused for ever after.                *)
LEMMA RunIsOver ==
    ASSUME DualTypes', CallsCounted', point' \in {"over", "start"}, reservation',
           output' # {} => WholeRun'
    PROVE  DualInv'
  BY DEF DualInv, PhasesAgree, JobsTaken, InPhase

LEMMA ReserveStep ==
    ASSUME DualInv, Dual!Reserve \/ Dual!Verify
    PROVE  DualInv'
  <1>1. UNCHANGED <<batches, calls, worker, queue, broken, answered, output>>
    BY DEF Dual!Reserve, Dual!Verify
  <1>2. (\A kind : Dual!Count(kind)' = Dual!Count(kind)) /\ CallsCounted'
    BY <1>1, CallsStay DEF DualInv
  <1>3. DualTypes'
    <2>1. /\ point' \in {"verify", "embedding_batch", "over"} /\ reservation' \in BOOLEAN
      BY DEF Dual!Reserve, Dual!Verify, DualInv, DualTypes
    <2> QED
      BY <1>1, <2>1 DEF DualInv, DualTypes, InPhase
  <1>4. CASE Dual!Reserve
    <2>1. point' = "verify" /\ reservation' /\ point = "start" /\ ~reservation
      BY <1>4 DEF Dual!Reserve
    <2>2. PhasesAgree'
      BY <1>1, <1>2, <2>1 DEF DualInv, PhasesAgree, InPhase
    <2> QED
      BY <1>1, <1>2, <1>3, <2>1, <2>2 DEF DualInv, JobsTaken, WholeRun, PhasesAgree, InPhase
  <1>5. CASE Dual!Verify
    <2>1. /\ point = "verify" /\ point' \in {"embedding_batch", "over"}
          /\ reservation /\ reservation'
      BY <1>5 DEF Dual!Verify, DualInv, PhasesAgree
    <2>2. calls = <<>> /\ output = {}
      BY <2>1 DEF DualInv, PhasesAgree, InPhase
    <2>3. \A kind : Dual!Count(kind) = 0
      BY <2>2, Counted DEF DualInv, DualTypes
    <2>4. PhasesAgree'
      BY <1>1, <1>2, <2>1, <2>2, <2>3 DEF DualInv, PhasesAgree, InPhase
    <2> QED
      BY <1>1, <1>2, <1>3, <2>1, <2>2, <2>4 DEF DualInv, JobsTaken
  <1> QED
    BY <1>4, <1>5

LEMMA CallBegins ==
    ASSUME DualInv, Dual!StartNext
    PROVE  DualInv'
  <1> PICK kind \in {"embedding_batch", "semantic_extraction"} : kind = point
    BY DEF Dual!StartNext, Dual!InSequence
  <1> PICK job : job = Dual!Count(kind) + 1
    OBVIOUS
  <1>1. /\ UNCHANGED <<batches, reservation, worker, queue, broken, answered, output>>
        /\ reservation /\ output = {}
    BY DEF Dual!StartNext, DualInv, PhasesAgree, InPhase
  <1>2. calls \in Seq(CallRecords) /\ Dual!Count(kind) \in Nat /\ job \in Nat /\ kind \in Dual!Kinds
    BY Counted DEF DualInv, DualTypes, Dual!Kinds
  <1>3. CASE UNCHANGED calls /\ Dual!Invalid("error")
    <2>1. DualTypes' /\ point' = "over"
      BY <1>1, <1>3 DEF DualInv, DualTypes, Dual!Invalid
    <2> QED
      BY <1>1, <1>3, <2>1, RunIsOver, CallsStay DEF DualInv
  <1>4. CASE Dual!MayStart(kind) /\ Dual!Started(kind, job) /\ UNCHANGED point
    <2>1. calls' = Append(calls, [kind |-> kind, job |-> job, outcome |-> "unknown"])
      BY <1>4 DEF Dual!Started
    <2>2. /\ calls' \in Seq(CallRecords) /\ Len(calls') = Len(calls) + 1
          /\ \A i \in 1 .. Len(calls) : calls'[i] = calls[i]
          /\ calls'[Len(calls) + 1].kind = kind /\ calls'[Len(calls) + 1].job = job
          /\ \A k : Dual!Count(k)' = IF k = kind THEN Dual!Count(k) + 1 ELSE Dual!Count(k)
      BY <1>2, <2>1, CallStarted
    <2>3. Dual!Count(kind) < Limits[kind] /\ Limits[kind] \in Nat
      BY <1>4, ExperimentBounds DEF ExperimentBounds, Dual!MayStart
    <2>4. CallsCounted'
      <3>1. \A i \in DOMAIN calls : calls[i].kind = kind => calls[i].job <= Dual!Count(kind)
        BY DEF DualInv, CallsCounted, Dual!Kinds
      <3>2. \A i \in DOMAIN calls : calls[i].job \in Nat
        <4>1. \A i \in DOMAIN calls : calls[i] \in CallRecords
          BY <1>2
        <4> QED
          BY <4>1 DEF CallRecords
      <3>3. \A i \in DOMAIN calls : calls[i].kind = kind => calls[i].job # job
        BY <1>2, <3>1, <3>2
      <3>4. job <= Dual!Count(kind) + 1
        BY <1>2
      <3> QED
        BY <1>2, <2>1, <2>3, <3>3, <3>4, CallAdded DEF DualInv
    <2>5. DualTypes'
      BY <1>1, <1>4, <2>2 DEF DualInv, DualTypes
    <2>6. PhasesAgree'
      BY <1>1, <1>4, <2>2 DEF DualInv, PhasesAgree, InPhase
    <2> QED
      BY <1>1, <1>4, <2>4, <2>5, <2>6 DEF DualInv, JobsTaken
  <1> QED
    BY <1>3, <1>4 DEF Dual!StartNext


(* The counts do not change when a call ends.                               *)
LEMMA OutcomeKept ==
    ASSUME DualTypes, CallsCounted, NEW n \in 1 .. Len(calls),
           NEW outcome \in {"succeeded", "failed"},
           calls' = [calls EXCEPT ![n].outcome = outcome]
    PROVE  CallsCounted'
  <1>1. calls \in Seq(CallRecords)
    BY DEF DualTypes
  <1>2. /\ calls' \in Seq(CallRecords) /\ Len(calls') = Len(calls)
        /\ \A i \in DOMAIN calls : /\ calls'[i].kind = calls[i].kind
                                   /\ calls'[i].job = calls[i].job
        /\ \A kind : Dual!Count(kind)' = Dual!Count(kind)
    BY <1>1, CallEnded
  <1>3. DOMAIN calls' = DOMAIN calls
    BY <1>1, <1>2
  <1>4. \A kind \in Dual!Kinds \ {"generation"} : \A i \in DOMAIN calls' :
           calls'[i].kind = kind => calls'[i].job <= Dual!Count(kind)'
    BY <1>2, <1>3 DEF CallsCounted
  <1>5. \A i, j \in DOMAIN calls' :
           calls'[i].kind = calls'[j].kind /\ calls'[i].job = calls'[j].job => i = j
    BY <1>2, <1>3 DEF CallsCounted
  <1>6. /\ Len(calls') = Dual!Count("embedding_batch")' + Dual!Count("semantic_extraction")'
                            + Dual!Count("generation")'
        /\ \A kind \in Dual!Kinds : Dual!Count(kind)' <= Limits[kind]
    BY <1>2 DEF CallsCounted
  <1> QED
    BY <1>4, <1>5, <1>6 DEF CallsCounted

LEMMA SequenceGoesOn ==
    ASSUME DualInv, Dual!CallEnds \/ Dual!NextPhase
    PROVE  DualInv'
  <1>1. /\ UNCHANGED <<batches, reservation, worker, queue, broken, answered, output>>
        /\ reservation /\ output = {} /\ point \in {"embedding_batch", "semantic_extraction"}
    BY DEF Dual!CallEnds, Dual!NextPhase, Dual!InSequence, DualInv, PhasesAgree, InPhase
  <1>2. CASE Dual!CallEnds
    <2> PICK n : n = Dual!Awaited
      OBVIOUS
    <2>1. n \in 1 .. Len(calls)
      BY <1>2 DEF Dual!CallEnds, Dual!Awaited, DualInv, DualTypes
    <2>2. PICK outcome \in {"succeeded", "failed"} :
             /\ calls' = [calls EXCEPT ![n].outcome = outcome]
             /\ UNCHANGED point \/ point' = "over"
      BY <1>2 DEF Dual!CallEnds, Dual!Ended, Dual!Invalid
    <2>3. CallsCounted'
      BY <2>1, <2>2, OutcomeKept DEF DualInv
    <2>4. /\ calls' \in Seq(CallRecords) /\ Len(calls') = Len(calls)
          /\ \A kind : Dual!Count(kind)' = Dual!Count(kind)
      BY <2>1, <2>2, CallEnded DEF DualInv, DualTypes
    <2>5. DualTypes'
      BY <1>1, <2>2, <2>4 DEF DualInv, DualTypes
    <2>6. CASE point' = "over"
      BY <1>1, <2>3, <2>5, <2>6, RunIsOver
    <2>7. CASE UNCHANGED point
      <3>1. PhasesAgree'
        BY <1>1, <2>4, <2>7 DEF DualInv, PhasesAgree, InPhase
      <3> QED
        BY <1>1, <2>3, <2>5, <2>7, <3>1 DEF DualInv, JobsTaken
    <2> QED
      BY <2>2, <2>6, <2>7
  <1>3. CASE Dual!NextPhase
    <2>1. UNCHANGED calls /\ Dual!Count(point) = Dual!Scheduled(point)
      BY <1>3 DEF Dual!NextPhase
    <2>2. (\A kind : Dual!Count(kind)' = Dual!Count(kind)) /\ CallsCounted'
      BY <2>1, CallsStay DEF DualInv
    <2>3. /\ point' \in {"semantic_extraction", "generation", "over"}
          /\ point' = "semantic_extraction" => point = "embedding_batch"
          /\ point' = "generation" => point = "semantic_extraction"
      BY <1>1, <1>3 DEF Dual!NextPhase, Dual!Invalid
    <2>4. DualTypes'
      BY <1>1, <2>1, <2>3 DEF DualInv, DualTypes, InPhase
    <2>5. CASE point' = "over"
      BY <1>1, <2>2, <2>4, <2>5, RunIsOver
    <2>6. CASE point' = "semantic_extraction"
      <3>1. Dual!Count("embedding_batch") = batches
        BY <2>1, <2>3, <2>6 DEF Dual!Scheduled
      <3>2. PhasesAgree'
        BY <1>1, <2>1, <2>2, <2>3, <2>6, <3>1 DEF DualInv, PhasesAgree, InPhase
      <3> QED
        BY <1>1, <2>2, <2>4, <2>6, <3>2 DEF DualInv, JobsTaken
    <2>7. CASE point' = "generation"
      <3>1. Dual!Count("semantic_extraction") = Extractions
        BY <2>1, <2>3, <2>7 DEF Dual!Scheduled
      <3>2. PhasesAgree'
        BY <1>1, <2>1, <2>2, <2>3, <2>7, <3>1 DEF DualInv, PhasesAgree, InPhase
      <3>3. /\ queue = 1 .. Generations /\ answered = {} /\ Dual!Count("generation") = 0
            /\ \A w \in Workers : worker[w] = 0
        BY <2>3, <2>7 DEF DualInv, PhasesAgree
      <3>4. \A i \in DOMAIN calls : calls[i].kind # "generation"
        BY <3>3, Counted DEF DualInv, DualTypes, Of
      <3>5. Cardinality(queue) = Generations
        BY <3>3, FS_Interval, ExperimentBounds DEF ExperimentBounds
      <3>6. JobsTaken'
        BY <1>1, <2>1, <2>2, <3>3, <3>4, <3>5, ExperimentBounds
           DEF JobsTaken, ExperimentBounds
      <3> QED
        BY <1>1, <2>2, <2>4, <2>7, <3>2, <3>6 DEF DualInv
    <2> QED
      BY <2>3, <2>5, <2>6, <2>7
  <1> QED
    BY <1>2, <1>3

LEMMA AnswerTaken ==
    ASSUME DualInv, NEW w \in Workers, Dual!Generated(w) \/ Dual!GenerationFails(w)
    PROVE  DualInv'
  <1> PICK n : n = worker[w]
    OBVIOUS
  <1>1. /\ UNCHANGED <<batches, point, reservation, queue, output>>
        /\ point = "generation" /\ n > 0 /\ worker' = [worker EXCEPT ![w] = 0]
        /\ broken' = broken \/ broken' = TRUE
        /\ answered' = answered \/ answered' = answered \cup {calls[n].job}
    BY DEF Dual!Generated, Dual!GenerationFails
  <1>2. worker \in [Workers -> Int] /\ n \in 1 .. Len(calls) /\ calls \in Seq(CallRecords)
    BY <1>1 DEF DualInv, DualTypes
  <1>3. PICK outcome \in {"succeeded", "failed"} : calls' = [calls EXCEPT ![n].outcome = outcome]
    BY DEF Dual!Generated, Dual!GenerationFails, Dual!Ended
  <1>4. CallsCounted'
    BY <1>2, <1>3, OutcomeKept DEF DualInv
  <1>5. /\ calls' \in Seq(CallRecords) /\ Len(calls') = Len(calls)
        /\ \A i \in DOMAIN calls : calls'[i].kind = calls[i].kind /\ calls'[i].job = calls[i].job
        /\ \A kind : Dual!Count(kind)' = Dual!Count(kind)
    BY <1>2, <1>3, CallEnded
  <1>6. DOMAIN calls' = DOMAIN calls /\ DOMAIN calls = 1 .. Len(calls)
    BY <1>2, <1>5
  <1>7. broken' \in BOOLEAN
    BY <1>1 DEF DualInv, DualTypes
  <1>8. /\ worker' \in [Workers -> Int]
        /\ \A v \in Workers : /\ worker'[v] <= Len(calls')
                              /\ worker'[v] > 0 => worker'[v] = worker[v]
    BY <1>1, <1>2, <1>5 DEF DualInv, DualTypes
  <1>9. DualTypes'
    BY <1>1, <1>5, <1>7, <1>8 DEF DualInv, DualTypes
  <1>10. PhasesAgree'
    BY <1>1, <1>5 DEF DualInv, PhasesAgree, InPhase
  <1>11. JobsTaken'
    <2>1. /\ \A i \in DOMAIN calls : calls[i].kind = "generation" =>
                calls[i].job \in (1 .. Generations) \ queue
          /\ ~broken => Dual!Count("generation") + Cardinality(queue) = Generations
          /\ \A v \in Workers : worker[v] > 0 => calls[worker[v]].kind = "generation"
          /\ \A job \in answered :
                \E i \in DOMAIN calls : calls[i].kind = "generation" /\ calls[i].job = job
      BY <1>1 DEF DualInv, JobsTaken
    <2>2. \A v \in Workers : worker'[v] > 0 => calls'[worker'[v]].kind = "generation"
      <3> SUFFICES ASSUME NEW v \in Workers, worker'[v] > 0
                   PROVE  calls'[worker'[v]].kind = "generation"
        OBVIOUS
      <3>1. worker'[v] = worker[v] /\ worker[v] \in DOMAIN calls
        BY <1>2, <1>5, <1>6, <1>8
      <3> QED
        BY <1>5, <2>1, <3>1
    <2>3. \A i \in DOMAIN calls' : calls'[i].kind = "generation" =>
             calls'[i].job \in (1 .. Generations) \ queue'
      BY <1>1, <1>5, <1>6, <2>1
    <2>4. \A job \in answered' :
             \E i \in DOMAIN calls' : calls'[i].kind = "generation" /\ calls'[i].job = job
      <3>1. n \in DOMAIN calls /\ calls[n].kind = "generation"
        BY <1>1, <1>2, <1>6, <2>1
      <3>2. \A job \in answered' :
               \E i \in DOMAIN calls : calls[i].kind = "generation" /\ calls[i].job = job
        BY <1>1, <2>1, <3>1
      <3> QED
        BY <1>5, <1>6, <3>2
    <2>5. ~broken' => Dual!Count("generation")' + Cardinality(queue') = Generations
      BY <1>1, <1>5, <2>1
    <2> QED
      BY <2>2, <2>3, <2>4, <2>5 DEF JobsTaken
  <1> QED
    BY <1>1, <1>4, <1>9, <1>10, <1>11 DEF DualInv, PhasesAgree, InPhase


LEMMA JobTaken ==
    ASSUME DualInv, NEW w \in Workers, Dual!Take(w)
    PROVE  DualInv'
  <1>1. /\ UNCHANGED <<batches, point, reservation, answered, output>>
        /\ point = "generation" /\ worker[w] = 0 /\ reservation /\ output = {}
    BY DEF Dual!Take, DualInv, PhasesAgree, InPhase
  <1>2. /\ worker \in [Workers -> Int] /\ calls \in Seq(CallRecords)
        /\ \A v \in Workers : worker[v] <= Len(calls)
        /\ queue \subseteq 1 .. Generations /\ broken \in BOOLEAN
    BY DEF DualInv, DualTypes
  <1>3. /\ \A i \in DOMAIN calls : calls[i].kind = "generation" =>
              calls[i].job \in (1 .. Generations) \ queue
        /\ ~broken => Dual!Count("generation") + Cardinality(queue) = Generations
        /\ \A v \in Workers : worker[v] > 0 => calls[worker[v]].kind = "generation"
        /\ \A job \in answered :
              \E i \in DOMAIN calls : calls[i].kind = "generation" /\ calls[i].job = job
    BY <1>1 DEF DualInv, JobsTaken
  <1>4. CASE /\ UNCHANGED <<calls, queue, broken>>
             /\ worker' = [worker EXCEPT ![w] = -1]
    <2>1. (\A kind : Dual!Count(kind)' = Dual!Count(kind)) /\ CallsCounted'
      BY <1>4, CallsStay DEF DualInv
    <2>2. /\ worker' \in [Workers -> Int]
          /\ \A v \in Workers : /\ worker'[v] <= Len(calls')
                                /\ worker'[v] > 0 => worker'[v] = worker[v]
      BY <1>2, <1>4
    <2>3. DualTypes'
      BY <1>1, <1>4, <2>2 DEF DualInv, DualTypes
    <2>4. PhasesAgree'
      BY <1>1, <1>4, <2>1 DEF DualInv, PhasesAgree, InPhase
    <2>5. JobsTaken'
      BY <1>1, <1>3, <1>4, <2>1, <2>2 DEF JobsTaken
    <2> QED
      BY <1>1, <2>1, <2>3, <2>4, <2>5 DEF DualInv
  <1>5. CASE \E job \in queue : /\ queue' = queue \ {job} /\ broken' = TRUE
                                /\ UNCHANGED <<calls, worker>>
    <2>1. (\A kind : Dual!Count(kind)' = Dual!Count(kind)) /\ CallsCounted'
      BY <1>5, CallsStay DEF DualInv
    <2>2. DualTypes'
      BY <1>1, <1>2, <1>5 DEF DualInv, DualTypes
    <2>3. PhasesAgree'
      BY <1>1, <1>5, <2>1 DEF DualInv, PhasesAgree, InPhase
    <2>4. JobsTaken'
      BY <1>1, <1>3, <1>5, <2>1 DEF JobsTaken
    <2> QED
      BY <1>1, <2>1, <2>2, <2>3, <2>4 DEF DualInv
  <1>6. CASE \E job \in queue :
                /\ queue' = queue \ {job} /\ UNCHANGED broken
                /\ Dual!MayStart("generation") /\ Dual!Started("generation", job)
                /\ worker' = [worker EXCEPT ![w] = Len(calls) + 1]
    <2>1. PICK job \in queue :
             /\ queue' = queue \ {job} /\ UNCHANGED broken
             /\ calls' = Append(calls, [kind |-> "generation", job |-> job, outcome |-> "unknown"])
             /\ Dual!Count("generation") < Limits["generation"]
             /\ worker' = [worker EXCEPT ![w] = Len(calls) + 1]
      BY <1>6 DEF Dual!MayStart, Dual!Started
    <2>2. job \in Nat /\ job \in 1 .. Generations /\ "generation" \in Dual!Kinds
      BY <1>2 DEF Dual!Kinds
    <2>3. CallsCounted'
      <3>1. \A i \in DOMAIN calls : calls[i].kind = "generation" => calls[i].job # job
        BY <1>3
      <3> QED
        BY <2>1, <2>2, <3>1, CallAdded DEF DualInv
    <2> PICK n \in Nat : n = Len(calls)
      BY <1>2
    <2>4. /\ calls' \in Seq(CallRecords) /\ Len(calls') = n + 1
          /\ \A i \in 1 .. n : calls'[i] = calls[i]
          /\ calls'[n + 1].kind = "generation" /\ calls'[n + 1].job = job
          /\ \A k : Dual!Count(k)' = IF k = "generation" THEN Dual!Count(k) + 1 ELSE Dual!Count(k)
      BY <1>2, <2>1, <2>2, CallStarted
    <2>5. DOMAIN calls = 1 .. n /\ DOMAIN calls' = 1 .. n + 1
      BY <1>2, <2>4
    <2>6. /\ worker' \in [Workers -> Int]
          /\ \A v \in Workers : worker'[v] <= n + 1
          /\ \A v \in Workers : worker'[v] = worker[v] \/ worker'[v] = n + 1
      BY <1>2, <2>1
    <2>7. DualTypes'
      BY <1>1, <1>2, <2>1, <2>4, <2>6 DEF DualInv, DualTypes
    <2>8. PhasesAgree'
      BY <1>1, <2>4 DEF DualInv, PhasesAgree, InPhase
    <2>9. \A i \in DOMAIN calls' : calls'[i].kind = "generation" =>
             calls'[i].job \in (1 .. Generations) \ queue'
      BY <1>3, <2>1, <2>2, <2>4, <2>5
    <2>10. ~broken' => Dual!Count("generation")' + Cardinality(queue') = Generations
      <3>0. IsFiniteSet(1 .. Generations)
        BY FS_Interval, ExperimentBounds DEF ExperimentBounds
      <3>1. IsFiniteSet(queue)
        BY <1>2, <3>0, FS_Subset
      <3>2. Cardinality(queue') = Cardinality(queue) - 1 /\ Cardinality(queue) \in Nat
        BY <2>1, <3>1, FS_RemoveElement, FS_CardinalityType
      <3>3. /\ Dual!Count("generation")' = Dual!Count("generation") + 1
            /\ Dual!Count("generation") \in Nat
        BY <1>2, <2>4, Counted
      <3> QED
        BY <1>3, <2>1, <3>2, <3>3
    <2>11. \A v \in Workers : worker'[v] > 0 => calls'[worker'[v]].kind = "generation"
      <3> SUFFICES ASSUME NEW v \in Workers, worker'[v] > 0
                   PROVE  calls'[worker'[v]].kind = "generation"
        OBVIOUS
      <3>1. CASE worker'[v] = n + 1
        BY <2>4, <3>1
      <3>2. CASE worker'[v] = worker[v]
        <4>1. worker[v] \in 1 .. n
          BY <1>2, <3>2
        <4> QED
          BY <1>3, <2>4, <3>2, <4>1
      <3> QED
        BY <2>6, <3>1, <3>2
    <2>12. \A j \in answered' :
              \E i \in DOMAIN calls' : calls'[i].kind = "generation" /\ calls'[i].job = j
      BY <1>1, <1>3, <2>4, <2>5
    <2>13. JobsTaken'
      BY <2>9, <2>10, <2>11, <2>12 DEF JobsTaken
    <2> QED
      BY <1>1, <2>3, <2>7, <2>8, <2>13 DEF DualInv
  <1> QED
    BY <1>4, <1>5, <1>6 DEF Dual!Take

LEMMA WorkersJoined ==
    ASSUME DualInv, Dual!Gather
    PROVE  DualInv'
  <1>1. /\ UNCHANGED <<batches, reservation, calls, worker, queue, broken, answered, output>>
        /\ point = "generation" /\ reservation /\ output = {}
    BY DEF Dual!Gather, DualInv, PhasesAgree, InPhase
  <1>2. CallsCounted'
    BY <1>1, CallsStay DEF DualInv
  <1>3. point' \in {"write", "over"}
    BY DEF Dual!Gather, Dual!Invalid
  <1>4. DualTypes'
    BY <1>1, <1>3 DEF DualInv, DualTypes
  <1>5. CASE point' = "over"
    BY <1>1, <1>2, <1>4, <1>5, RunIsOver
  <1>6. CASE point' = "write"
    <2>1. /\ ~broken /\ answered = 1 .. Generations
          /\ Dual!WithOutcome("failed") = 0 /\ Dual!WithOutcome("unknown") = 0
      BY <1>6 DEF Dual!Gather, Dual!Invalid, Dual!summary
    <2>2. \A outcome : Dual!WithOutcome(outcome) = 0 =>
             \A i \in DOMAIN calls : calls[i].outcome # outcome
      <3> SUFFICES ASSUME NEW outcome, Dual!WithOutcome(outcome) = 0
                   PROVE  \A i \in DOMAIN calls : calls[i].outcome # outcome
        OBVIOUS
      <3> DEFINE S == {i \in DOMAIN calls : calls[i].outcome = outcome}
      <3>1. IsFiniteSet(DOMAIN calls)
        BY FS_Interval DEF DualInv, DualTypes
      <3>2. IsFiniteSet(S)
        BY <3>1, FS_Subset
      <3>3. Cardinality(S) = 0
        BY DEF Dual!WithOutcome, Dual!Cardinality, Cardinality
      <3>4. S = {}
        BY <3>2, <3>3, FS_EmptySet
      <3> QED
        BY <3>4
    <2>3. \A i \in DOMAIN calls : calls[i].outcome = "succeeded"
      <3>1. \A i \in DOMAIN calls : calls[i] \in CallRecords
        BY DEF DualInv, DualTypes
      <3>2. \A i \in DOMAIN calls : calls[i].outcome \in {"unknown", "succeeded", "failed"}
        BY <3>1 DEF CallRecords
      <3> QED
        BY <2>1, <2>2, <3>2
    <2>4. queue = {}
      <3>1. queue \subseteq answered
        BY <2>1 DEF DualInv, DualTypes
      <3>2. \A job \in answered : job \notin queue
        BY <1>1 DEF DualInv, JobsTaken
      <3> QED
        BY <3>1, <3>2
    <2>5. Dual!Count("generation") = Generations
      <3>1. Cardinality(queue) = 0
        BY <2>4, FS_EmptySet
      <3>2. Dual!Count("generation") + Cardinality(queue) = Generations
        BY <1>1, <2>1 DEF DualInv, JobsTaken
      <3>3. Dual!Count("generation") \in Nat
        BY Counted DEF DualInv, DualTypes
      <3> QED
        BY <3>1, <3>2, <3>3
    <2>6. Len(calls) = batches + Extractions + Generations
      BY <1>1, <2>5 DEF DualInv, CallsCounted, PhasesAgree
    <2>7. WholeRun'
      BY <1>1, <2>1, <2>3, <2>6 DEF WholeRun
    <2> QED
      BY <1>1, <1>2, <1>4, <1>6, <2>7 DEF DualInv, PhasesAgree, JobsTaken, InPhase
  <1> QED
    BY <1>3, <1>5, <1>6

LEMMA RunEnds ==
    ASSUME DualInv, Dual!WriteFile \/ Dual!WriteState \/ Dual!Interrupt \/ Dual!Crash
    PROVE  DualInv'
  <1>1. UNCHANGED <<batches, reservation, calls, queue, broken, answered>>
    BY DEF Dual!WriteFile, Dual!WriteState, Dual!Interrupt, Dual!Crash
  <1>2. /\ point \in {"verify", "write"} \cup InPhase /\ reservation
        /\ point' \in {"write", "over", "start"}
    BY DEF Dual!WriteFile, Dual!WriteState, Dual!Interrupt, Dual!Crash, Dual!InSequence,
           Dual!Invalid, InPhase, DualInv, DualTypes, PhasesAgree
  <1>3. worker' \in [Workers -> Int] /\ \A w \in Workers : worker'[w] <= Len(calls)
    <2>1. /\ worker \in [Workers -> Int] /\ \A w \in Workers : worker[w] <= Len(calls)
          /\ Len(calls) \in Nat
      BY DEF DualInv, DualTypes
    <2>2. \/ UNCHANGED worker \/ worker' = [w \in Workers |-> -1]
          \/ worker' = [w \in Workers |-> IF point = "generation" THEN -1 ELSE worker[w]]
      BY DEF Dual!WriteFile, Dual!WriteState, Dual!Interrupt, Dual!Crash
    <2> QED
      BY <2>1, <2>2
  <1>4. CallsCounted'
    BY <1>1, CallsStay DEF DualInv
  <1>5. DualTypes'
    BY <1>1, <1>2, <1>3 DEF DualInv, DualTypes
  <1>6. point' = "write" => point = "write"
    BY DEF Dual!WriteFile, Dual!WriteState, Dual!Interrupt, Dual!Crash, Dual!Invalid
  <1>7. point = "write" \/ UNCHANGED output
    BY DEF Dual!WriteFile, Dual!WriteState, Dual!Interrupt, Dual!Crash
  <1>8. point' = "write" \/ output' # {} => WholeRun'
    BY <1>1, <1>6, <1>7 DEF DualInv, WholeRun
  <1>9. reservation'
    BY <1>1, <1>2
  <1> QED
    BY <1>2, <1>4, <1>5, <1>8, <1>9 DEF DualInv, PhasesAgree, JobsTaken, InPhase

LEMMA DualNext ==
    ASSUME DualInv, [Dual!Next]_dualVars
    PROVE  DualInv'
  <1>1. CASE UNCHANGED dualVars
    <2>1. UNCHANGED <<batches, point, reservation, calls, worker, queue, broken, answered, output>>
      BY <1>1 DEF dualVars
    <2>2. (\A kind : Dual!Count(kind)' = Dual!Count(kind)) /\ CallsCounted'
      BY <2>1, CallsStay DEF DualInv
    <2> QED
      BY <2>1, <2>2 DEF DualInv, DualTypes, PhasesAgree, JobsTaken, WholeRun
  <1> QED
    BY <1>1, ReserveStep, CallBegins, SequenceGoesOn, JobTaken, AnswerTaken, WorkersJoined, RunEnds
       DEF Dual!Next

LEMMA DualBegins == ASSUME Dual!Init PROVE DualInv
  <1>1. /\ batches \in 1 .. MaxBatches /\ point = "start" /\ reservation = FALSE /\ calls = <<>>
        /\ worker = [w \in Workers |-> 0] /\ queue = 1 .. Generations /\ broken = FALSE
        /\ answered = {} /\ output = {}
    BY DEF Dual!Init
  <1>2. calls \in Seq(CallRecords) /\ Len(calls) = 0 /\ DOMAIN calls = {}
    BY <1>1
  <1>3. \A kind : Dual!Count(kind) = 0
    BY <1>1, <1>2, Counted
  <1>4. DualTypes
    <2>1. batches \in Nat
      BY <1>1, ExperimentBounds DEF ExperimentBounds
    <2>2. reservation \in BOOLEAN /\ broken \in BOOLEAN
      BY <1>1, Zenon
    <2>3. worker \in [Workers -> Int] /\ \A w \in Workers : worker[w] <= Len(calls)
      BY <1>1, <1>2
    <2> QED
      BY <1>1, <1>2, <2>1, <2>2, <2>3 DEF DualTypes
  <1>5. CallsCounted
    BY <1>2, <1>3, ExperimentBounds DEF ExperimentBounds, CallsCounted, Dual!Kinds
  <1>6. PhasesAgree
    BY <1>1, <1>3 DEF PhasesAgree, InPhase
  <1> QED
    BY <1>1, <1>4, <1>5, <1>6 DEF DualInv, JobsTaken

\* However the workers interleave and wherever the run dies or is cut off, no job is called twice
\* and no limit passed, and what is published rests on a whole schedule of calls that succeeded.
THEOREM PublishedRunsAreWhole == PaidSpec => []CompleteIsWhole
<1> DEFINE Inv == part = "dual" => DualInv
<1>1. part \in PaidParts /\ PaidInit => Inv
  BY DualBegins DEF PaidInit
<1>2. Inv /\ [PaidNext]_paidVars => Inv'
  BY DualNext, Continues
<1>3. Inv => CompleteIsWhole
  BY DEF DualInv, CallsCounted, WholeRun, CompleteIsWhole, Dual!CompleteIsWhole
<1> QED
  BY <1>1, <1>2, <1>3, PTL DEF PaidSpec

----------------------------------------------------------------------------
(* The attempts of the long-context experiment: the guards and the runner.  *)

AttemptOutcomes ==
    Attempts!Eligible \cup {"reserved", "answered", "other_failure", "invalid_response"}

AttemptRecords ==
    [phase : Attempts!Phases, step : Steps, arm : Attempts!Arms, outcome : AttemptOutcomes,
     ordinal : {1, 2}]

AttemptTypes ==
    /\ records \in Seq(AttemptRecords) /\ rows = records
    /\ running \in {"idle", "reserved", "sent", "over"}

IdOf(i) == Attempts!attempt_id(records[i])
SameCell(i, j) ==
    /\ records[i].phase = records[j].phase /\ records[i].step = records[j].step
    /\ records[i].arm = records[j].arm

\* No two records have one id, and nothing is sent or received that has none.
AttemptsKnown ==
    /\ \A i, j \in DOMAIN records : IdOf(i) = IdOf(j) => i = j
    /\ \A id \in dispatched : \E i \in DOMAIN records : id = IdOf(i)
    /\ received \subseteq dispatched

\* Nothing of a response arrived for the open attempt, and for none that may be repeated.
Unheard ==
    /\ running \in {"reserved", "sent"} =>
          /\ records # <<>> /\ records[Len(records)].outcome = "reserved"
          /\ IdOf(Len(records)) \notin received
    /\ running = "sent" => IdOf(Len(records)) \in dispatched
    /\ \A i \in DOMAIN records :
          records[i].outcome \in Attempts!Eligible => IdOf(i) \in dispatched \ received

\* A second attempt follows a first one that may be repeated.
RetriesFollow ==
    \A i \in DOMAIN records : records[i].ordinal = 2 =>
        /\ records[i].phase = "confirmatory"
        /\ \E j \in DOMAIN records : /\ SameCell(i, j) /\ records[j].ordinal = 1
                                     /\ records[j].outcome \in Attempts!Eligible

WithinCaps ==
    /\ Attempts!Cost(Attempts!Phases) <= CumulativeCap
    /\ Attempts!Cost({"development"}) <= PhaseLimits["development"].cost
    /\ sample # Attempts!NoSample =>
          sample \in DOMAIN FirstAttempts /\ Attempts!Cost({"confirmatory"}) <= PhaseLimits[sample].cost

DispatchInv == AttemptTypes /\ AttemptsKnown /\ Unheard /\ RetriesFollow /\ WithinCaps

(* The costs are folds.                                                     *)
AllCosts == INSTANCE Folding WITH
    Op <- LAMBDA sum, r : IF r.phase \in Attempts!Phases THEN sum + ArmCost[r.arm] ELSE sum,
    Base <- 0, Weight <- LAMBDA x : 0

DevelopmentCosts == INSTANCE Folding WITH
    Op <- LAMBDA sum, r : IF r.phase \in {"development"} THEN sum + ArmCost[r.arm] ELSE sum,
    Base <- 0, Weight <- LAMBDA x : 0

ConfirmatoryCosts == INSTANCE Folding WITH
    Op <- LAMBDA sum, r : IF r.phase \in {"confirmatory"} THEN sum + ArmCost[r.arm] ELSE sum,
    Base <- 0, Weight <- LAMBDA x : 0

LEMMA CostsAreFolds ==
    /\ AllCosts!Fold(records) = Attempts!Cost(Attempts!Phases)
    /\ DevelopmentCosts!Fold(records) = Attempts!Cost({"development"})
    /\ ConfirmatoryCosts!Fold(records) = Attempts!Cost({"confirmatory"})
  <1>1. AllCosts!Fold(records) = Attempts!Cost(Attempts!Phases)
    BY Zenon DEF AllCosts!Fold, AllCosts!FoldLeft, AllCosts!MapThenFoldSet, AllCosts!Max,
      Attempts!Cost, Attempts!FoldLeft, Attempts!MapThenFoldSet, Attempts!Max
  <1>2. DevelopmentCosts!Fold(records) = Attempts!Cost({"development"})
    BY Zenon DEF DevelopmentCosts!Fold, DevelopmentCosts!FoldLeft, DevelopmentCosts!MapThenFoldSet, DevelopmentCosts!Max,
      Attempts!Cost, Attempts!FoldLeft, Attempts!MapThenFoldSet, Attempts!Max
  <1>3. ConfirmatoryCosts!Fold(records) = Attempts!Cost({"confirmatory"})
    BY Zenon DEF ConfirmatoryCosts!Fold, ConfirmatoryCosts!FoldLeft, ConfirmatoryCosts!MapThenFoldSet, ConfirmatoryCosts!Max,
      Attempts!Cost, Attempts!FoldLeft, Attempts!MapThenFoldSet, Attempts!Max
  <1> QED
    BY <1>1, <1>2, <1>3

LEMMA CostsAreNumbers ==
    ASSUME AttemptTypes
    PROVE  /\ Attempts!Cost(Attempts!Phases) \in Nat
           /\ Attempts!Cost({"development"}) \in Nat /\ Attempts!Cost({"confirmatory"}) \in Nat
  <1> DEFINE S == AttemptRecords
  <1>1. \A r \in S : ArmCost[r.arm] \in Nat
    BY ExperimentBounds DEF AttemptRecords, Attempts!Arms
  <1>2. records \in Seq(S) /\ 0 \in Nat
    BY DEF AttemptTypes
  <1> HIDE DEF S
  <1>3. AllCosts!Fold(records) \in Nat
    <2>1. \A sum \in Nat, r \in S :
             (IF r.phase \in Attempts!Phases THEN sum + ArmCost[r.arm] ELSE sum) \in Nat
      BY <1>1
    <2> QED
      BY <1>2, <2>1, AllCosts!FoldWithin
  <1>4. DevelopmentCosts!Fold(records) \in Nat
    <2>1. \A sum \in Nat, r \in S :
             (IF r.phase \in {"development"} THEN sum + ArmCost[r.arm] ELSE sum) \in Nat
      BY <1>1
    <2> QED
      BY <1>2, <2>1, DevelopmentCosts!FoldWithin
  <1>5. ConfirmatoryCosts!Fold(records) \in Nat
    <2>1. \A sum \in Nat, r \in S :
             (IF r.phase \in {"confirmatory"} THEN sum + ArmCost[r.arm] ELSE sum) \in Nat
      BY <1>1
    <2> QED
      BY <1>2, <2>1, ConfirmatoryCosts!FoldWithin
  <1> QED
    BY <1>3, <1>4, <1>5, CostsAreFolds

LEMMA CostsStayFolds ==
    /\ AllCosts!Fold(records') = Attempts!Cost(Attempts!Phases)'
    /\ DevelopmentCosts!Fold(records') = Attempts!Cost({"development"})'
    /\ ConfirmatoryCosts!Fold(records') = Attempts!Cost({"confirmatory"})'
  <1>1. (/\ AllCosts!Fold(records) = Attempts!Cost(Attempts!Phases)
       /\ DevelopmentCosts!Fold(records) = Attempts!Cost({"development"})
       /\ ConfirmatoryCosts!Fold(records) = Attempts!Cost({"confirmatory"}))'
    BY CostsAreFolds, PTL
  <1> QED
    BY <1>1

LEMMA CostsAppend ==
    ASSUME AttemptTypes, NEW r \in AttemptRecords, records' = Append(records, r)
    PROVE  /\ Attempts!Cost(Attempts!Phases)' =
              IF r.phase \in Attempts!Phases THEN Attempts!Cost(Attempts!Phases) + ArmCost[r.arm] ELSE Attempts!Cost(Attempts!Phases)
           /\ Attempts!Cost({"development"})' =
              IF r.phase \in {"development"} THEN Attempts!Cost({"development"}) + ArmCost[r.arm] ELSE Attempts!Cost({"development"})
           /\ Attempts!Cost({"confirmatory"})' =
              IF r.phase \in {"confirmatory"} THEN Attempts!Cost({"confirmatory"}) + ArmCost[r.arm] ELSE Attempts!Cost({"confirmatory"})
  <1>1. AllCosts!Fold(Append(records, r)) =
          IF r.phase \in Attempts!Phases THEN AllCosts!Fold(records) + ArmCost[r.arm] ELSE AllCosts!Fold(records)
    BY AllCosts!FoldAppend DEF AttemptTypes
  <1>2. DevelopmentCosts!Fold(Append(records, r)) =
          IF r.phase \in {"development"} THEN DevelopmentCosts!Fold(records) + ArmCost[r.arm] ELSE DevelopmentCosts!Fold(records)
    BY DevelopmentCosts!FoldAppend DEF AttemptTypes
  <1>3. ConfirmatoryCosts!Fold(Append(records, r)) =
          IF r.phase \in {"confirmatory"} THEN ConfirmatoryCosts!Fold(records) + ArmCost[r.arm] ELSE ConfirmatoryCosts!Fold(records)
    BY ConfirmatoryCosts!FoldAppend DEF AttemptTypes
  <1>4. /\ Attempts!Cost(Attempts!Phases)' = AllCosts!Fold(records')
        /\ Attempts!Cost({"development"})' = DevelopmentCosts!Fold(records')
        /\ Attempts!Cost({"confirmatory"})' = ConfirmatoryCosts!Fold(records')
    BY CostsStayFolds
  <1> QED
    BY <1>1, <1>2, <1>3, <1>4, CostsAreFolds

(* An outcome costs nothing.                                                *)
LEMMA CostsOfOutcome ==
    ASSUME AttemptTypes, records # <<>>, NEW o \in AttemptOutcomes,
           records' = [records EXCEPT ![Len(records)].outcome = o]
    PROVE  /\ Attempts!Cost(Attempts!Phases)' = Attempts!Cost(Attempts!Phases)
           /\ Attempts!Cost({"development"})' = Attempts!Cost({"development"})
           /\ Attempts!Cost({"confirmatory"})' = Attempts!Cost({"confirmatory"})
  <1> DEFINE S == AttemptRecords  front == SubSeq(records, 1, Len(records) - 1)
             r == records[Len(records)]  q == [r EXCEPT !.outcome = o]
  <1>1. records \in Seq(S) /\ Len(records) \in 1 .. Len(records)
    BY DEF AttemptTypes
  <1>2. r \in S /\ front \in Seq(S) /\ records = Append(front, r)
    BY <1>1
  <1>3. q \in S /\ q.phase = r.phase /\ q.arm = r.arm
    BY <1>2 DEF AttemptRecords
  <1>4. records' = Append(front, q)
    BY <1>1, <1>2
  <1> HIDE DEF S, front, r, q
  <1>5. AllCosts!Fold(Append(front, q)) = AllCosts!Fold(Append(front, r))
    <2>1. AllCosts!Fold(Append(front, q)) =
            IF q.phase \in Attempts!Phases THEN AllCosts!Fold(front) + ArmCost[q.arm] ELSE AllCosts!Fold(front)
      BY <1>2, <1>3, AllCosts!FoldAppend
    <2>2. AllCosts!Fold(Append(front, r)) =
            IF r.phase \in Attempts!Phases THEN AllCosts!Fold(front) + ArmCost[r.arm] ELSE AllCosts!Fold(front)
      BY <1>2, AllCosts!FoldAppend
    <2> QED
      BY <2>1, <2>2, <1>3
  <1>6. DevelopmentCosts!Fold(Append(front, q)) = DevelopmentCosts!Fold(Append(front, r))
    <2>1. DevelopmentCosts!Fold(Append(front, q)) =
            IF q.phase \in {"development"} THEN DevelopmentCosts!Fold(front) + ArmCost[q.arm] ELSE DevelopmentCosts!Fold(front)
      BY <1>2, <1>3, DevelopmentCosts!FoldAppend
    <2>2. DevelopmentCosts!Fold(Append(front, r)) =
            IF r.phase \in {"development"} THEN DevelopmentCosts!Fold(front) + ArmCost[r.arm] ELSE DevelopmentCosts!Fold(front)
      BY <1>2, DevelopmentCosts!FoldAppend
    <2> QED
      BY <2>1, <2>2, <1>3
  <1>7. ConfirmatoryCosts!Fold(Append(front, q)) = ConfirmatoryCosts!Fold(Append(front, r))
    <2>1. ConfirmatoryCosts!Fold(Append(front, q)) =
            IF q.phase \in {"confirmatory"} THEN ConfirmatoryCosts!Fold(front) + ArmCost[q.arm] ELSE ConfirmatoryCosts!Fold(front)
      BY <1>2, <1>3, ConfirmatoryCosts!FoldAppend
    <2>2. ConfirmatoryCosts!Fold(Append(front, r)) =
            IF r.phase \in {"confirmatory"} THEN ConfirmatoryCosts!Fold(front) + ArmCost[r.arm] ELSE ConfirmatoryCosts!Fold(front)
      BY <1>2, ConfirmatoryCosts!FoldAppend
    <2> QED
      BY <2>1, <2>2, <1>3
  <1>8. /\ Attempts!Cost(Attempts!Phases)' = AllCosts!Fold(records')
        /\ Attempts!Cost({"development"})' = DevelopmentCosts!Fold(records')
        /\ Attempts!Cost({"confirmatory"})' = ConfirmatoryCosts!Fold(records')
    BY CostsStayFolds
  <1> QED
    BY <1>2, <1>4, <1>5, <1>6, <1>7, <1>8, CostsAreFolds

(* A phase without records costs nothing.                                   *)
LEMMA CostOfNone ==
    ASSUME AttemptTypes, \A i \in DOMAIN records : records[i].phase # "confirmatory"
    PROVE  Attempts!Cost({"confirmatory"}) = 0
  <1> DEFINE S == {r \in AttemptRecords : r.phase # "confirmatory"}
  <1>1. records \in Seq(S)
    BY DEF AttemptTypes
  <1>2. \A sum \in {0}, r \in S :
           (IF r.phase \in {"confirmatory"} THEN sum + ArmCost[r.arm] ELSE sum) \in {0}
    OBVIOUS
  <1>3. ConfirmatoryCosts!Fold(records) \in {0}
    <2> HIDE DEF S
    <2> QED
      BY <1>1, <1>2, ConfirmatoryCosts!FoldWithin
  <1> QED
    BY <1>3, CostsAreFolds


LEMMA AttemptsStart == Attempts!Init => DispatchInv
  <1> SUFFICES ASSUME Attempts!Init PROVE DispatchInv
    OBVIOUS
  <1>1. /\ records = <<>> /\ rows = <<>> /\ sample = Attempts!NoSample /\ running = "idle"
        /\ dispatched = {} /\ received = {}
    BY DEF Attempts!Init
  <1>2. AttemptTypes
    BY <1>1 DEF AttemptTypes
  <1>3. AllCosts!Fold(<<>>) = 0 /\ DevelopmentCosts!Fold(<<>>) = 0
    BY AllCosts!FoldEmpty, DevelopmentCosts!FoldEmpty
  <1>4. WithinCaps
    BY <1>1, <1>3, CostsAreFolds, ExperimentBounds DEF WithinCaps
  <1>5. AttemptsKnown /\ Unheard /\ RetriesFollow
    BY <1>1 DEF AttemptsKnown, Unheard, RetriesFollow
  <1> QED
    BY <1>2, <1>4, <1>5 DEF DispatchInv

LEMMA AttemptsStay == DispatchInv /\ UNCHANGED attemptVars => DispatchInv'
  <1> SUFFICES ASSUME DispatchInv, UNCHANGED attemptVars PROVE DispatchInv'
    OBVIOUS
  <1>1. UNCHANGED <<records, sample, running, rows, dispatched, received>>
    BY DEF attemptVars
  <1>2. /\ Attempts!Cost(Attempts!Phases)' = Attempts!Cost(Attempts!Phases)
        /\ Attempts!Cost({"development"})' = Attempts!Cost({"development"})
        /\ Attempts!Cost({"confirmatory"})' = Attempts!Cost({"confirmatory"})
    BY <1>1, CostsAreFolds, CostsStayFolds
  <1>3. \A i : IdOf(i)' = IdOf(i)
    BY <1>1 DEF IdOf, Attempts!attempt_id
  <1>4. WithinCaps'
    BY <1>1, <1>2 DEF DispatchInv, WithinCaps
  <1> QED
    BY <1>1, <1>3, <1>4 DEF DispatchInv, AttemptTypes, AttemptsKnown, Unheard, RetriesFollow, SameCell

(* The records stay, and with them what they cost.                          *)
LEMMA RecordsStay ==
    ASSUME UNCHANGED records
    PROVE  /\ Attempts!Cost(Attempts!Phases)' = Attempts!Cost(Attempts!Phases)
           /\ Attempts!Cost({"development"})' = Attempts!Cost({"development"})
           /\ Attempts!Cost({"confirmatory"})' = Attempts!Cost({"confirmatory"})
           /\ \A i : IdOf(i)' = IdOf(i)
  BY CostsAreFolds, CostsStayFolds DEF IdOf, Attempts!attempt_id

LEMMA FreezeKeeps ==
    ASSUME DispatchInv, NEW n \in Attempts!Samples, Attempts!Freeze(n) PROVE DispatchInv'
  <1>1. /\ sample' = n /\ UNCHANGED <<records, running, rows, dispatched, received>>
        /\ \A i \in DOMAIN records : records[i].phase # "confirmatory"
    BY DEF Attempts!Freeze, Attempts!PhaseRecords
  <1>2. Attempts!Cost({"confirmatory"})' = 0
    BY <1>1, CostOfNone, RecordsStay DEF DispatchInv
  <1>3. PhaseLimits[n].cost \in Nat /\ n \in DOMAIN FirstAttempts
    BY ExperimentBounds DEF Attempts!Samples
  <1>4. WithinCaps'
    BY <1>1, <1>2, <1>3, RecordsStay DEF DispatchInv, WithinCaps
  <1> QED
    BY <1>1, <1>4, RecordsStay
    DEF DispatchInv, AttemptTypes, AttemptsKnown, Unheard, RetriesFollow, SameCell

LEMMA AttemptsCount == \A S : Attempts!Cardinality(S) = Cardinality(S)
  BY DEF Attempts!Cardinality, Cardinality, Attempts!IsFiniteSet, IsFiniteSet

(* What the guards let through: the first attempt of a cell, or the second  *)
(* after one that may be repeated.                                          *)
LEMMA Reserves ==
    ASSUME DispatchInv, NEW p \in Attempts!Phases, NEW s \in Steps, NEW a \in Attempts!Arms,
           Attempts!Reserve(p, s, a)
    PROVE  \E r \in AttemptRecords :
             /\ records' = Append(records, r) /\ rows' = records'
             /\ r.phase = p /\ r.step = s /\ r.arm = a /\ r.outcome = "reserved"
             /\ \A i \in DOMAIN records : IdOf(i) # Attempts!attempt_id(r)
             /\ r.ordinal = 2 =>
                  /\ p = "confirmatory"
                  /\ \E j \in DOMAIN records :
                       /\ records[j].phase = p /\ records[j].step = s /\ records[j].arm = a
                       /\ records[j].ordinal = 1 /\ records[j].outcome \in Attempts!Eligible
  <1> DEFINE c == Attempts!Cell(p, s, a)
             r == [phase |-> p, step |-> s, arm |-> a, outcome |-> "reserved",
                   ordinal |-> Attempts!Cardinality(c) + 1]
  <1>1. /\ records' = Append(records, r) /\ rows' = records'
        /\ c = {} \/ \E first \in c : c = {first} /\ Attempts!retry_is_eligible(records[first])
    BY DEF Attempts!Reserve, Attempts!MayDispatch
  <1>2. \A i \in DOMAIN records :
           i \in c <=> records[i].phase = p /\ records[i].step = s /\ records[i].arm = a
    BY DEF Attempts!Cell, Attempts!PhaseRecords
  <1>3. \A i \in c : i \in DOMAIN records
    BY DEF Attempts!Cell, Attempts!PhaseRecords
  <1>4. CASE c = {}
    <2>1. Attempts!Cardinality(c) = 0
      BY <1>4, FS_EmptySet, AttemptsCount
    <2> HIDE DEF c
    <2>2. r \in AttemptRecords /\ r.ordinal = 1
      BY <2>1 DEF AttemptRecords, AttemptOutcomes
    <2>3. \A i \in DOMAIN records : IdOf(i) # Attempts!attempt_id(r)
      BY <1>2, <1>4 DEF IdOf, Attempts!attempt_id
    <2> QED
      BY <1>1, <2>2, <2>3 DEF r
  <1>5. ASSUME NEW first \in c, c = {first}, Attempts!retry_is_eligible(records[first])
        PROVE  /\ r \in AttemptRecords /\ r.ordinal = 2
               /\ \A i \in DOMAIN records : IdOf(i) # Attempts!attempt_id(r)
               /\ p = "confirmatory"
               /\ \E j \in DOMAIN records :
                    /\ records[j].phase = p /\ records[j].step = s /\ records[j].arm = a
                    /\ records[j].ordinal = 1 /\ records[j].outcome \in Attempts!Eligible
    <2>1. Attempts!Cardinality(c) = 1
      BY <1>5, FS_Singleton, AttemptsCount
    <2>2. /\ first \in DOMAIN records /\ records[first].phase = p
          /\ records[first].step = s /\ records[first].arm = a
          /\ p = "confirmatory" /\ records[first].ordinal = 1
          /\ records[first].outcome \in Attempts!Eligible
      BY <1>2, <1>3, <1>5 DEF Attempts!retry_is_eligible
    <2> HIDE DEF c
    <2>3. r \in AttemptRecords /\ r.ordinal = 2
      BY <2>1 DEF AttemptRecords, AttemptOutcomes
    <2>4. \A i \in DOMAIN records : IdOf(i) # Attempts!attempt_id(r)
      BY <1>2, <1>5, <2>1, <2>2 DEF IdOf, Attempts!attempt_id
    <2> QED
      BY <2>2, <2>3, <2>4
  <1> HIDE DEF r, c
  <1>6. r.phase = p /\ r.step = s /\ r.arm = a /\ r.outcome = "reserved"
    BY DEF r
  <1> QED
    BY <1>1, <1>4, <1>5, <1>6

LEMMA ReserveKeeps ==
    ASSUME DispatchInv, NEW p \in Attempts!Phases, NEW s \in Steps, NEW a \in Attempts!Arms,
           Attempts!Reserve(p, s, a)
    PROVE  DispatchInv'
  <1> PICK r \in AttemptRecords :
             /\ records' = Append(records, r) /\ rows' = records'
             /\ r.phase = p /\ r.step = s /\ r.arm = a /\ r.outcome = "reserved"
             /\ \A i \in DOMAIN records : IdOf(i) # Attempts!attempt_id(r)
             /\ r.ordinal = 2 =>
                  /\ p = "confirmatory"
                  /\ \E j \in DOMAIN records :
                       /\ records[j].phase = p /\ records[j].step = s /\ records[j].arm = a
                       /\ records[j].ordinal = 1 /\ records[j].outcome \in Attempts!Eligible
    BY Reserves
  <1>0. Len(records) \in Nat
    BY DEF DispatchInv, AttemptTypes
  <1> PICK n \in Nat : n = Len(records)
    BY <1>0
  <1>1. /\ running' = "reserved" /\ UNCHANGED <<sample, dispatched, received>>
        /\ Attempts!Fits(p, a) /\ (p = "confirmatory" => sample \in DOMAIN FirstAttempts)
    BY DEF Attempts!Reserve, Attempts!MayDispatch, Attempts!Samples
  <1>2. /\ n \in Nat /\ DOMAIN records = 1 .. n /\ DOMAIN records' = 1 .. n + 1
        /\ \A i \in 1 .. n : records'[i] = records[i] /\ records'[n + 1] = r
        /\ records'[n + 1] = r /\ Len(records') = n + 1 /\ records' # <<>>
    BY DEF DispatchInv, AttemptTypes
  <1>3. AttemptTypes'
    BY <1>1 DEF DispatchInv, AttemptTypes
  <1>4. /\ \A i \in 1 .. n : IdOf(i)' = IdOf(i)
        /\ IdOf(n + 1)' = Attempts!attempt_id(r)
    BY <1>2 DEF IdOf, Attempts!attempt_id
  <1>5. Attempts!attempt_id(r) \notin dispatched /\ Attempts!attempt_id(r) \notin received
    BY DEF DispatchInv, AttemptsKnown
  <1>6. AttemptsKnown'
    <2>1. \A i \in 1 .. n + 1 : i \in 1 .. n \/ i = n + 1
      BY <1>2
    <2>2. \A i, j \in 1 .. n + 1 : IdOf(i)' = IdOf(j)' => i = j
      BY <2>1, <1>2, <1>4 DEF DispatchInv, AttemptsKnown
    <2>3. \A id \in dispatched : \E i \in 1 .. n + 1 : id = IdOf(i)'
      <3>1. \A i \in 1 .. n : i \in 1 .. n + 1
        BY <1>2
      <3> QED
        BY <3>1, <1>2, <1>4 DEF DispatchInv, AttemptsKnown
    <2> QED
      BY <1>1, <1>2, <2>2, <2>3 DEF DispatchInv, AttemptsKnown
  <1>7. Unheard'
    <2>1. ASSUME NEW i \in 1 .. n + 1, records'[i].outcome \in Attempts!Eligible
          PROVE  IdOf(i)' \in dispatched \ received
      <3>1. i # n + 1
        BY <2>1, <1>2 DEF Attempts!Eligible
      <3>2. i \in 1 .. n
        BY <3>1, <1>2
      <3> QED
        BY <2>1, <3>2, <1>2, <1>4 DEF DispatchInv, Unheard
    <2>2. n + 1 = Len(records')
      BY <1>2
    <2> QED
      BY <1>1, <1>2, <1>4, <1>5, <2>1, <2>2 DEF Unheard
  <1>8. RetriesFollow'
    <2> SUFFICES ASSUME NEW i \in 1 .. n + 1, records'[i].ordinal = 2
                 PROVE  /\ records'[i].phase = "confirmatory"
                        /\ \E j \in 1 .. n + 1 :
                              /\ SameCell(i, j)' /\ records'[j].ordinal = 1
                              /\ records'[j].outcome \in Attempts!Eligible
      BY <1>2 DEF RetriesFollow
    <2>1. \A j \in 1 .. n : j \in 1 .. n + 1
      BY <1>2
    <2>2. CASE i = n + 1
      <3>1. records'[i] = r
        BY <2>2, <1>2
      <3>2. PICK j \in 1 .. n :
              /\ records[j].phase = p /\ records[j].step = s /\ records[j].arm = a
              /\ records[j].ordinal = 1 /\ records[j].outcome \in Attempts!Eligible
        BY <3>1, <1>2
      <3> QED
        BY <3>1, <3>2, <2>1, <1>2 DEF SameCell
    <2>3. CASE i \in 1 .. n
      <3>1. records'[i] = records[i]
        BY <2>3, <1>2
      <3>2. records[i].phase = "confirmatory" /\ \E j \in 1 .. n :
              /\ SameCell(i, j) /\ records[j].ordinal = 1
              /\ records[j].outcome \in Attempts!Eligible
        BY <3>1, <2>3, <1>2 DEF DispatchInv, RetriesFollow
      <3> QED
        BY <3>1, <3>2, <2>1, <1>2 DEF SameCell
    <2> QED
      BY <1>2, <2>2, <2>3
  <1>9. WithinCaps'
    <2>1. AttemptTypes /\ WithinCaps
      BY DEF DispatchInv
    <2>2. /\ Attempts!Cost({p}) + ArmCost[a] <= Attempts!LimitsOf(p).cost
          /\ Attempts!Cost(Attempts!Phases) + ArmCost[a] <= CumulativeCap
      BY <1>1 DEF Attempts!Fits
    <2>3. p \in {"development", "confirmatory"}
      BY DEF Attempts!Phases
    <2>4. CASE p = "development"
      <3>1. /\ Attempts!Cost(Attempts!Phases)' = Attempts!Cost(Attempts!Phases) + ArmCost[a]
            /\ Attempts!Cost({"development"})' = Attempts!Cost({"development"}) + ArmCost[a]
            /\ Attempts!Cost({"confirmatory"})' = Attempts!Cost({"confirmatory"})
        BY <2>1, <2>4, CostsAppend
      <3> QED
        BY <2>1, <2>2, <2>4, <3>1, <1>1 DEF WithinCaps, Attempts!LimitsOf
    <2>5. CASE p = "confirmatory"
      <3>1. /\ Attempts!Cost(Attempts!Phases)' = Attempts!Cost(Attempts!Phases) + ArmCost[a]
            /\ Attempts!Cost({"development"})' = Attempts!Cost({"development"})
            /\ Attempts!Cost({"confirmatory"})' = Attempts!Cost({"confirmatory"}) + ArmCost[a]
        BY <2>1, <2>5, CostsAppend
      <3> QED
        BY <2>1, <2>2, <2>5, <3>1, <1>1 DEF WithinCaps, Attempts!LimitsOf
    <2> QED
      BY <2>3, <2>4, <2>5
  <1> QED
    BY <1>3, <1>6, <1>7, <1>8, <1>9 DEF DispatchInv

(* The open attempt is replaced by its outcome.                             *)
LEMMA FinalizeKeeps ==
    ASSUME DispatchInv, running = "sent", NEW o \in AttemptOutcomes, Attempts!Finalize(o),
           running' \in {"idle", "over"}, UNCHANGED <<sample, dispatched>>,
           \/ received' = received
           \/ received' = received \cup {IdOf(Len(records))} /\ o \notin Attempts!Eligible
    PROVE  DispatchInv'
  <1>0. AttemptTypes /\ AttemptsKnown /\ Unheard /\ RetriesFollow /\ WithinCaps
    BY DEF DispatchInv
  <1>a. Len(records) \in Nat
    BY <1>0 DEF AttemptTypes
  <1> PICK n \in Nat : n = Len(records)
    BY <1>a
  <1>1. /\ records # <<>> /\ records[n].outcome = "reserved"
        /\ IdOf(n) \notin received /\ IdOf(n) \in dispatched
    BY <1>0 DEF Unheard
  <1>2. records' = [records EXCEPT ![n].outcome = o] /\ rows' = records'
    BY DEF Attempts!Finalize
  <1>3. /\ n \in 1 .. n /\ DOMAIN records = 1 .. n /\ records \in Seq(AttemptRecords)
    BY <1>0, <1>1 DEF AttemptTypes
  <1>4. /\ DOMAIN records' = 1 .. n
        /\ \A i \in 1 .. n : i # n => records'[i] = records[i]
        /\ records'[n] = [records[n] EXCEPT !.outcome = o]
    BY <1>2, <1>3
  <1>5. /\ \A i \in 1 .. n : records[i] \in AttemptRecords
        /\ \A i \in 1 .. n : /\ records'[i].phase = records[i].phase
                             /\ records'[i].step = records[i].step
                             /\ records'[i].arm = records[i].arm
                             /\ records'[i].ordinal = records[i].ordinal
        /\ records'[n].outcome = o
    <2>1. \A i \in 1 .. n : records[i] \in AttemptRecords
      BY <1>3
    <2>2. \A e \in AttemptRecords :
             LET f == [e EXCEPT !.outcome = o]
             IN  f.phase = e.phase /\ f.step = e.step /\ f.arm = e.arm /\ f.ordinal = e.ordinal
                   /\ f.outcome = o
      BY DEF AttemptRecords
    <2>3. records'[n].phase = records[n].phase /\ records'[n].step = records[n].step
            /\ records'[n].arm = records[n].arm /\ records'[n].ordinal = records[n].ordinal
            /\ records'[n].outcome = o
      <3> DEFINE e == records[n]
      <3>1. e \in AttemptRecords
        BY <1>3, <2>1
      <3>2. records'[n] = [e EXCEPT !.outcome = o]
        BY <1>4
      <3> HIDE DEF e
      <3>3. LET f == [e EXCEPT !.outcome = o]
            IN  f.phase = e.phase /\ f.step = e.step /\ f.arm = e.arm /\ f.ordinal = e.ordinal
                  /\ f.outcome = o
        BY <3>1, <2>2
      <3>4. records'[n].phase = e.phase /\ records'[n].step = e.step /\ records'[n].arm = e.arm
              /\ records'[n].ordinal = e.ordinal /\ records'[n].outcome = o
        BY <3>2, <3>3
      <3> QED
        BY <3>4 DEF e
    <2>4. \A i \in 1 .. n : i = n \/ records'[i] = records[i]
      BY <1>4
    <2> QED
      BY <2>1, <2>3, <2>4
  <1>6. AttemptTypes'
    <2>1. [records[n] EXCEPT !.outcome = o] \in AttemptRecords
      BY <1>3, <1>5 DEF AttemptRecords
    <2>2. records' \in Seq(AttemptRecords)
      BY <1>2, <1>3, <2>1
    <2> QED
      BY <1>2, <2>2 DEF AttemptTypes
  <1>7. \A i \in 1 .. n : IdOf(i)' = IdOf(i)
    BY <1>5 DEF IdOf, Attempts!attempt_id
  <1>8. WithinCaps'
    BY <1>0, <1>1, <1>2, CostsOfOutcome DEF WithinCaps
  <1>9. AttemptsKnown'
    BY <1>0, <1>1, <1>3, <1>4, <1>7 DEF AttemptsKnown
  <1>10. Unheard'
    <2>1. ASSUME NEW i \in 1 .. n, records'[i].outcome \in Attempts!Eligible
          PROVE  IdOf(i) \in dispatched \ received'
      <3>1. CASE i = n
        BY <2>1, <3>1, <1>1, <1>5
      <3>2. CASE i # n
        <4>1. IdOf(i) \in dispatched \ received /\ IdOf(i) # IdOf(n)
          BY <2>1, <3>2, <1>0, <1>3, <1>4 DEF Unheard, AttemptsKnown
        <4> QED
            BY <4>1
      <3> QED
        BY <3>1, <3>2
    <2> QED
      BY <2>1, <1>4, <1>7 DEF Unheard
  <1>11. RetriesFollow'
    <2> SUFFICES ASSUME NEW i \in 1 .. n, records'[i].ordinal = 2
                 PROVE  /\ records'[i].phase = "confirmatory"
                        /\ \E j \in 1 .. n :
                              /\ SameCell(i, j)' /\ records'[j].ordinal = 1
                              /\ records'[j].outcome \in Attempts!Eligible
      BY <1>4 DEF RetriesFollow
    <2>1. records[i].phase = "confirmatory" /\ records[i].ordinal = 2
      BY <1>0, <1>3, <1>5 DEF RetriesFollow
    <2>2. PICK j \in 1 .. n : /\ SameCell(i, j) /\ records[j].ordinal = 1
                              /\ records[j].outcome \in Attempts!Eligible
      BY <2>1, <1>0, <1>3 DEF RetriesFollow
    <2>3. j # n
      BY <2>2, <1>1 DEF Attempts!Eligible
    <2>4. SameCell(i, j)'
      BY <2>2, <1>5 DEF SameCell
    <2> QED
      BY <2>1, <2>2, <2>3, <2>4, <1>4, <1>5
  <1> QED
    BY <1>6, <1>8, <1>9, <1>10, <1>11 DEF DispatchInv

LEMMA AttemptsKeep ==
    ASSUME DispatchInv, [Attempts!Next]_attemptVars PROVE DispatchInv'
  <1>0. AttemptTypes /\ AttemptsKnown /\ Unheard /\ RetriesFollow /\ WithinCaps
    BY DEF DispatchInv
  <1>a. IdOf(Len(records)) = Attempts!attempt_id(Attempts!Last(records))
    BY DEF IdOf, Attempts!Last
  <1>1. CASE UNCHANGED attemptVars
    BY <1>1, AttemptsStay
  <1>2. ASSUME NEW n \in Attempts!Samples, Attempts!Freeze(n) PROVE DispatchInv'
    BY <1>2, FreezeKeeps
  <1>3. ASSUME NEW p \in Attempts!Phases, NEW s \in Steps, NEW a \in Attempts!Arms,
               Attempts!Reserve(p, s, a)
        PROVE  DispatchInv'
    BY <1>3, ReserveKeeps
  <1>4. CASE Attempts!Dispatch
    <2>1. /\ running = "reserved" /\ running' = "sent"
          /\ dispatched' = dispatched \cup {IdOf(Len(records))}
          /\ UNCHANGED <<records, sample, rows, received>>
      BY <1>4, <1>a DEF Attempts!Dispatch
    <2>2. records # <<>> /\ Len(records) \in DOMAIN records
      BY <2>1, <1>0 DEF Unheard, AttemptTypes
    <2>3. AttemptTypes' /\ RetriesFollow' /\ WithinCaps'
      BY <2>1, <1>0, RecordsStay DEF AttemptTypes, RetriesFollow, SameCell, WithinCaps
    <2>4. AttemptsKnown'
      BY <2>1, <2>2, <1>0, RecordsStay DEF AttemptsKnown
    <2>5. Unheard'
      BY <2>1, <1>0, RecordsStay DEF Unheard
    <2> QED
      BY <2>3, <2>4, <2>5 DEF DispatchInv
  <1>5. CASE Attempts!Answer
    <2>1. /\ running = "sent" /\ running' = "idle" /\ UNCHANGED <<sample, dispatched>>
          /\ received' = received \cup {IdOf(Len(records))} /\ Attempts!Finalize("answered")
      BY <1>5, <1>a DEF Attempts!Answer, Attempts!Receive
    <2>2. "answered" \in AttemptOutcomes /\ "answered" \notin Attempts!Eligible
      BY DEF AttemptOutcomes, Attempts!Eligible
    <2> QED
      BY <2>1, <2>2, FinalizeKeeps
  <1>6. ASSUME NEW o \in Attempts!Eligible \cup {"other_failure", "invalid_response"},
               Attempts!AttemptFails(o)
        PROVE  DispatchInv'
    <2>1. /\ running = "sent" /\ running' \in {"idle", "over"} /\ UNCHANGED <<sample, dispatched>>
          /\ Attempts!Finalize(o)
          /\ \/ received' = received
             \/ received' = received \cup {IdOf(Len(records))} /\ o = "invalid_response"
      BY <1>6, <1>a DEF Attempts!AttemptFails, Attempts!Failed, Attempts!Receive
    <2>2. o \in AttemptOutcomes /\ "invalid_response" \notin Attempts!Eligible
      BY DEF AttemptOutcomes, Attempts!Eligible
    <2> QED
      BY <2>1, <2>2, FinalizeKeeps
  <1>7. CASE Attempts!RunnerRaises
    <2>1. /\ running = "sent" /\ running' = "over" /\ UNCHANGED <<records, sample, rows, dispatched>>
          /\ received' = received \/ received' = received \cup {IdOf(Len(records))}
      BY <1>7, <1>a DEF Attempts!RunnerRaises, Attempts!Receive
    <2>2. /\ records # <<>> /\ records[Len(records)].outcome \notin Attempts!Eligible
          /\ IdOf(Len(records)) \in dispatched /\ Len(records) \in DOMAIN records
      BY <2>1, <1>0 DEF Unheard, AttemptTypes, Attempts!Eligible
    <2>3. AttemptTypes' /\ RetriesFollow' /\ WithinCaps'
      BY <2>1, <1>0, RecordsStay DEF AttemptTypes, RetriesFollow, SameCell, WithinCaps
    <2>4. AttemptsKnown'
      BY <2>1, <2>2, <1>0, RecordsStay DEF AttemptsKnown
    <2>5. ASSUME NEW i \in DOMAIN records, records[i].outcome \in Attempts!Eligible
          PROVE  IdOf(i) \in dispatched \ received'
      <3>1. i # Len(records)
        BY <2>2, <2>5
      <3>2. IdOf(i) # IdOf(Len(records)) /\ IdOf(i) \in dispatched \ received
        BY <3>1, <2>2, <2>5, <1>0 DEF AttemptsKnown, Unheard
      <3> QED
        BY <3>2, <2>1
    <2>6. Unheard'
      BY <2>1, <2>5, RecordsStay DEF Unheard
    <2> QED
      BY <2>3, <2>4, <2>6 DEF DispatchInv
  <1>8. CASE Attempts!Complete
    <2>1. UNCHANGED <<records, sample, running, rows, dispatched, received>>
      BY <1>8 DEF Attempts!Complete
    <2> QED
      BY <2>1, <1>0, RecordsStay
      DEF DispatchInv, AttemptTypes, AttemptsKnown, Unheard, RetriesFollow, SameCell, WithinCaps
  <1>9. CASE Attempts!Crash
    <2>1. running' = "over" /\ UNCHANGED <<records, sample, rows, dispatched, received>>
      BY <1>9 DEF Attempts!Crash
    <2> QED
      BY <2>1, <1>0, RecordsStay
      DEF DispatchInv, AttemptTypes, AttemptsKnown, Unheard, RetriesFollow, SameCell, WithinCaps
  <1> QED
    BY <1>1, <1>2, <1>3, <1>4, <1>5, <1>6, <1>7, <1>8, <1>9 DEF Attempts!Next

LEMMA AttemptsAreBounded == DispatchInv => Attempts!DispatchesAreBounded
  <1> SUFFICES ASSUME DispatchInv PROVE Attempts!DispatchesAreBounded
    OBVIOUS
  <1>0. AttemptTypes /\ AttemptsKnown /\ Unheard /\ RetriesFollow /\ WithinCaps
    BY DEF DispatchInv
  <1>1. \A id \in dispatched : \E i \in DOMAIN rows : Attempts!attempt_id(rows[i]) = id
    BY <1>0 DEF AttemptTypes, AttemptsKnown, IdOf
  <1>2. ASSUME NEW id \in dispatched, id[4] = 2
        PROVE  id[1] = "confirmatory" /\ <<id[1], id[2], id[3], 1>> \in dispatched \ received
    <2>1. PICK i \in DOMAIN records : id = IdOf(i)
      BY <1>0 DEF AttemptsKnown
    <2>2. id = <<records[i].phase, records[i].step, records[i].arm, records[i].ordinal>>
      BY <2>1 DEF IdOf, Attempts!attempt_id
    <2>3. records[i].ordinal = 2
      BY <1>2, <2>2
    <2>4. PICK j \in DOMAIN records : /\ SameCell(i, j) /\ records[j].ordinal = 1
                                     /\ records[j].outcome \in Attempts!Eligible
      BY <2>3, <1>0 DEF RetriesFollow
    <2>5. IdOf(j) = <<id[1], id[2], id[3], 1>>
      BY <2>2, <2>4 DEF IdOf, Attempts!attempt_id, SameCell
    <2>6. IdOf(j) \in dispatched \ received
      BY <2>4, <1>0 DEF Unheard
    <2>7. id[1] = "confirmatory"
      BY <2>2, <2>3, <1>0 DEF RetriesFollow
    <2> QED
      BY <2>5, <2>6, <2>7
  <1> QED
    BY <1>0, <1>1, <1>2 DEF Attempts!DispatchesAreBounded, WithinCaps

(* Whatever fails and wherever the run ends, an attempt that the provider   *)
(* was sent is on file at its worst-case cost, within the caps of its phase *)
(* and of all phases, for any arms, costs and limits; and a cell is sent    *)
(* again once, when nothing of a first response arrived.                    *)
(* validate_pre_dispatch, AttemptLedger.append, _reserve_before_dispatch.   *)
THEOREM DispatchesStayBounded == PaidSpec => []DispatchesAreBounded
  <1> DEFINE Inv == part = "attempt" => DispatchInv
  <1>1. PaidInit => Inv
    BY AttemptsStart DEF PaidInit
  <1>2. Inv /\ [PaidNext]_paidVars => Inv'
    BY Continues, AttemptsKeep
  <1>3. Inv => DispatchesAreBounded
    BY AttemptsAreBounded DEF DispatchesAreBounded
  <1> QED
    BY <1>1, <1>2, <1>3, PTL DEF PaidSpec

----------------------------------------------------------------------------
(* The spend guard of the campaign: its ledger and what the provider bills. *)

OneProcess == \A p, q \in Procs : p = q

Reservations == [type : {"reservation"}, id : Nat, usd : {Spend!Reserved}]
Charges == Reservations \cup [type : {"call_result"}, id : Nat, usd : Nat]
Reservation(id) == [type |-> "reservation", id |-> id, usd |-> Spend!Reserved]

Accounts ==
    [committed : Nat, open : SUBSET Reservations, ordinal : Nat, consistent : BOOLEAN,
     fits : {TRUE}]

\* What the replay of a ledger finds: what is open was reserved, under an ordinal that is not
\* given again, and nothing passed the caps.
Stands(l) ==
    /\ Spend!Replay(l) \in Accounts /\ IsFiniteSet(Spend!Replay(l).open)
    /\ Spend!Spent(Spend!Replay(l)) <= Cap
    /\ \A r \in Spend!Replay(l).open : \E i \in DOMAIN l : l[i] = r
    /\ \A i \in DOMAIN l : l[i].type = "reservation" => l[i].id < Spend!Replay(l).ordinal

\* Of a call, what the provider has charged so far.
Billed(id) == IF id \in DOMAIN billed THEN billed[id] ELSE 0

\* What is billed was reserved before.
BillsStand ==
    \A id \in DOMAIN billed :
        /\ billed[id] \in 0 .. Spend!Reserved
        /\ \E i \in DOMAIN charges : charges[i] = Reservation(id)

\* What the process holds of the ledger: room for its reservation; then the reservation, open,
\* with a part of it left for each attempt; then a charge within it.
Pays(s) ==
    /\ s.at = "append" =>
          /\ s.id = Spend!Replay(charges).ordinal
          /\ Spend!Spent(Spend!Replay(charges)) + Spend!Reserved <= Cap
    /\ s.at \in {"send", "settle"} => Reservation(s.id) \in Spend!Replay(charges).open
    /\ s.at = "send" =>
          \/ s.attempt = 1 /\ Billed(s.id) = 0
          \/ s.attempt = 2 /\ Billed(s.id) \in 0 .. Bound
    /\ s.at = "settle" /\ s.reply # Spend!None /\ s.reply.reported =>
          s.reply.usd \in 0 .. Spend!Reserved

SpendInv ==
    /\ charges \in Seq(Charges) /\ Stands(charges) /\ BillsStand
    /\ \A p \in Procs : Pays(proc[p])

----------------------------------------------------------------------------
(* The replay.                                                              *)

Replays == INSTANCE Folding WITH
    Op <- Spend!Entered, Base <- Spend!Unspent, Weight <- LAMBDA r : r.usd

LEMMA ReplayIsFold == ASSUME NEW l PROVE Spend!Replay(l) = Replays!Fold(l)
  BY Zenon DEF Replays!Fold, Replays!FoldLeft, Replays!MapThenFoldSet, Replays!Max,
     Spend!Replay, Spend!FoldLeft, Spend!MapThenFoldSet, Spend!Max

LEMMA OpenIsSum == ASSUME NEW a PROVE Spend!OpenUsd(a) = Replays!Sum(a.open)
  BY Zenon DEF Replays!Sum, Replays!MapThenSumSet, Replays!MapThenFoldSet,
     Spend!OpenUsd, Spend!MapThenSumSet, Spend!MapThenFoldSet

LEMMA FiniteIsFinite == \A S : Replays!IsFiniteSet(S) <=> IsFiniteSet(S)
  BY DEF Replays!IsFiniteSet, IsFiniteSet

LEMMA ReservedIsBounded ==
    Spend!Reserved \in Nat /\ Spend!Reserved = Bound + Bound /\ Bound \in Nat /\ Cap \in Nat
  BY ExperimentBounds DEF ExperimentBounds, Spend!Reserved, Spend!MAX_ATTEMPTS

\* A reservation more costs as much, a reservation less frees as much.
LEMMA OpenMore ==
    ASSUME NEW S \in SUBSET Reservations, IsFiniteSet(S), NEW r \in Reservations, r \notin S
    PROVE  Replays!Sum(S \cup {r}) = Spend!Reserved + Replays!Sum(S) /\ Replays!Sum(S) \in Int
  <1>1. \A y \in S \cup {r} : y.usd = Spend!Reserved /\ y.usd \in Int
    BY ReservedIsBounded DEF Reservations
  <1>2. /\ Replays!Sum(S \cup {r}) = r.usd + Replays!Sum(S)
        /\ Replays!Sum(S) \in Int
    <2>1. \A y \in S \cup {r} : y.usd \in Int
      BY <1>1
    <2> QED
      BY <2>1, FiniteIsFinite, Replays!SumAdd
  <1> QED
    BY <1>1, <1>2

LEMMA ReservationEntered ==
    ASSUME NEW a \in Accounts, IsFiniteSet(a.open), NEW r \in Reservations, r \notin a.open,
           Spend!Spent(a) + Spend!Reserved <= Cap, NEW b, b = Spend!Entered(a, r)
    PROVE  /\ b \in Accounts /\ IsFiniteSet(b.open) /\ b.open = a.open \cup {r}
           /\ Spend!Spent(b) <= Cap /\ b.ordinal = a.ordinal + 1
  <1>1. /\ a.committed \in Nat /\ a.open \in SUBSET Reservations /\ a.ordinal \in Nat
        /\ a.consistent \in BOOLEAN /\ a.fits = TRUE
    BY DEF Accounts
  <1>2. r.type = "reservation" /\ r.usd = Spend!Reserved
    BY DEF Reservations
  <1>3. /\ Spend!OpenUsd(a) = Replays!Sum(a.open) /\ Replays!Sum(a.open) \in Int
        /\ Replays!Sum(a.open \cup {r}) = Spend!Reserved + Replays!Sum(a.open)
    BY <1>1, OpenIsSum, OpenMore
  <1>4. Spend!Spent(a) = a.committed + Spend!OpenUsd(a)
    BY DEF Spend!Spent
  <1>5. a.committed + Spend!OpenUsd(a) + r.usd <= Cap
    BY <1>1, <1>2, <1>3, <1>4, ReservedIsBounded
  <1> PICK c \in BOOLEAN : c = (a.consistent /\ \A q \in a.open : q.id # r.id)
    BY <1>1
  <1>6. b = [a EXCEPT !.consistent = c, !.open = a.open \cup {r}, !.ordinal = a.ordinal + 1,
                      !.fits = a.fits /\ a.committed + Spend!OpenUsd(a) + r.usd <= Cap]
    BY <1>2 DEF Spend!Entered
  <1>7. (a.fits /\ a.committed + Spend!OpenUsd(a) + r.usd <= Cap) = TRUE
    BY <1>1, <1>5
  <1>8. b = [a EXCEPT !.consistent = c, !.open = a.open \cup {r}, !.ordinal = a.ordinal + 1,
                      !.fits = TRUE]
    BY <1>6, <1>7
  <1>9. /\ b.committed = a.committed /\ b.open = a.open \cup {r} /\ b.ordinal = a.ordinal + 1
        /\ b \in Accounts
    <2>1. a.open \cup {r} \in SUBSET Reservations /\ a.ordinal + 1 \in Nat
      BY <1>1
    <2> PICK open \in SUBSET Reservations, ordinal \in Nat :
               open = a.open \cup {r} /\ ordinal = a.ordinal + 1
      BY <2>1
    <2>2. b = [a EXCEPT !.consistent = c, !.open = open, !.ordinal = ordinal, !.fits = TRUE]
      BY <1>8, Zenon
    <2>3. /\ b \in Accounts /\ b.committed = a.committed /\ b.open = open
          /\ b.ordinal = ordinal
      BY <2>2 DEF Accounts
    <2> QED
      BY <2>3
  <1>10. Spend!Spent(b) = b.committed + Replays!Sum(b.open)
    BY OpenIsSum DEF Spend!Spent
  <1>11. IsFiniteSet(a.open \cup {r})
    BY FS_AddElement
  <1> QED
    BY <1>1, <1>3, <1>4, <1>9, <1>10, <1>11, ReservedIsBounded

LEMMA ResultEntered ==
    ASSUME NEW a \in Accounts, IsFiniteSet(a.open), NEW id \in Nat, Reservation(id) \in a.open,
           NEW usd \in 0 .. Spend!Reserved, Spend!Spent(a) <= Cap,
           NEW b, b = Spend!Entered(a, [type |-> "call_result", id |-> id, usd |-> usd])
    PROVE  /\ b \in Accounts /\ IsFiniteSet(b.open) /\ b.open \subseteq a.open
           /\ Spend!Spent(b) <= Cap /\ b.ordinal = a.ordinal
  <1> DEFINE r == Reservation(id)
  <1>1. /\ a.committed \in Nat /\ a.open \in SUBSET Reservations /\ a.ordinal \in Nat
        /\ a.consistent \in BOOLEAN /\ a.fits = TRUE
    BY DEF Accounts
  <1>2. r \in Reservations /\ r.id = id
    BY <1>1 DEF Reservation
  <1>3. \A q \in Reservations : q.id = id => q = r
    BY DEF Reservations, Reservation
  <1>4. {q \in a.open : q.id # id} = a.open \ {r}
    BY <1>1, <1>2, <1>3
  <1> HIDE DEF r
  <1>5. IsFiniteSet(a.open \ {r}) /\ (a.open \ {r}) \cup {r} = a.open
    BY FS_Subset DEF r
  <1>6. /\ Replays!Sum(a.open) = Spend!Reserved + Replays!Sum(a.open \ {r})
        /\ Replays!Sum(a.open \ {r}) \in Int
    <2>1. a.open \ {r} \in SUBSET Reservations /\ r \notin a.open \ {r}
      BY <1>1
    <2>2. /\ Replays!Sum((a.open \ {r}) \cup {r}) = Spend!Reserved + Replays!Sum(a.open \ {r})
          /\ Replays!Sum(a.open \ {r}) \in Int
      BY <1>2, <1>5, <2>1, OpenMore
    <2> QED
      BY <1>5, <2>2
  <1> PICK c \in BOOLEAN : c = (a.consistent /\ \E q \in a.open : q.id = id)
    BY <1>1
  <1>7. b = [a EXCEPT !.consistent = c, !.open = {q \in a.open : q.id # id},
                      !.committed = a.committed + usd]
    BY DEF Spend!Entered
  <1>8. b = [a EXCEPT !.consistent = c, !.open = a.open \ {r}, !.committed = a.committed + usd]
    BY <1>4, <1>7
  <1>9. /\ b.committed = a.committed + usd /\ b.open = a.open \ {r} /\ b.ordinal = a.ordinal
        /\ b \in Accounts
    <2>1. a.open \ {r} \in SUBSET Reservations /\ a.committed + usd \in Nat
      BY <1>1, ReservedIsBounded
    <2> PICK open \in SUBSET Reservations, committed \in Nat :
               open = a.open \ {r} /\ committed = a.committed + usd
      BY <2>1
    <2>2. b = [a EXCEPT !.consistent = c, !.open = open, !.committed = committed]
      BY <1>8, Zenon
    <2>3. /\ b \in Accounts /\ b.committed = committed /\ b.open = open
          /\ b.ordinal = a.ordinal
      BY <2>2 DEF Accounts
    <2> QED
      BY <2>3
  <1>10. /\ Spend!Spent(a) = a.committed + Replays!Sum(a.open)
         /\ Spend!Spent(b) = b.committed + Replays!Sum(b.open)
    BY OpenIsSum DEF Spend!Spent
  <1>11. Spend!Spent(b) <= Cap
    <2>1. /\ Spend!Spent(a) = a.committed + (Spend!Reserved + Replays!Sum(a.open \ {r}))
          /\ Spend!Spent(b) = (a.committed + usd) + Replays!Sum(a.open \ {r})
      BY <1>6, <1>9, <1>10
    <2> QED
      BY <1>1, <1>6, <2>1, ReservedIsBounded
  <1> QED
    BY <1>5, <1>9, <1>11

(* A ledger stands after each append that its guard lets through.           *)
\* An event more: of a reservation that fits, or of the result of one that is open.
Opens(l, m, id) ==
    /\ id = Spend!Replay(l).ordinal
    /\ Spend!Spent(Spend!Replay(l)) + Spend!Reserved <= Cap
    /\ m = Append(l, Reservation(id))

Resolves(l, m, id) ==
    /\ Reservation(id) \in Spend!Replay(l).open
    /\ \E usd \in 0 .. Spend!Reserved :
          m = Append(l, [type |-> "call_result", id |-> id, usd |-> usd])

LEMMA ReservationStands ==
    ASSUME NEW l \in Seq(Charges), Stands(l), NEW m, NEW id, Opens(l, m, id)
    PROVE  /\ m \in Seq(Charges) /\ Stands(m) /\ Reservation(id) \in Spend!Replay(m).open
           /\ \A i \in DOMAIN l : l[i] # Reservation(id) /\ i \in DOMAIN m /\ m[i] = l[i]
  <1> DEFINE a == Spend!Replay(l)  r == Reservation(id)
  <1>0. /\ id = a.ordinal /\ Spend!Spent(a) + Spend!Reserved <= Cap
        /\ m = Append(l, r)
    BY DEF Opens
  <1>1. a \in Accounts /\ IsFiniteSet(a.open) /\ a.ordinal \in Nat
    BY DEF Stands, Accounts
  <1>2. r \in Reservations /\ r \in Charges /\ r.type = "reservation" /\ r.id = id
    BY <1>0, <1>1 DEF Reservation, Reservations, Charges
  <1>3. \A i \in DOMAIN l : l[i] # r
    BY <1>0, <1>1, <1>2 DEF Stands
  <1>4. r \notin a.open
    BY <1>3 DEF Stands
  <1> HIDE DEF a, r
  <1>5. PICK b : b = Spend!Entered(a, r)
    OBVIOUS
  <1>6. Spend!Replay(m) = b
    <2>1. Replays!Fold(Append(l, r)) = Spend!Entered(Replays!Fold(l), r)
      BY <1>2, Replays!FoldAppend
    <2> QED
      BY <1>0, <1>5, <2>1, ReplayIsFold DEF a
  <1>7. /\ b \in Accounts /\ IsFiniteSet(b.open) /\ b.open = a.open \cup {r}
        /\ Spend!Spent(b) <= Cap /\ b.ordinal = a.ordinal + 1
    BY <1>0, <1>1, <1>2, <1>4, <1>5, ReservationEntered
  <1>8. /\ m \in Seq(Charges) /\ DOMAIN m = 1 .. Len(l) + 1 /\ m[Len(l) + 1] = r
        /\ DOMAIN l = 1 .. Len(l) /\ Len(l) \in Nat /\ \A i \in 1 .. Len(l) : m[i] = l[i]
    BY <1>0, <1>2
  <1>9. \A q \in b.open : \E i \in DOMAIN m : m[i] = q
    <2>1. \A q \in a.open : \E i \in 1 .. Len(l) : l[i] = q
      BY <1>8 DEF Stands, a
    <2>2. \A i \in 1 .. Len(l) : i \in DOMAIN m
      BY <1>8
    <2>3. Len(l) + 1 \in DOMAIN m
      BY <1>8
    <2> QED
      BY <1>7, <1>8, <2>1, <2>2, <2>3
  <1>10. \A i \in DOMAIN m : m[i].type = "reservation" => m[i].id < b.ordinal
    <2> SUFFICES ASSUME NEW i \in DOMAIN m, m[i].type = "reservation" PROVE m[i].id < b.ordinal
      OBVIOUS
    <2>1. CASE i = Len(l) + 1
      BY <1>0, <1>1, <1>2, <1>7, <1>8, <2>1
    <2>2. CASE i # Len(l) + 1
      <3>1. i \in DOMAIN l /\ m[i] = l[i]
        BY <1>8, <2>2
      <3>2. l[i] \in Charges /\ l[i].id < a.ordinal
        BY <3>1 DEF Stands, a
      <3>3. l[i].id \in Nat
        BY <3>2 DEF Charges, Reservations
      <3> QED
        BY <1>1, <1>7, <3>1, <3>2, <3>3
    <2> QED
      BY <2>1, <2>2
  <1>11. Stands(m)
    BY <1>6, <1>7, <1>9, <1>10 DEF Stands
  <1> QED
    BY <1>3, <1>6, <1>7, <1>8, <1>11 DEF r

LEMMA ResultStands ==
    ASSUME NEW l \in Seq(Charges), Stands(l), NEW m, NEW id, Resolves(l, m, id)
    PROVE  /\ m \in Seq(Charges) /\ Stands(m)
           /\ \A i \in DOMAIN l : i \in DOMAIN m /\ m[i] = l[i]
  <1> PICK usd \in 0 .. Spend!Reserved :
             m = Append(l, [type |-> "call_result", id |-> id, usd |-> usd])
    BY DEF Resolves
  <1> DEFINE a == Spend!Replay(l)  e == [type |-> "call_result", id |-> id, usd |-> usd]
  <1>1. a \in Accounts /\ IsFiniteSet(a.open) /\ a.ordinal \in Nat /\ Spend!Spent(a) <= Cap
    BY DEF Stands, Accounts
  <1>2. Reservation(id) \in a.open /\ Reservation(id) \in Reservations
    BY <1>1 DEF Accounts, Resolves
  <1>3. id \in Nat
    BY <1>2 DEF Reservation, Reservations
  <1>4. e \in Charges /\ e.type # "reservation"
    BY <1>3, ReservedIsBounded DEF Charges
  <1> HIDE DEF a
  <1>5. PICK b : b = Spend!Entered(a, e)
    OBVIOUS
  <1>6. /\ b \in Accounts /\ IsFiniteSet(b.open) /\ b.open \subseteq a.open
        /\ Spend!Spent(b) <= Cap /\ b.ordinal = a.ordinal
    BY <1>1, <1>2, <1>3, <1>5, ResultEntered
  <1> HIDE DEF e
  <1>7. Spend!Replay(m) = b
    <2>1. Replays!Fold(Append(l, e)) = Spend!Entered(Replays!Fold(l), e)
      BY <1>4, Replays!FoldAppend
    <2> QED
      BY <1>5, <2>1, ReplayIsFold DEF a, e
  <1>8. /\ m \in Seq(Charges) /\ DOMAIN m = 1 .. Len(l) + 1 /\ m[Len(l) + 1] = e
        /\ DOMAIN l = 1 .. Len(l) /\ Len(l) \in Nat /\ \A i \in 1 .. Len(l) : m[i] = l[i]
    BY <1>4 DEF e
  <1>9. \A i \in DOMAIN l : i \in DOMAIN m /\ m[i] = l[i]
    BY <1>8
  <1>10. \A q \in b.open : \E i \in DOMAIN m : m[i] = q
    BY <1>6, <1>9 DEF Stands, a
  <1>11. \A i \in DOMAIN m : m[i].type = "reservation" => m[i].id < b.ordinal
    <2>1. \A i \in DOMAIN m : i = Len(l) + 1 \/ i \in DOMAIN l
      BY <1>8
    <2> QED
      BY <1>4, <1>6, <1>8, <1>9, <2>1 DEF Stands, a
  <1>12. Stands(m)
    BY <1>6, <1>7, <1>10, <1>11 DEF Stands
  <1> QED
    BY <1>8, <1>9, <1>12

----------------------------------------------------------------------------
(* The steps of the one process.                                            *)

(* No ledger line, no bill, and the process holds nothing of either.        *)
LEMMA Quiet ==
    ASSUME OneProcess, SpendInv, NEW p \in Procs, UNCHANGED <<charges, billed>>,
           proc'[p].at \notin {"append", "send", "settle"}
    PROVE  SpendInv'
  <1>1. \A q \in Procs : q = p
    BY DEF OneProcess
  <1>2. Pays(proc[p])'
    BY DEF Pays
  <1>3. BillsStand'
    BY DEF SpendInv, BillsStand
  <1> QED
    BY <1>1, <1>2, <1>3 DEF SpendInv

LEMMA QuietGoto ==
    ASSUME OneProcess, SpendInv, EvidenceInv, NEW p \in Procs, UNCHANGED <<charges, billed>>,
           NEW at, Spend!Goto(p, at), at \notin {"append", "send", "settle"}
    PROVE  SpendInv'
  <1>1. proc = [q \in Procs |-> proc[q]] /\ proc[p] = [field \in Fields |-> proc[p][field]]
    BY DEF EvidenceInv, Holds
  <1>2. proc'[p] = [proc[p] EXCEPT !.at = at]
    BY <1>1 DEF Spend!Goto
  <1>3. proc'[p].at = at
    BY <1>1, <1>2 DEF Fields
  <1> QED
    BY <1>3, Quiet

LEMMA QuietFail ==
    ASSUME OneProcess, SpendInv, EvidenceInv, NEW p \in Procs, UNCHANGED <<charges, billed>>,
           Spend!Fail(p)
    PROVE  SpendInv'
  <1>1. proc = [q \in Procs |-> proc[q]]
    BY DEF EvidenceInv
  <1>2. proc'[p] = Spend!Idle
    BY <1>1 DEF Spend!Fail
  <1>3. proc'[p].at = "idle"
    BY <1>2 DEF Spend!Idle
  <1> QED
    BY <1>3, Quiet

LEMMA QuietReply ==
    ASSUME OneProcess, SpendInv, EvidenceInv, NEW p \in Procs, UNCHANGED <<charges, billed>>,
           NEW reply, Spend!TakeReply(p, reply)
    PROVE  SpendInv'
  <1>0. proc = [q \in Procs |-> proc[q]] /\ proc[p] = [field \in Fields |-> proc[p][field]]
    BY DEF EvidenceInv, Holds
  <1>1. CASE Spend!Fail(p)
    BY <1>1, QuietFail
  <1>2. CASE ~Spend!Fail(p)
    <2> PICK row : row = <<Spend!CurrentKey(p), reply.answer>>
      OBVIOUS
    <2>1. proc' = [proc EXCEPT ![p].at = "call", ![p].k = @ + 1, ![p].reply = <<>>,
                               ![p].id = 0, ![p].attempt = 1, ![p].rows = @ \cup {row}]
      BY <1>2, Zenon DEF Spend!TakeReply
    <2>2. proc'[p].at = "call"
      BY <1>0, <2>1 DEF Fields
    <2> QED
      BY <2>2, Quiet
  <1> QED
    BY <1>1, <1>2

LEMMA StageSteps ==
    ASSUME OneProcess, SpendInv, EvidenceInv, NEW p \in Procs,
           \/ \E plan \in Spend!Plans, offline \in BOOLEAN : Spend!Start(p, plan, offline)
           \/ Spend!Load(p) \/ Spend!BeginStage(p) \/ Spend!LookUp(p)
           \/ Spend!WriteCache(p) \/ Spend!WriteResult(p) \/ Spend!RecordResult(p)
           \/ Spend!Crash(p)
    PROVE  SpendInv'
  <1>0. proc = [q \in Procs |-> proc[q]] /\ proc[p] = [field \in Fields |-> proc[p][field]]
    BY DEF EvidenceInv, Holds
  <1>1. ASSUME NEW plan \in Spend!Plans, NEW offline \in BOOLEAN, Spend!Start(p, plan, offline)
        PROVE  SpendInv'
    <2>1. proc' = [proc EXCEPT ![p] = [Spend!Idle EXCEPT !.at = "load", !.plan = plan,
                                          !.offline = offline, !.seen = inputs]]
            /\ UNCHANGED <<charges, billed>>
      BY <1>1 DEF Spend!Start
    <2>2. proc'[p].at = "load"
      BY <1>0, <2>1 DEF Spend!Idle
    <2> QED
      BY <2>1, <2>2, Quiet
  <1>2. CASE Spend!Load(p)
    <2>1. proc' = [proc EXCEPT ![p].at = "stage", ![p].data = inputs]
            /\ UNCHANGED <<charges, billed>>
      BY <1>2 DEF Spend!Load
    <2>2. proc'[p].at = "stage"
      BY <1>0, <2>1 DEF Fields
    <2> QED
      BY <2>1, <2>2, Quiet
  <1>3. CASE Spend!BeginStage(p)
    <2>1. UNCHANGED <<charges, billed>>
      BY <1>3 DEF Spend!BeginStage
    <2>2. CASE Spend!Fail(p)
      BY <2>1, <2>2, QuietFail
    <2>3. CASE ~Spend!Fail(p)
      <3>1. proc' = [proc EXCEPT ![p].at = "call", ![p].rows = {},
                        ![p].k = IF Spend!Stage(p) = "extraction" THEN 1 ELSE 0]
        BY <1>3, <2>3, Zenon DEF Spend!BeginStage
      <3>2. proc'[p].at = "call"
        BY <1>0, <3>1 DEF Fields
      <3> QED
        BY <2>1, <3>2, Quiet
    <2> QED
      BY <2>2, <2>3
  <1>4. CASE Spend!LookUp(p)
    <2>1. UNCHANGED <<charges, billed>>
      BY <1>4 DEF Spend!LookUp
    <2>2. PICK entry : Spend!TakeReply(p, entry) \/ Spend!Fail(p) \/ Spend!Goto(p, "reserve")
      BY <1>4, Zenon DEF Spend!LookUp
    <2> QED
      BY <2>1, <2>2, QuietReply, QuietFail, QuietGoto
  <1>5. CASE Spend!WriteCache(p)
    <2>1. UNCHANGED <<charges, billed>> /\ Spend!TakeReply(p, proc[p].reply)
      BY <1>5 DEF Spend!WriteCache
    <2> QED
      BY <2>1, QuietReply
  <1>6. CASE Spend!WriteResult(p)
    <2>1. UNCHANGED <<charges, billed>> /\ (Spend!Fail(p) \/ Spend!Goto(p, "record"))
      BY <1>6 DEF Spend!WriteResult
    <2> QED
      BY <2>1, QuietFail, QuietGoto
  <1>7. CASE Spend!RecordResult(p)
    <2>1. UNCHANGED <<charges, billed>>
      BY <1>7 DEF Spend!RecordResult
    <2>2. CASE Spend!Fail(p)
      BY <2>1, <2>2, QuietFail
    <2>3. CASE ~Spend!Fail(p)
      <3>1. \/ proc' = [proc EXCEPT ![p].at = "stage", ![p].plan = Tail(@)]
            \/ proc' = [proc EXCEPT ![p] = Spend!Idle]
        BY <1>7, <2>3 DEF Spend!RecordResult
      <3>2. proc'[p].at \in {"stage", "idle"}
        BY <1>0, <3>1 DEF Fields, Spend!Idle
      <3> QED
        BY <2>1, <3>2, Quiet
    <2> QED
      BY <2>2, <2>3
  <1>8. CASE Spend!Crash(p)
    <2>1. UNCHANGED <<charges, billed>> /\ Spend!Fail(p)
      BY <1>8 DEF Spend!Crash
    <2> QED
      BY <2>1, QuietFail
  <1> QED
    BY <1>1, <1>2, <1>3, <1>4, <1>5, <1>6, <1>7, <1>8

LEMMA RoomFound ==
    ASSUME OneProcess, SpendInv, EvidenceInv, NEW p \in Procs, Spend!ReadLedger(p)
    PROVE  SpendInv'
  <1>0. proc = [q \in Procs |-> proc[q]] /\ proc[p] = [field \in Fields |-> proc[p][field]]
    BY DEF EvidenceInv, Holds
  <1>1. UNCHANGED <<charges, billed>>
    BY DEF Spend!ReadLedger
  <1>2. CASE Spend!Fail(p)
    BY <1>1, <1>2, QuietFail
  <1>3. CASE ~Spend!Fail(p)
    <2> PICK s : s = Spend!Replay(charges)
      OBVIOUS
    <2>1. /\ Spend!Spent(s) + Spend!Reserved <= Cap
          /\ proc' = [proc EXCEPT ![p].at = "append", ![p].id = s.ordinal]
      BY <1>3 DEF Spend!ReadLedger
    <2>2. proc'[p].at = "append" /\ proc'[p].id = s.ordinal
      BY <1>0, <2>1 DEF Fields
    <2>3. Pays(proc[p])'
      BY <1>1, <2>1, <2>2 DEF Pays
    <2>4. BillsStand'
      BY <1>1 DEF SpendInv, BillsStand
    <2>5. \A q \in Procs : q = p
      BY DEF OneProcess
    <2> QED
      BY <1>1, <2>3, <2>4, <2>5 DEF SpendInv
  <1> QED
    BY <1>2, <1>3

\* A line more leaves what is billed reserved.
LEMMA BillsStay ==
    ASSUME BillsStand, UNCHANGED billed,
           \A i \in DOMAIN charges : i \in DOMAIN charges' /\ charges'[i] = charges[i]
    PROVE  BillsStand'
  BY DEF BillsStand, Reservation, Spend!Reserved

LEMMA ReservationMade ==
    ASSUME OneProcess, SpendInv, EvidenceInv, NEW p \in Procs, Spend!AppendReservation(p)
    PROVE  SpendInv'
  <1>0. proc = [q \in Procs |-> proc[q]] /\ proc[p] = [field \in Fields |-> proc[p][field]]
    BY DEF EvidenceInv, Holds
  <1> PICK id : id = proc[p].id
    OBVIOUS
  <1>1. UNCHANGED billed /\ proc[p].at = "append"
    BY DEF Spend!AppendReservation
  <1>2. CASE Spend!Fail(p) /\ UNCHANGED charges
    BY <1>1, <1>2, QuietFail
  <1>3. CASE ~(Spend!Fail(p) /\ UNCHANGED charges)
    <2>1. /\ charges' = Append(charges, Reservation(id))
          /\ proc' = [proc EXCEPT ![p].at = "send", ![p].attempt = 1]
      BY <1>3 DEF Spend!AppendReservation, Spend!AppendLedger, Reservation
    <2>2. proc'[p].at = "send" /\ proc'[p].attempt = 1 /\ proc'[p].id = id
      BY <1>0, <2>1 DEF Fields
    <2>3. /\ id = Spend!Replay(charges).ordinal
          /\ Spend!Spent(Spend!Replay(charges)) + Spend!Reserved <= Cap
      BY <1>1 DEF SpendInv, Pays
    <2>4. /\ charges' \in Seq(Charges) /\ Stands(charges')
          /\ Reservation(id) \in Spend!Replay(charges').open
          /\ \A i \in DOMAIN charges :
                charges[i] # Reservation(id) /\ i \in DOMAIN charges' /\ charges'[i] = charges[i]
      <3> PICK l, m : l = charges /\ m = charges'
        OBVIOUS
      <3>1. l \in Seq(Charges) /\ Stands(l) /\ Opens(l, m, id)
        BY <2>1, <2>3 DEF SpendInv, Opens
      <3>2. /\ m \in Seq(Charges) /\ Stands(m) /\ Reservation(id) \in Spend!Replay(m).open
            /\ \A i \in DOMAIN l : l[i] # Reservation(id) /\ i \in DOMAIN m /\ m[i] = l[i]
        BY <3>1, ReservationStands
      <3> QED
        BY <3>2
    <2>5. id \notin DOMAIN billed
      BY <2>4 DEF SpendInv, BillsStand
    <2>6. BillsStand'
      BY <1>1, <2>4, BillsStay DEF SpendInv
    <2>7. Billed(id)' = 0
      BY <1>1, <2>5 DEF Billed
    <2>8. Reservation(id)' = Reservation(id)
      BY DEF Reservation, Spend!Reserved
    <2>9. Pays(proc[p])'
      BY <2>2, <2>4, <2>7, <2>8 DEF Pays
    <2>10. \A q \in Procs : q = p
      BY DEF OneProcess
    <2> QED
      BY <2>4, <2>6, <2>9, <2>10 DEF SpendInv
  <1> QED
    BY <1>2, <1>3

(* What is billed for a call stays within what was reserved for it.         *)
LEMMA BillsGrow ==
    ASSUME SpendInv, NEW p \in Procs, proc[p].at = "send", NEW usd \in Nat, Spend!Bill(p, usd),
           Billed(proc[p].id) + usd <= Spend!Reserved, UNCHANGED charges
    PROVE  BillsStand' /\ Billed(proc[p].id) \in Nat
             /\ \A id : id = proc[p].id => Billed(id)' = Billed(id) + usd
  <1> PICK id : id = proc[p].id
    OBVIOUS
  <1>1. Reservation(id) \in Spend!Replay(charges).open
    BY DEF SpendInv, Pays
  <1>2. PICK i \in DOMAIN charges : charges[i] = Reservation(id)
    BY <1>1 DEF SpendInv, Stands
  <1>3. billed' = [j \in DOMAIN billed \cup {id} |->
                      (IF j \in DOMAIN billed THEN billed[j] ELSE 0)
                      + (IF j = id THEN usd ELSE 0)]
    BY DEF Spend!Bill
  <1>4. \A j \in DOMAIN billed : billed[j] \in 0 .. Spend!Reserved
    BY DEF SpendInv, BillsStand
  <1>5. Billed(id) \in Nat
    BY <1>4, ReservedIsBounded DEF Billed
  <1>6. DOMAIN billed' = DOMAIN billed \cup {id} /\ billed'[id] = Billed(id) + usd
    BY <1>3 DEF Billed
  <1>7. \A j \in DOMAIN billed : j # id => billed'[j] = billed[j]
    BY <1>3, <1>4, ReservedIsBounded
  <1>8. Billed(id)' = Billed(id) + usd
    BY <1>6 DEF Billed
  <1>9. billed'[id] \in 0 .. Spend!Reserved
    BY <1>5, <1>6, ReservedIsBounded
  <1>10. \A j \in DOMAIN billed' :
            billed'[j] \in 0 .. Spend!Reserved /\ \E k \in DOMAIN charges : charges[k] = Reservation(j)
    BY <1>2, <1>4, <1>6, <1>7, <1>9 DEF SpendInv, BillsStand
  <1>11. BillsStand'
    BY <1>10 DEF BillsStand, Reservation, Spend!Reserved
  <1> QED
    BY <1>5, <1>8, <1>11

LEMMA Replied ==
    ASSUME OneProcess, SpendInv, EvidenceInv, NEW p \in Procs, Spend!Answered(p)
    PROVE  SpendInv'
  <1>0. proc = [q \in Procs |-> proc[q]] /\ proc[p] = [field \in Fields |-> proc[p][field]]
    BY DEF EvidenceInv, Holds
  <1> PICK id : id = proc[p].id
    OBVIOUS
  <1>1. UNCHANGED charges /\ proc[p].at = "send"
    BY DEF Spend!Answered
  <1>2. PICK answer \in Answers, usd \in 1 .. Bound, reported \in BOOLEAN :
          /\ Spend!Bill(p, usd)
          /\ proc' = [proc EXCEPT ![p].at = "settle", ![p].reply =
                [state |-> "whole", answer |-> answer, usd |-> usd,
                 reported |-> reported /\ ~Spend!IsEmbedding(Spend!CurrentKey(p))]]
    BY DEF Spend!Answered
  <1> PICK reply : reply = [state |-> "whole", answer |-> answer, usd |-> usd,
                 reported |-> reported /\ ~Spend!IsEmbedding(Spend!CurrentKey(p))]
    OBVIOUS
  <1>3. reply.usd = usd
    OBVIOUS
  <1>4. proc' = [proc EXCEPT ![p].at = "settle", ![p].reply = reply]
    BY <1>2
  <1>5. proc'[p].at = "settle" /\ proc'[p].reply = reply /\ proc'[p].id = id
    BY <1>0, <1>4 DEF Fields
  <1>6. usd \in Nat /\ usd \in 0 .. Spend!Reserved /\ Billed(id) + usd <= Spend!Reserved
    BY <1>1, ReservedIsBounded DEF SpendInv, Pays
  <1>7. BillsStand'
    BY <1>1, <1>2, <1>6, BillsGrow
  <1>8. Reservation(id) \in Spend!Replay(charges').open
    BY <1>1 DEF SpendInv, Pays
  <1>9. Pays(proc[p])'
    BY <1>3, <1>5, <1>6, <1>8 DEF Pays, Reservation, Spend!Reserved
  <1>10. \A q \in Procs : q = p
    BY DEF OneProcess
  <1> QED
    BY <1>1, <1>7, <1>9, <1>10 DEF SpendInv

LEMMA NotReplied ==
    ASSUME OneProcess, SpendInv, EvidenceInv, NEW p \in Procs, Spend!NotAnswered(p)
    PROVE  SpendInv'
  <1>0. proc = [q \in Procs |-> proc[q]] /\ proc[p] = [field \in Fields |-> proc[p][field]]
    BY DEF EvidenceInv, Holds
  <1> PICK id : id = proc[p].id
    OBVIOUS
  <1>1. UNCHANGED charges /\ proc[p].at = "send"
    BY DEF Spend!NotAnswered
  <1>2. PICK usd \in 0 .. Bound :
          /\ Spend!Bill(p, usd)
          /\ \/ proc' = [proc EXCEPT ![p].at = "settle", ![p].reply = Spend!None]
             \/ /\ proc[p].attempt # 2
                /\ proc' = [proc EXCEPT ![p].attempt = @ + 1]
    BY DEF Spend!NotAnswered, Spend!MAX_ATTEMPTS
  <1>3. /\ Reservation(id) \in Spend!Replay(charges').open
        /\ \/ proc[p].attempt = 1 /\ Billed(id) = 0
           \/ proc[p].attempt = 2 /\ Billed(id) \in 0 .. Bound
    BY <1>1 DEF SpendInv, Pays
  <1>4. usd \in Nat /\ Billed(id) + usd <= Spend!Reserved
    BY <1>3, ReservedIsBounded
  <1>5. BillsStand' /\ Billed(id)' = Billed(id) + usd
    BY <1>1, <1>2, <1>4, BillsGrow
  <1>6. Pays(proc[p])'
    <2>1. CASE proc' = [proc EXCEPT ![p].at = "settle", ![p].reply = Spend!None]
      <3>1. proc'[p].at = "settle" /\ proc'[p].reply = Spend!None /\ proc'[p].id = id
        BY <1>0, <2>1 DEF Fields
      <3> QED
        BY <1>3, <3>1 DEF Pays, Reservation, Spend!Reserved, Spend!None
    <2>2. CASE proc[p].attempt # 2 /\ proc' = [proc EXCEPT ![p].attempt = @ + 1]
      <3>1. proc'[p].at = "send" /\ proc'[p].attempt = 2 /\ proc'[p].id = id
        BY <1>0, <1>1, <1>3, <2>2 DEF Fields
      <3>2. Billed(id)' \in 0 .. Bound
        BY <1>3, <1>5, <2>2, ReservedIsBounded
      <3> QED
        BY <1>3, <3>1, <3>2 DEF Pays, Reservation, Spend!Reserved, Billed
    <2> QED
      BY <1>2, <2>1, <2>2
  <1>7. \A q \in Procs : q = p
    BY DEF OneProcess
  <1> QED
    BY <1>1, <1>5, <1>6, <1>7 DEF SpendInv

LEMMA CallSettled ==
    ASSUME OneProcess, SpendInv, EvidenceInv, NEW p \in Procs, Spend!Settle(p)
    PROVE  SpendInv'
  <1>0. proc = [q \in Procs |-> proc[q]] /\ proc[p] = [field \in Fields |-> proc[p][field]]
    BY DEF EvidenceInv, Holds
  <1> PICK id, reply : id = proc[p].id /\ reply = proc[p].reply
    OBVIOUS
  <1>1. UNCHANGED billed /\ proc[p].at = "settle"
    BY DEF Spend!Settle
  <1>2. CASE Spend!Fail(p) /\ UNCHANGED charges
    BY <1>1, <1>2, QuietFail
  <1>3. CASE ~(Spend!Fail(p) /\ UNCHANGED charges)
    <2> PICK usd : usd = IF reply # Spend!None /\ reply.reported THEN reply.usd ELSE Spend!Reserved
      OBVIOUS
    <2>1. /\ charges' = Append(charges, [type |-> "call_result", id |-> id, usd |-> usd])
          /\ Spend!Fail(p) \/ Spend!Goto(p, "cache")
      BY <1>3 DEF Spend!Settle, Spend!AppendLedger
    <2>2. Reservation(id) \in Spend!Replay(charges).open /\ usd \in 0 .. Spend!Reserved
      BY <1>1, ReservedIsBounded DEF SpendInv, Pays
    <2>3. /\ charges' \in Seq(Charges) /\ Stands(charges')
          /\ \A i \in DOMAIN charges : i \in DOMAIN charges' /\ charges'[i] = charges[i]
      <3> PICK l, m : l = charges /\ m = charges'
        OBVIOUS
      <3>1. l \in Seq(Charges) /\ Stands(l) /\ Resolves(l, m, id)
        BY <2>1, <2>2 DEF SpendInv, Resolves
      <3>2. /\ m \in Seq(Charges) /\ Stands(m)
            /\ \A i \in DOMAIN l : i \in DOMAIN m /\ m[i] = l[i]
        BY <3>1, ResultStands
      <3> QED
        BY <3>2
    <2>4. BillsStand'
      BY <1>1, <2>3, BillsStay DEF SpendInv
    <2>5. proc'[p].at \in {"idle", "cache"}
      <3>1. CASE Spend!Fail(p)
        <4>1. proc'[p] = Spend!Idle
          BY <1>0, <3>1 DEF Spend!Fail
        <4> QED
          BY <4>1 DEF Spend!Idle
      <3>2. CASE Spend!Goto(p, "cache")
        BY <1>0, <3>2 DEF Spend!Goto, Fields
      <3> QED
        BY <2>1, <3>1, <3>2
    <2>6. Pays(proc[p])'
      BY <2>5 DEF Pays
    <2>7. \A q \in Procs : q = p
      BY DEF OneProcess
    <2> QED
      BY <2>3, <2>4, <2>6, <2>7 DEF SpendInv
  <1> QED
    BY <1>2, <1>3

LEMMA SpendNext ==
    ASSUME OneProcess, SpendInv, EvidenceInv, [Spend!Next]_spendVars
    PROVE  SpendInv'
  <1>1. CASE UNCHANGED spendVars \/ Spend!EditInputs
    <2>1. UNCHANGED <<proc, charges, billed>>
      BY <1>1 DEF spendVars, Spend!EditInputs
    <2>2. \A p \in Procs : Pays(proc[p])'
      BY <2>1 DEF SpendInv, Pays, Billed, Reservation, Spend!Reserved, Spend!None
    <2>3. BillsStand'
      BY <2>1 DEF SpendInv, BillsStand
    <2> QED
      BY <2>1, <2>2, <2>3 DEF SpendInv
  <1>2. ASSUME NEW p \in Procs, Spend!Step(p) \/ Spend!Crash(p) PROVE SpendInv'
    BY <1>2, StageSteps, RoomFound, ReservationMade, Replied, NotReplied, CallSettled
       DEF Spend!Step
  <1> QED
    BY <1>1, <1>2 DEF Spend!Next

LEMMA SpendBegins == ASSUME Spend!Init PROVE SpendInv
  <1>1. /\ charges = <<>> /\ DOMAIN billed = {}
        /\ proc = [p \in Procs |-> Spend!Idle]
    BY DEF Spend!Init
  <1>2. Spend!Replay(<<>>) = Spend!Unspent
    BY ReplayIsFold, Replays!FoldEmpty
  <1>3. Spend!Unspent.open = {} /\ Spend!Unspent.committed = 0 /\ Spend!Unspent \in Accounts
    BY DEF Spend!Unspent, Accounts
  <1>4. Spend!Spent(Spend!Unspent) = 0
    BY <1>3, OpenIsSum, Replays!SumEmpty DEF Spend!Spent
  <1>5. Stands(<<>>)
    <2>1. DOMAIN <<>> = {} /\ IsFiniteSet({}) /\ 0 <= Cap
      BY FS_EmptySet, ReservedIsBounded
    <2> HIDE DEF Spend!Unspent
    <2> QED
      BY <1>2, <1>3, <1>4, <2>1 DEF Stands
  <1>6. \A p \in Procs : proc[p].at = "idle"
    BY <1>1 DEF Spend!Idle
  <1>7. \A p \in Procs : Pays(proc[p])
    BY <1>6 DEF Pays
  <1>8. charges \in Seq(Charges) /\ BillsStand
    BY <1>1 DEF BillsStand
  <1> QED
    BY <1>1, <1>5, <1>7, <1>8 DEF SpendInv

\* Whatever fails or crashes, and whatever the provider bills for and does not report: each
\* reservation fitted what was committed and open, their total is within the caps, and each call
\* is billed at most what a line of the ledger reserved for it before, unless a second process
\* reads the ledger before the first has appended (SpendGuard.reserve, SpendGuard.settle).
THEOREM SpendStaysReserved ==
    ASSUME OneProcess PROVE PaidSpec => []NothingUnreserved
<1> DEFINE Inv == part = "spend" => EvidenceInv /\ SpendInv
<1>0. Undisturbed
  BY DEF OneProcess, Undisturbed
<1>1. part \in PaidParts /\ PaidInit => Inv
  BY EvidenceBegins, SpendBegins DEF PaidInit
<1>2. Inv /\ [PaidNext]_paidVars => Inv'
  BY <1>0, EvidenceNext, SpendNext, Continues
<1>3. Inv => NothingUnreserved
  <2> SUFFICES ASSUME part = "spend", SpendInv PROVE Spend!NothingUnreserved
    BY DEF NothingUnreserved
  <2>1. Spend!Replay(charges).fits /\ Spend!Spent(Spend!Replay(charges)) <= Cap
    BY DEF SpendInv, Stands, Accounts
  <2>2. ASSUME NEW id \in DOMAIN billed
        PROVE  \E e \in Spend!ToSet(charges) :
                  e.type = "reservation" /\ e.id = id /\ billed[id] <= e.usd
    <3>1. PICK i \in DOMAIN charges : charges[i] = Reservation(id)
      BY DEF SpendInv, BillsStand
    <3>2. charges[i] \in Spend!ToSet(charges)
      BY DEF Spend!ToSet
    <3>3. billed[id] <= Spend!Reserved
      BY ReservedIsBounded DEF SpendInv, BillsStand
    <3> QED
      BY <3>1, <3>2, <3>3 DEF Reservation
  <2> QED
    BY <2>1, <2>2 DEF Spend!NothingUnreserved
<1> QED
  BY <1>1, <1>2, <1>3, PTL DEF PaidSpec
=============================================================================
