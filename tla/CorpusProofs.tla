---------------------------- MODULE CorpusProofs ----------------------------
(***************************************************************************)
(* What an ingestion leaves behind, and what a recorded evaluation         *)
(* measured, for any corpus, registration and number of ingestions.        *)
(***************************************************************************)
EXTENDS CorpusEvaluation, TLAPS

\* The records have their fields, and nothing else.
Shapes ==
    /\ eval = [at |-> eval.at, manifest |-> eval.manifest, left |-> eval.left,
               found |-> eval.found, measured |-> eval.measured]
    /\ store = [status |-> store.status, metrics |-> store.metrics]

Before == {"new", "guarded", "counted", "matched"}
Within == {"retrieving", "found", "recording"}

\* What the harness measured is in the manifest it read.
Declared(d) == <<d.path, d.hash>> \in eval.manifest.fingerprint /\ d.mode = RegisteredMode

\* What each guard has made sure of stays so while no document is committed.
Guarded ==
    /\ eval.at \in (Before \ {"new"}) \cup Within => eval.manifest.mode = RegisteredMode
    /\ quiet /\ eval.at \in {"matched"} \cup Within => Contained = eval.manifest.fingerprint
    /\ quiet /\ eval.at \in Within => IndexingModes = {eval.manifest.mode}

Recorded ==
    /\ eval.at \in Before => eval.measured = {} /\ store = NoRun
    /\ eval.at # "done" => store.status # "FINISHED"
    /\ store.status = "FINISHED" => store.metrics = AllMetrics

Measured == quiet => \A d \in eval.measured : Declared(d)

IInv == Shapes /\ Guarded /\ Recorded /\ Measured

----------------------------------------------------------------------------

(* Every step keeps the invariant: an ingestion only by ending the quiet.   *)
(* run_evaluation.py: assert_corpus_matches_manifest, run, _record.         *)
LEMMA Inductive == IInv /\ [CorpusNext]_corpusVars => IInv'
  <1> SUFFICES ASSUME IInv, [CorpusNext]_corpusVars PROVE IInv'
    OBVIOUS
  <1> USE DEF IInv
  <1>1. CASE UNCHANGED corpusVars
    BY <1>1 DEF corpusVars, evalVars, ingestVars, Shapes, Guarded, Recorded, Measured, Declared,
                Contained, IndexingModes
  <1>2. CASE Corpus
    <2>1. UNCHANGED <<eval, store>> /\ (quiet' => quiet /\ documents' = documents)
      BY <1>2 DEF Corpus
    <2> QED
      BY <2>1 DEF Shapes, Guarded, Recorded, Measured, Declared, Contained, IndexingModes
  <1>3. ASSUME NEW changed, Step(changed), changed.manifest = eval.manifest,
               changed.measured = eval.measured
        PROVE  /\ Contained' = Contained /\ IndexingModes' = IndexingModes /\ quiet' = quiet
               /\ Measured' /\ eval' = changed
    BY <1>3 DEF Step, ingestVars, Contained, IndexingModes, Measured, Declared
  <1>4. CASE ReadManifest
    <2>1. CASE GuardFails
      BY <2>1, <1>3, <1>4
      DEF GuardFails, ReadManifest, Step, Shapes, Guarded, Recorded, Before, Within, NoRun
    <2>2. CASE /\ ManifestIsRegistered(manifest)
               /\ Step([eval EXCEPT !.at = "guarded", !.manifest = manifest])
               /\ UNCHANGED store
      BY <2>2, <1>4
      DEF ReadManifest, ManifestIsRegistered, Step, Shapes, Guarded, Recorded, Measured,
          Before, Within
    <2> QED
      BY <2>1, <2>2, <1>4 DEF ReadManifest
  <1>5. CASE CheckCounts
    BY <1>3, <1>5
    DEF CheckCounts, GuardFails, Step, Shapes, Guarded, Recorded, Before, Within, NoRun
  <1>6. CASE CheckContents
    BY <1>6
    DEF CheckContents, Contained, ingestVars, Shapes, Guarded, Recorded, Measured, Before,
        Within, NoRun
  <1>7. CASE CheckModes
    BY <1>3, <1>7
    DEF CheckModes, ModesMatch, GuardFails, Step, Shapes, Guarded, Recorded, Before, Within,
        NoRun
  <1>8. CASE Search
    <2>1. PICK found : Step([eval EXCEPT !.at = "found", !.found = found])
      BY <1>8 DEF Search
    <2>2. eval.at = "retrieving" /\ UNCHANGED store
      BY <1>8 DEF Search
    <2>3. eval' = [at |-> "found", manifest |-> eval.manifest, left |-> eval.left,
                   found |-> found, measured |-> eval.measured]
      BY <2>1 DEF Step, Shapes
    <2> QED
      BY <1>3, <2>1, <2>2, <2>3 DEF Shapes, Guarded, Recorded, Before, Within
  <1>9. CASE LookUpPaths
    <2>1. CASE Step([eval EXCEPT !.at = "raised"])
      BY <1>3, <1>9, <2>1 DEF LookUpPaths, Step, Shapes, Guarded, Recorded, Before, Within
    <2>2. CASE eval.found \subseteq documents
      <3>1. PICK q \in eval.left :
                Step([eval EXCEPT !.at = "retrieving", !.left = @ \ {q}, !.found = {},
                                  !.measured = @ \cup eval.found])
        BY <1>9, <2>2 DEF LookUpPaths
      <3>2. eval.at = "found" /\ UNCHANGED <<ingestVars, quiet, store>>
        BY <1>9, <3>1 DEF LookUpPaths, Step
      <3>3. eval' = [at |-> "retrieving", manifest |-> eval.manifest, left |-> eval.left \ {q},
                     found |-> {}, measured |-> eval.measured \cup eval.found]
        BY <3>1 DEF Step, Shapes
      <3>4. Contained' = Contained /\ IndexingModes' = IndexingModes
        BY <3>2 DEF ingestVars, Contained, IndexingModes
      <3>5. quiet => \A d \in eval.found : Declared(d)
        <4> SUFFICES ASSUME quiet, NEW d \in eval.found PROVE Declared(d)
          OBVIOUS
        <4>1. <<d.path, d.hash>> \in Contained /\ d.mode \in IndexingModes
          BY <2>2 DEF Contained, IndexingModes
        <4> QED
          BY <4>1, <3>2 DEF Guarded, Within, Declared
      <3>6. Measured'
        BY <3>2, <3>3, <3>5 DEF Measured, Declared
      <3> QED
        BY <3>2, <3>3, <3>4, <3>6 DEF Shapes, Guarded, Recorded, Before, Within
    <2> QED
      BY <1>9, <2>1, <2>2 DEF LookUpPaths
  <1>10. CASE CreateRun
    BY <1>3, <1>10 DEF CreateRun, Step, Shapes, Guarded, Recorded, Before, Within
  <1>11. CASE LogMetrics
    BY <1>3, <1>11 DEF LogMetrics, Step, Shapes, Guarded, Recorded, Before, Within
  <1>12. CASE FinishRun
    BY <1>3, <1>12 DEF FinishRun, Step, Shapes, Guarded, Recorded, Before, Within
  <1>13. CASE EvaluationStops
    BY <1>3, <1>13 DEF EvaluationStops, Step, Shapes, Guarded, Recorded, Before, Within
  <1> QED
    BY <1>1, <1>2, <1>4, <1>5, <1>6, <1>7, <1>8, <1>9, <1>10, <1>11, <1>12, <1>13
    DEF CorpusNext, EvalNext

(* A recorded run beside which no document was committed after it compared  *)
(* the contents measured what its manifest declares, in the registered      *)
(* mode, and is finished only with every metric.  run_evaluation.py.        *)
THEOREM RecordedRunsAreSound == CorpusSpec => []MeasuredWhatItDeclares
  <1>1. CorpusInit => IInv
    BY DEF CorpusInit, IInv, Shapes, Guarded, Recorded, Measured, Before, Within, NoRun
  <1>2. IInv => MeasuredWhatItDeclares
    BY DEF IInv, Measured, Declared, Recorded, MeasuredWhatItDeclares
  <1> QED
    BY <1>1, <1>2, Inductive, PTL DEF CorpusSpec

----------------------------------------------------------------------------
(* The ingestion.                                                           *)

Whole(d) == d.chunks = 1 .. Chunks[d.hash]

Fields(r) ==
    r = [at |-> r.at, mode |-> r.mode, files |-> r.files, todo |-> r.todo, tx |-> r.tx,
         draft |-> r.draft]

\* An ingestion has its fields, and a file once; its transaction is about one of the files that
\* it has taken.
RunIsSound(i) ==
    LET r == run[i]
    IN  /\ Fields(r)
        /\ r.todo \subseteq r.files
        /\ \A f, g \in r.files : f[1] = g[1] => f = g
        /\ r.at \in {"document", "indexed"} =>
              \E f \in r.files \ r.todo :
                  r.tx = [old |-> r.tx.old,
                          new |-> [path |-> f[1], hash |-> f[2], mode |-> r.mode, by |-> i,
                                   chunks |-> r.tx.new.chunks]]
        /\ r.at = "document" => r.tx.new.chunks = {}
        /\ r.at = "indexed" => Whole(r.tx.new)

Runs ==
    /\ run = [i \in Ingests |-> run[i]]
    /\ \A i \in Ingests : RunIsSound(i)
    /\ latest \in Ingests
    /\ \A d \in documents : Whole(d)

\* What follows is about the latest ingestion, as long as none overlapped another.
Alone == \A i \in Ingests : Active(i) => i = latest

OnePerPath == \A d, e \in documents : d.path = e.path => d = e

Ingested(file, mode) ==
    \E d \in documents : d.path = file[1] /\ d.hash = file[2] /\ d.mode = mode

\* A file that was taken is in the corpus, or in the transaction.
Taken ==
    Active(latest) \/ run[latest].at = "done" =>
        \A file \in run[latest].files \ run[latest].todo :
            \/ run[latest].at \in {"document", "indexed"} /\ run[latest].tx.new.path = file[1]
            \/ Ingested(file, run[latest].mode)

\* The transaction deletes what the corpus holds of its path.
Replaces ==
    run[latest].at \in {"document", "indexed"} =>
        run[latest].tx.old = {d \in documents : d.path = run[latest].tx.new.path}

\* The counts and the contents read so far are those of the corpus.
Reads ==
    /\ run[latest].at \in {"counted", "read", "done"} => run[latest].todo = {}
    /\ run[latest].at \in {"counted", "read"} =>
          /\ run[latest].draft.document_count = Cardinality(documents)
          /\ run[latest].draft.chunk_count = Cardinality(ChunkRows)
    /\ run[latest].at = "read" => run[latest].draft.fingerprint = Contained
    /\ run[latest].at = "done" =>
          /\ manifest.document_count = Cardinality(documents)
          /\ manifest.chunk_count = Cardinality(ChunkRows)
          /\ manifest.fingerprint = Contained

IngestInv == Runs /\ (~overlapped => Alone /\ OnePerPath /\ Taken /\ Replaces /\ Reads)

(* The invariant is what the property needs: a path has one document, and   *)
(* the files of an ingestion that is done are all taken.                    *)
LEMMA Sufficient == IngestInv => IngestIsComplete
  <1> SUFFICES ASSUME IngestInv, ~overlapped, run[latest].at = "done"
               PROVE  IngestIsComplete
    BY DEF IngestIsComplete
  <1>1. run[latest].todo = {} /\ run[latest].at \notin {"document", "indexed"}
    BY DEF IngestInv, Reads
  <1>2. ASSUME NEW file \in run[latest].files
        PROVE  {<<d.hash, d.mode, d.chunks>> : d \in {e \in documents : e.path = file[1]}}
                   = {<<file[2], run[latest].mode, 1 .. Chunks[file[2]]>>}
    <2>1. PICK d \in documents :
              d.path = file[1] /\ d.hash = file[2] /\ d.mode = run[latest].mode
      BY <1>1, <1>2 DEF IngestInv, Taken, Ingested
    <2>2. {e \in documents : e.path = file[1]} = {d}
      BY <2>1 DEF IngestInv, OnePerPath
    <2>3. d.chunks = 1 .. Chunks[file[2]]
      BY <2>1 DEF IngestInv, Runs, Whole
    <2> QED
      BY <2>1, <2>2, <2>3
  <1> QED
    BY <1>2 DEF IngestInv, Reads, IngestIsComplete

(* What a step of ingestion i does to the others.                           *)
LEMMA OnlyOne ==
    ASSUME Runs, NEW i \in Ingests, NEW STATE changed, Goes(i, changed)
    PROVE  /\ run' = [j \in Ingests |-> run'[j]] /\ run'[i] = changed
           /\ \A j \in Ingests \ {i} : run'[j] = run[j]
           /\ \A j \in Ingests \ {i} : RunIsSound(j)' /\ (Active(j)' <=> Active(j))
  <1>1. run = [j \in Ingests |-> run[j]] /\ run' = [run EXCEPT ![i] = changed]
    BY DEF Runs, Goes
  <1>2. run' = [j \in Ingests |-> IF j = i THEN changed ELSE run[j]]
    BY <1>1
  <1>3. /\ run' = [j \in Ingests |-> run'[j]] /\ run'[i] = changed
        /\ \A j \in Ingests \ {i} : run'[j] = run[j]
    BY <1>2
  <1>4. ASSUME NEW j \in Ingests \ {i} PROVE RunIsSound(j)' /\ (Active(j)' <=> Active(j))
    <2>1. run'[j] = run[j] /\ RunIsSound(j)
      BY <1>3 DEF Runs
    <2>2. Active(j)' <=> Active(j)
      BY <2>1 DEF Active
    <2>3. RunIsSound(j)'
      BY <2>1 DEF RunIsSound, Whole
    <2> QED
      BY <2>2, <2>3
  <1> QED
    BY <1>3, <1>4

(* An edit or a commit of the worktree changes nothing of an ingestion.     *)
LEMMA IngestionKept ==
    ASSUME IngestInv, UNCHANGED <<documents, run, latest, overlapped, manifest>>
    PROVE  IngestInv'
  <1>1. Runs'
    <2>1. ASSUME NEW i \in Ingests PROVE RunIsSound(i)'
      <3>1. RunIsSound(i)
        BY DEF IngestInv, Runs
      <3> QED
        BY <3>1 DEF RunIsSound, Whole
    <2> QED
      BY <2>1 DEF IngestInv, Runs, Whole
  <1>2. (Alone' <=> Alone) /\ (OnePerPath' <=> OnePerPath) /\ (Replaces' <=> Replaces)
    BY DEF Alone, Active, OnePerPath, Replaces
  <1>3. (Taken' <=> Taken) /\ (Reads' <=> Reads)
    BY DEF Taken, Active, Ingested, Reads, ChunkRows, Contained
  <1> QED
    BY <1>1, <1>2, <1>3 DEF IngestInv

(* The first step of an ingestion; it is the latest then.                   *)
LEMMA DiscoverKeeps == ASSUME IngestInv, NEW i \in Ingests, Discover(i) PROVE IngestInv'
  <1>1. PICK mode \in Modes :
            Goes(i, [at |-> "next", mode |-> mode, files |-> Files, todo |-> Files,
                     tx |-> NoTx, draft |-> NoManifest])
    BY DEF Discover
  <1>2. /\ latest' = i /\ UNCHANGED <<documents, manifest>>
        /\ overlapped' = (overlapped \/ \E j \in Ingests : Active(j))
    BY DEF Discover
  <1>3. /\ run' = [j \in Ingests |-> run'[j]]
        /\ run'[i] = [at |-> "next", mode |-> mode, files |-> Files, todo |-> Files,
                      tx |-> NoTx, draft |-> NoManifest]
        /\ \A j \in Ingests \ {i} : RunIsSound(j)' /\ (Active(j)' <=> Active(j))
    <2>1. Runs
      BY DEF IngestInv
    <2> QED
      BY <1>1, <2>1, OnlyOne
  <1>4. \A f, g \in Files : f[1] = g[1] => f = g
    BY DEF Files
  <1>5. RunIsSound(i)'
    BY <1>3, <1>4 DEF RunIsSound, Fields
  <1>6. Runs'
    BY <1>2, <1>3, <1>5 DEF IngestInv, Runs, Whole
  <1>7. ASSUME ~overlapped' PROVE Alone' /\ OnePerPath' /\ Taken' /\ Replaces' /\ Reads'
    <2>1. ~overlapped /\ \A j \in Ingests : ~Active(j)
      BY <1>2, <1>7
    <2>2. Alone'
      BY <1>2, <1>3, <2>1 DEF Alone
    <2>3. OnePerPath'
      BY <1>2, <2>1 DEF IngestInv, OnePerPath
    <2>4. Taken'
      BY <1>2, <1>3 DEF Taken
    <2>5. Replaces' /\ Reads'
      BY <1>2, <1>3 DEF Replaces, Reads
    <2> QED
      BY <2>2, <2>3, <2>4, <2>5
  <1> QED
    BY <1>6, <1>7 DEF IngestInv

(* A step of an active ingestion that leaves the corpus alone: what is left *)
(* to show is about its own record.                                         *)
LEMMA OwnStep ==
    ASSUME IngestInv, NEW i \in Ingests, NEW STATE changed, Active(i), Goes(i, changed),
           UNCHANGED <<documents, latest, overlapped>>, RunIsSound(i)',
           ~overlapped /\ i = latest /\ latest' = i => Taken' /\ Replaces' /\ Reads'
    PROVE  IngestInv'
  <1>1. /\ run' = [j \in Ingests |-> run'[j]]
        /\ \A j \in Ingests \ {i} : RunIsSound(j)' /\ (Active(j)' <=> Active(j))
    BY OnlyOne DEF IngestInv
  <1>2. Runs'
    BY <1>1 DEF IngestInv, Runs, Whole
  <1>3. ASSUME ~overlapped' PROVE Alone' /\ OnePerPath' /\ Taken' /\ Replaces' /\ Reads'
    <2>1. i = latest /\ latest' = i
      BY <1>3 DEF IngestInv, Alone
    <2>2. Alone' /\ OnePerPath'
      BY <1>1, <1>3, <2>1 DEF IngestInv, Alone, OnePerPath
    <2> QED
      BY <1>3, <2>1, <2>2
  <1> QED
    BY <1>2, <1>3 DEF IngestInv

(* The record of an ingestion, and what is known of it.                     *)
LEMMA OwnRun ==
    ASSUME IngestInv, NEW i \in Ingests, NEW STATE changed, Goes(i, changed)
    PROVE  /\ Fields(run[i]) /\ RunIsSound(i) /\ run'[i] = changed
           /\ ~overlapped /\ Active(i) => i = latest
  BY OnlyOne DEF IngestInv, Runs, RunIsSound, Alone

(* What there is of a path, while no two ingestions overlapped.             *)
LEMMA AllOfPath ==
    ASSUME OnePerPath, NEW path, NEW found \in Existing(path)
    PROVE  found = {d \in documents : d.path = path}
  <1> DEFINE rows == {d \in documents : d.path = path}
  <1>1. CASE rows = {}
    BY <1>1 DEF Existing
  <1>2. CASE rows # {}
    <2>1. PICK d \in rows : found = {d}
      BY <1>2 DEF Existing
    <2>2. \A e \in rows : e = d
      BY DEF OnePerPath
    <2> QED
      BY <2>1, <2>2
  <1> QED
    BY <1>1, <1>2

(* A file that is skipped is in the corpus already.                         *)
LEMMA SkipKeeps == ASSUME IngestInv, NEW i \in Ingests, Skip(i) PROVE IngestInv'
  <1>1. PICK file, changed :
            /\ file \in run[i].todo
            /\ \E found \in Existing(file[1]) : IsCurrent(found, file, run[i].mode)
            /\ changed = [run[i] EXCEPT !.todo = @ \ {file}]
            /\ Goes(i, changed)
    BY DEF Skip
  <1>2. /\ run[i].at = "next" /\ Active(i)
        /\ UNCHANGED <<documents, latest, overlapped, manifest>>
    BY DEF Skip, Active
  <1>3. Fields(run[i]) /\ RunIsSound(i) /\ run'[i] = changed
    BY <1>1, OwnRun
  <1>4. /\ Fields(changed) /\ changed.at = "next" /\ changed.mode = run[i].mode
        /\ changed.files = run[i].files /\ changed.todo = run[i].todo \ {file}
    <2>1. PICK r : r = run[i]
      OBVIOUS
    <2> QED
      BY <1>1, <1>2, <1>3, <2>1 DEF Fields
  <1>5. RunIsSound(i)'
    BY <1>3, <1>4 DEF RunIsSound
  <1>6. Ingested(file, run[i].mode)
    <2>1. PICK found \in Existing(file[1]) : IsCurrent(found, file, run[i].mode)
      BY <1>1
    <2>2. PICK d \in found : Fingerprint(d) = <<file[2], run[i].mode>>
      BY <2>1 DEF IsCurrent
    <2>3. d \in documents /\ d.path = file[1]
      BY <2>1, <2>2 DEF Existing
    <2> QED
      BY <2>2, <2>3 DEF Fingerprint, Ingested
  <1>7. ASSUME ~overlapped, i = latest, latest' = i PROVE Taken' /\ Replaces' /\ Reads'
    <2>1. Taken'
      BY <1>2, <1>3, <1>4, <1>6, <1>7 DEF IngestInv, Taken, Ingested, Active
    <2>2. Replaces' /\ Reads'
      BY <1>3, <1>4, <1>7 DEF Replaces, Reads
    <2> QED
      BY <2>1, <2>2
  <1> QED
    BY <1>1, <1>2, <1>5, <1>7, OwnStep

(* A replacement takes a file, and every row of its path.                   *)
LEMMA ReplaceKeeps == ASSUME IngestInv, NEW i \in Ingests, Replace(i) PROVE IngestInv'
  <1>1. PICK file, found, tx, changed :
            /\ file \in run[i].todo
            /\ found \in Existing(file[1])
            /\ tx = [old |-> found,
                     new |-> [path |-> file[1], hash |-> file[2], mode |-> run[i].mode,
                              by |-> i, chunks |-> {}]]
            /\ changed = [run[i] EXCEPT !.at = "document", !.todo = @ \ {file}, !.tx = tx]
            /\ Goes(i, changed)
    BY DEF Replace
  <1>2. /\ run[i].at = "next" /\ Active(i)
        /\ UNCHANGED <<documents, latest, overlapped, manifest>>
    BY DEF Replace, Active
  <1>3. Fields(run[i]) /\ RunIsSound(i) /\ run'[i] = changed
    BY <1>1, OwnRun
  <1>4. /\ Fields(changed) /\ changed.at = "document" /\ changed.mode = run[i].mode
        /\ changed.files = run[i].files /\ changed.todo = run[i].todo \ {file}
        /\ changed.tx = tx
    <2>1. PICK r : r = run[i]
      OBVIOUS
    <2> QED
      BY <1>1, <1>2, <1>3, <2>1 DEF Fields
  <1>5. RunIsSound(i)'
    <2>1. file \in changed.files \ changed.todo
      BY <1>1, <1>3, <1>4 DEF RunIsSound
    <2>2. tx = [old |-> tx.old,
                new |-> [path |-> file[1], hash |-> file[2], mode |-> changed.mode, by |-> i,
                         chunks |-> tx.new.chunks]]
      BY <1>1, <1>4
    <2>3. tx.new.chunks = {}
      BY <1>1
    <2> QED
      BY <1>3, <1>4, <2>1, <2>2, <2>3 DEF RunIsSound
  <1>6. ASSUME ~overlapped, i = latest, latest' = i PROVE Taken' /\ Replaces' /\ Reads'
    <2>1. tx.old = {d \in documents : d.path = file[1]} /\ tx.new.path = file[1]
      BY <1>1, <1>6, AllOfPath DEF IngestInv
    <2>2. Taken'
      BY <1>2, <1>3, <1>4, <1>6, <2>1 DEF IngestInv, Taken, Ingested, Active
    <2>3. Replaces' /\ Reads'
      BY <1>2, <1>3, <1>4, <1>6, <2>1 DEF Replaces, Reads
    <2> QED
      BY <2>2, <2>3
  <1> QED
    BY <1>1, <1>2, <1>5, <1>6, OwnStep

(* Chunks are written to the row of the transaction.                        *)
LEMMA IndexKeeps == ASSUME IngestInv, NEW i \in Ingests, Index(i) PROVE IngestInv'
  <1>1. PICK changed :
            /\ changed = [run[i] EXCEPT !.at = "indexed",
                                        !.tx.new.chunks = 1 .. Chunks[run[i].tx.new.hash]]
            /\ Goes(i, changed)
    BY DEF Index
  <1>2. /\ run[i].at = "document" /\ Active(i)
        /\ UNCHANGED <<documents, latest, overlapped, manifest>>
    BY DEF Index, Active
  <1>3. Fields(run[i]) /\ RunIsSound(i) /\ run'[i] = changed
    BY <1>1, OwnRun
  <1>4. PICK f \in run[i].files \ run[i].todo :
            run[i].tx = [old |-> run[i].tx.old,
                         new |-> [path |-> f[1], hash |-> f[2], mode |-> run[i].mode, by |-> i,
                                  chunks |-> run[i].tx.new.chunks]]
    BY <1>2, <1>3 DEF RunIsSound
  <1>5. /\ Fields(changed) /\ changed.at = "indexed" /\ changed.mode = run[i].mode
        /\ changed.files = run[i].files /\ changed.todo = run[i].todo
        /\ changed.tx = [old |-> run[i].tx.old,
                         new |-> [path |-> f[1], hash |-> f[2], mode |-> run[i].mode, by |-> i,
                                  chunks |-> 1 .. Chunks[f[2]]]]
    <2>1. PICK r, tx, new : r = run[i] /\ tx = r.tx /\ new = tx.new
      OBVIOUS
    <2>2. PICK written : written = [new EXCEPT !.chunks = 1 .. Chunks[new.hash]]
      OBVIOUS
    <2>3. new = [path |-> f[1], hash |-> f[2], mode |-> r.mode, by |-> i, chunks |-> new.chunks]
      BY <1>4, <2>1
    <2>4. written = [path |-> f[1], hash |-> f[2], mode |-> r.mode, by |-> i,
                     chunks |-> 1 .. Chunks[f[2]]]
      BY <2>2, <2>3
    <2>5. PICK after : after = [tx EXCEPT !.new = written]
      OBVIOUS
    <2>6. after = [old |-> tx.old, new |-> written]
      BY <1>4, <2>1, <2>5
    <2>7. changed = [r EXCEPT !.at = "indexed", !.tx = after]
      BY <1>1, <2>1, <2>2, <2>5, Zenon
    <2> QED
      BY <1>3, <2>1, <2>4, <2>6, <2>7 DEF Fields
  <1>6. RunIsSound(i)'
    <2>1. /\ f \in changed.files \ changed.todo
          /\ changed.tx = [old |-> changed.tx.old,
                           new |-> [path |-> f[1], hash |-> f[2], mode |-> changed.mode,
                                    by |-> i, chunks |-> changed.tx.new.chunks]]
      BY <1>4, <1>5
    <2>2. changed.tx.new.chunks = 1 .. Chunks[changed.tx.new.hash]
      BY <1>5
    <2> QED
      BY <1>3, <1>5, <2>1, <2>2 DEF RunIsSound, Whole
  <1>7. ASSUME ~overlapped, i = latest, latest' = i PROVE Taken' /\ Replaces' /\ Reads'
    <2>1. run[i].tx.new.path = f[1] /\ changed.tx.new.path = f[1] /\ changed.tx.old = run[i].tx.old
      BY <1>4, <1>5
    <2>2. Taken'
      BY <1>2, <1>3, <1>5, <1>7, <2>1 DEF IngestInv, Taken, Ingested, Active
    <2>3. Replaces' /\ Reads'
      BY <1>2, <1>3, <1>5, <1>7, <2>1 DEF IngestInv, Replaces, Reads
    <2> QED
      BY <2>2, <2>3
  <1> QED
    BY <1>1, <1>2, <1>6, <1>7, OwnStep

(* A run that failed answers for nothing.                                   *)
LEMMA FailKeeps == ASSUME IngestInv, NEW i \in Ingests, Fail(i) PROVE IngestInv'
  <1>1. PICK changed : /\ changed = [run[i] EXCEPT !.at = "failed", !.tx = NoTx]
                       /\ Goes(i, changed)
    BY DEF Fail
  <1>2. Active(i) /\ UNCHANGED <<documents, latest, overlapped, manifest>>
    BY DEF Fail
  <1>3. Fields(run[i]) /\ RunIsSound(i) /\ run'[i] = changed
    BY <1>1, OwnRun
  <1>4. /\ Fields(changed) /\ changed.at = "failed" /\ changed.files = run[i].files
        /\ changed.todo = run[i].todo
    <2>1. PICK r : r = run[i]
      OBVIOUS
    <2> QED
      BY <1>1, <1>3, <2>1 DEF Fields
  <1>5. RunIsSound(i)'
    BY <1>3, <1>4 DEF RunIsSound
  <1>6. ASSUME latest' = i PROVE Taken' /\ Replaces' /\ Reads'
    BY <1>3, <1>4, <1>6 DEF Taken, Active, Replaces, Reads
  <1> QED
    BY <1>1, <1>2, <1>5, <1>6, OwnStep

(* A commit: the document takes the place of what its path had.             *)
LEMMA CommitKeeps == ASSUME IngestInv, NEW i \in Ingests, Commit(i) PROVE IngestInv'
  <1>1. PICK changed : /\ changed = [run[i] EXCEPT !.at = "next", !.tx = NoTx]
                       /\ Goes(i, changed)
    BY DEF Commit
  <1> DEFINE tx == run[i].tx
  <1>2. /\ documents' = (documents \ tx.old) \cup {tx.new}
        /\ UNCHANGED <<latest, overlapped>>
    BY DEF Commit
  <1>3. run[i].at \in {"document", "indexed"} /\ Active(i)
    BY DEF Commit, MayCommit, Active
  <1>4. /\ Fields(run[i]) /\ RunIsSound(i) /\ run'[i] = changed /\ run' = [j \in Ingests |-> run'[j]]
        /\ \A j \in Ingests \ {i} : RunIsSound(j)' /\ (Active(j)' <=> Active(j))
    BY <1>1, OwnRun, OnlyOne DEF IngestInv
  <1>5. PICK f \in run[i].files \ run[i].todo :
            tx = [old |-> tx.old,
                  new |-> [path |-> f[1], hash |-> f[2], mode |-> run[i].mode, by |-> i,
                           chunks |-> tx.new.chunks]]
    BY <1>3, <1>4 DEF RunIsSound
  <1>6. /\ Fields(changed) /\ changed.at = "next" /\ changed.mode = run[i].mode
        /\ changed.files = run[i].files /\ changed.todo = run[i].todo
    <2>1. PICK r : r = run[i]
      OBVIOUS
    <2> QED
      BY <1>1, <1>4, <2>1 DEF Fields
  <1>7. RunIsSound(i)'
    BY <1>4, <1>6 DEF RunIsSound
  <1>8. Whole(tx.new)
    <2>1. CASE run[i].at = "indexed"
      BY <1>4, <2>1 DEF RunIsSound
    <2>2. CASE run[i].at = "document"
      <3>1. tx.new.chunks = {}
        BY <1>4, <2>2 DEF RunIsSound
      <3>2. Chunks[tx.new.hash] = 0
        BY <2>2 DEF Commit, MayCommit
      <3> QED
        BY <3>1, <3>2 DEF Whole
    <2> QED
      BY <1>3, <2>1, <2>2
  <1>9. Runs'
    BY <1>2, <1>4, <1>7, <1>8 DEF IngestInv, Runs, Whole
  <1>10. ASSUME ~overlapped' PROVE Alone' /\ OnePerPath' /\ Taken' /\ Replaces' /\ Reads'
    <2>1. ~overlapped /\ i = latest /\ latest' = i
      BY <1>2, <1>3, <1>10 DEF IngestInv, Alone
    <2>2. tx.old = {d \in documents : d.path = f[1]} /\ tx.new.path = f[1]
      BY <1>3, <1>5, <2>1 DEF IngestInv, Replaces
    <2>3. \A d \in documents' : d = tx.new \/ (d \in documents /\ d.path # f[1])
      BY <1>2, <2>2
    <2>4. Alone'
      BY <1>4, <2>1 DEF IngestInv, Alone
    <2>5. OnePerPath'
      BY <2>1, <2>2, <2>3 DEF IngestInv, OnePerPath
    <2>6. ASSUME NEW file \in run[i].files \ run[i].todo
          PROVE  \E d \in documents' :
                    d.path = file[1] /\ d.hash = file[2] /\ d.mode = run[i].mode
      <3>1. CASE file[1] = f[1]
        <4>1. file = f
          BY <1>4, <3>1 DEF RunIsSound
        <4> QED
          BY <1>2, <1>5, <4>1
      <3>2. CASE file[1] # f[1]
        <4>1. PICK d \in documents :
                  d.path = file[1] /\ d.hash = file[2] /\ d.mode = run[i].mode
          BY <1>3, <2>1, <2>2, <2>6, <3>2 DEF IngestInv, Taken, Ingested
        <4>2. d \in documents'
          BY <1>2, <2>2, <3>2, <4>1
        <4> QED
          BY <4>1, <4>2
      <3> QED
        BY <3>1, <3>2
    <2>7. Taken'
      BY <1>4, <1>6, <2>1, <2>6 DEF Taken, Ingested
    <2>8. Replaces' /\ Reads'
      BY <1>4, <1>6, <2>1 DEF Replaces, Reads
    <2> QED
      BY <2>4, <2>5, <2>7, <2>8
  <1> QED
    BY <1>9, <1>10 DEF IngestInv

(* The counts are those of the corpus, which nobody else changes meanwhile. *)
LEMMA CountRowsKeeps == ASSUME IngestInv, NEW i \in Ingests, CountRows(i) PROVE IngestInv'
  <1>1. PICK draft, changed :
            /\ draft = [document_count |-> Cardinality(documents),
                        chunk_count |-> Cardinality(ChunkRows)]
            /\ changed = [run[i] EXCEPT !.at = "counted", !.draft = draft]
            /\ Goes(i, changed)
    BY DEF CountRows
  <1>2. /\ run[i].at = "next" /\ run[i].todo = {} /\ Active(i)
        /\ UNCHANGED <<documents, latest, overlapped, manifest>>
    BY DEF CountRows, Active
  <1>3. Fields(run[i]) /\ RunIsSound(i) /\ run'[i] = changed
    BY <1>1, OwnRun
  <1>4. /\ Fields(changed) /\ changed.at = "counted" /\ changed.mode = run[i].mode
        /\ changed.files = run[i].files /\ changed.todo = {} /\ changed.draft = draft
    <2>1. PICK r : r = run[i]
      OBVIOUS
    <2> QED
      BY <1>1, <1>2, <1>3, <2>1 DEF Fields
  <1>5. RunIsSound(i)'
    BY <1>3, <1>4 DEF RunIsSound
  <1>6. ASSUME ~overlapped, i = latest, latest' = i PROVE Taken' /\ Replaces' /\ Reads'
    <2>1. Taken'
      BY <1>2, <1>3, <1>4, <1>6 DEF IngestInv, Taken, Ingested, Active
    <2>2. Replaces'
      BY <1>2, <1>3, <1>4, <1>6 DEF Replaces
    <2>3. /\ changed.draft.document_count = Cardinality(documents)
          /\ changed.draft.chunk_count = Cardinality(ChunkRows)
      BY <1>1, <1>4
    <2>4. UNCHANGED ChunkRows
      BY <1>2 DEF ChunkRows
    <2>5. Reads'
      BY <1>2, <1>3, <1>4, <1>6, <2>3, <2>4 DEF Reads
    <2> QED
      BY <2>1, <2>2, <2>5
  <1> QED
    BY <1>1, <1>2, <1>5, <1>6, OwnStep

(* So are the contents.                                                     *)
LEMMA ReadContentsKeeps == ASSUME IngestInv, NEW i \in Ingests, ReadContents(i) PROVE IngestInv'
  <1>1. PICK draft, changed :
            /\ draft = [document_count |-> run[i].draft.document_count,
                        chunk_count |-> run[i].draft.chunk_count,
                        fingerprint |-> Contained]
            /\ changed = [run[i] EXCEPT !.at = "read", !.draft = draft]
            /\ Goes(i, changed)
    BY DEF ReadContents
  <1>2. /\ run[i].at = "counted" /\ Active(i)
        /\ UNCHANGED <<documents, latest, overlapped, manifest>>
    BY DEF ReadContents, Active
  <1>3. Fields(run[i]) /\ RunIsSound(i) /\ run'[i] = changed
    BY <1>1, OwnRun
  <1>4. /\ Fields(changed) /\ changed.at = "read" /\ changed.mode = run[i].mode
        /\ changed.files = run[i].files /\ changed.todo = run[i].todo /\ changed.draft = draft
    <2>1. PICK r : r = run[i]
      OBVIOUS
    <2> QED
      BY <1>1, <1>2, <1>3, <2>1 DEF Fields
  <1>5. RunIsSound(i)'
    BY <1>3, <1>4 DEF RunIsSound
  <1>6. ASSUME ~overlapped, i = latest, latest' = i PROVE Taken' /\ Replaces' /\ Reads'
    <2>1. Taken'
      BY <1>2, <1>3, <1>4, <1>6 DEF IngestInv, Taken, Ingested, Active
    <2>2. Replaces'
      BY <1>2, <1>3, <1>4, <1>6 DEF Replaces
    <2>3. /\ changed.todo = {}
          /\ changed.draft.document_count = Cardinality(documents)
          /\ changed.draft.chunk_count = Cardinality(ChunkRows)
          /\ changed.draft.fingerprint = Contained
      BY <1>1, <1>2, <1>4, <1>6 DEF IngestInv, Reads
    <2>4. UNCHANGED <<ChunkRows, Contained>>
      BY <1>2 DEF ChunkRows, Contained
    <2>5. Reads'
      BY <1>2, <1>3, <1>4, <1>6, <2>3, <2>4 DEF Reads
    <2> QED
      BY <2>1, <2>2, <2>5
  <1> QED
    BY <1>1, <1>2, <1>5, <1>6, OwnStep

(* And the manifest says so, or is not written.                             *)
LEMMA WriteManifestKeeps ==
    ASSUME IngestInv, NEW i \in Ingests, WriteManifest(i) PROVE IngestInv'
  <1>1. PICK at, changed :
            /\ changed = [run[i] EXCEPT !.at = at] /\ Goes(i, changed)
            /\ \/ at = "failed"
               \/ /\ at = "done"
                  /\ manifest'.document_count = run[i].draft.document_count
                  /\ manifest'.chunk_count = run[i].draft.chunk_count
                  /\ manifest'.fingerprint = run[i].draft.fingerprint
    BY DEF WriteManifest
  <1>2. run[i].at = "read" /\ Active(i) /\ UNCHANGED <<documents, latest, overlapped>>
    BY DEF WriteManifest, Active
  <1>3. Fields(run[i]) /\ RunIsSound(i) /\ run'[i] = changed
    BY <1>1, OwnRun
  <1>4. /\ Fields(changed) /\ changed.at = at /\ changed.mode = run[i].mode
        /\ changed.files = run[i].files /\ changed.todo = run[i].todo
    <2>1. PICK r : r = run[i]
      OBVIOUS
    <2> QED
      BY <1>1, <1>2, <1>3, <2>1 DEF Fields
  <1>5. RunIsSound(i)'
    BY <1>1, <1>3, <1>4 DEF RunIsSound
  <1>6. ASSUME ~overlapped, i = latest, latest' = i PROVE Taken' /\ Replaces' /\ Reads'
    <2>1. Taken'
      <3>1. ASSUME NEW file \in run[i].files \ run[i].todo PROVE Ingested(file, run[i].mode)
        BY <1>2, <1>6 DEF IngestInv, Taken
      <3>2. /\ run'[latest'].files = run[i].files /\ run'[latest'].todo = run[i].todo
            /\ run'[latest'].mode = run[i].mode
        BY <1>3, <1>4, <1>6
      <3> QED
        BY <1>2, <3>1, <3>2 DEF Taken, Ingested
    <2>2. Replaces'
      <3>1. run'[latest'].at = at
        BY <1>3, <1>4, <1>6
      <3> QED
        BY <1>1, <3>1 DEF Replaces
    <2>3. /\ run[i].todo = {}
          /\ run[i].draft.document_count = Cardinality(documents)
          /\ run[i].draft.chunk_count = Cardinality(ChunkRows)
          /\ run[i].draft.fingerprint = Contained
      BY <1>2, <1>6 DEF IngestInv, Reads
    <2>4. UNCHANGED <<ChunkRows, Contained>>
      BY <1>2 DEF ChunkRows, Contained
    <2>5. Reads'
      <3>1. run'[latest'].at = at /\ run'[latest'].todo = {}
        BY <1>3, <1>4, <1>6, <2>3
      <3>2. CASE at = "failed"
        BY <3>1, <3>2 DEF Reads
      <3>3. CASE at = "done"
        <4>1. /\ manifest'.document_count = Cardinality(documents')
              /\ manifest'.chunk_count = Cardinality(ChunkRows')
              /\ manifest'.fingerprint = Contained'
          BY <1>1, <1>2, <2>3, <2>4, <3>3
        <4> QED
          BY <3>1, <3>3, <4>1 DEF Reads
      <3> QED
        BY <1>1, <3>2, <3>3
    <2> QED
      BY <2>1, <2>2, <2>5
  <1> QED
    BY <1>1, <1>2, <1>5, <1>6, OwnStep

(* While no two ingestions have ever overlapped, the latest one leaves the  *)
(* corpus and the manifest whole, however earlier ones ended.               *)
(* ingest_corpus.py: ingest and _write_manifest.                            *)
THEOREM IngestionsAreComplete == CorpusSpec => []IngestIsComplete
  <1>1. CorpusInit => IngestInv
    <2> SUFFICES ASSUME CorpusInit PROVE IngestInv
      OBVIOUS
    <2>1. \A i \in Ingests : run[i] = [at |-> "new", mode |-> "plain", files |-> {},
                                       todo |-> {}, tx |-> NoTx, draft |-> NoManifest]
      BY DEF CorpusInit, IngestInit
    <2>2. Runs
      BY <2>1 DEF CorpusInit, IngestInit, Runs, RunIsSound, Fields
    <2>3. run[latest].at = "new"
      BY <2>1 DEF CorpusInit, IngestInit
    <2> QED
      BY <2>1, <2>2, <2>3
      DEF CorpusInit, IngestInit, IngestInv, Alone, Active, OnePerPath, Taken, Replaces, Reads
  <1>2. IngestInv /\ [CorpusNext]_corpusVars => IngestInv'
    <2> SUFFICES ASSUME IngestInv, [CorpusNext]_corpusVars PROVE IngestInv'
      OBVIOUS
    <2>1. CASE UNCHANGED <<documents, run, latest, overlapped, manifest>>
      BY <2>1, IngestionKept
    <2>2. CASE Edit \/ GitCommit
      BY <2>2, <2>1 DEF Edit, GitCommit
    <2>3. CASE EvalNext
      <3>1. UNCHANGED ingestVars
        BY <2>3
        DEF EvalNext, ReadManifest, CheckCounts, CheckContents, CheckModes, Search,
            LookUpPaths, CreateRun, LogMetrics, FinishRun, EvaluationStops, GuardFails, Step
      <3> QED
        BY <3>1, <2>1 DEF ingestVars
    <2>4. ASSUME NEW i \in Ingests,
                 \/ Discover(i) \/ Skip(i) \/ Replace(i) \/ Index(i) \/ Commit(i) \/ Fail(i)
                 \/ CountRows(i) \/ ReadContents(i) \/ WriteManifest(i)
          PROVE  IngestInv'
      BY <2>4, DiscoverKeeps, SkipKeeps, ReplaceKeeps, IndexKeeps, CommitKeeps, FailKeeps,
         CountRowsKeeps, ReadContentsKeeps, WriteManifestKeeps
    <2> QED
      BY <2>1, <2>2, <2>3, <2>4 DEF CorpusNext, Corpus, IngestNext, corpusVars, ingestVars
  <1> QED
    BY <1>1, <1>2, Sufficient, PTL DEF CorpusSpec
=============================================================================
