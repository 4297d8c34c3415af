-------------------------- MODULE CorpusEvaluation --------------------------
(***************************************************************************)
(* The evaluation harness over the ingested corpus: guards on the manifest, *)
(* guards on the live database, one retrieval per query in a session of its *)
(* own, and a run recorded by separate transactions.  The ingestion goes on *)
(* beside it, and the harness may stop anywhere.                            *)
(***************************************************************************)
EXTENDS CorpusIngest

CONSTANTS
    PinnedCommit,  \* the tree the registration pins
    Queries,       \* retrievals: the golden queries, each at each k
    Languages      \* of the golden set

RegisteredMode == "plain"

VARIABLES
    eval,     \* the harness: where it is, the manifest it read, retrievals left and done
    store,    \* the evaluation store's row of the run: status and metric groups
    quiet     \* no document was committed since the contents were compared, the last but one guard

evalVars == <<eval, store, quiet>>
corpusVars == <<ingestVars, evalVars>>

NoRun == [status |-> "none", metrics |-> {}]
AllMetrics == {"aggregate"} \cup Languages

CorpusInit ==
    /\ IngestInit
    /\ eval = [at |-> "new", manifest |-> NoManifest, left |-> Queries, found |-> {}, measured |-> {}]
    /\ store = NoRun
    /\ quiet = TRUE

Step(changed) == eval' = changed /\ UNCHANGED <<ingestVars, quiet>>
GuardFails == Step([eval EXCEPT !.at = "refused"]) /\ UNCHANGED store

----------------------------------------------------------------------------
(* Guards that cost nothing.                                                *)

\* The commit tells what was ingested, but not how.
ManifestIsPinned(m) == m.commit = PinnedCommit

ManifestIsRegistered(m) == m.commit = PinnedCommit /\ m.mode = RegisteredMode

ReadManifest ==
    /\ eval.at = "new"
    /\ IF manifest # NoManifest /\ ManifestIsRegistered(manifest)
       THEN Step([eval EXCEPT !.at = "guarded", !.manifest = manifest]) /\ UNCHANGED store
       ELSE GuardFails

----------------------------------------------------------------------------
(* assert_corpus_matches_manifest: statements with a snapshot each.         *)

CheckCounts ==
    /\ eval.at = "guarded"
    /\ IF /\ Cardinality(documents) = eval.manifest.document_count
          /\ Cardinality(ChunkRows) = eval.manifest.chunk_count
       THEN Step([eval EXCEPT !.at = "counted"]) /\ UNCHANGED store
       ELSE GuardFails

CheckContents ==
    /\ eval.at = "counted"
    /\ quiet' = TRUE
    /\ eval' = [eval EXCEPT !.at =
          IF Contained = eval.manifest.fingerprint THEN "matched" ELSE "refused"]
    /\ UNCHANGED <<ingestVars, store>>

ModesMatch(m) == IndexingModes = {m.mode}

CheckModes ==
    /\ eval.at = "matched"
    /\ IF ModesMatch(eval.manifest)
       THEN Step([eval EXCEPT !.at = "retrieving"]) /\ UNCHANGED store
       ELSE GuardFails

----------------------------------------------------------------------------
(* The retrieval loop.                                                      *)

\* hybrid_search: any of the documents that have chunks.
Search ==
    /\ eval.at = "retrieving" /\ eval.left # {}
    /\ \E found \in SUBSET {d \in documents : d.chunks # {}} :
         Step([eval EXCEPT !.at = "found", !.found = found])
    /\ UNCHANGED store

\* _source_paths: a chunk of a document replaced meanwhile has no path, and the loop raises.
LookUpPaths ==
    /\ eval.at = "found"
    /\ IF eval.found \subseteq documents
       THEN \E q \in eval.left :
              Step([eval EXCEPT !.at = "retrieving", !.left = @ \ {q}, !.found = {},
                                !.measured = @ \cup eval.found])
       ELSE Step([eval EXCEPT !.at = "raised"])
    /\ UNCHANGED store

----------------------------------------------------------------------------
(* _record.                                                                 *)

CreateRun ==
    /\ eval.at = "retrieving" /\ eval.left = {}
    /\ store' = [status |-> "RUNNING", metrics |-> {}]
    /\ Step([eval EXCEPT !.at = "recording"])

\* The aggregate first, then one transaction per language.
LogMetrics ==
    /\ eval.at = "recording"
    /\ \E group \in AllMetrics \ store.metrics :
         /\ store.metrics = {} => group = "aggregate"
         /\ store' = [store EXCEPT !.metrics = @ \cup {group}]
    /\ Step(eval)

FinishRun ==
    /\ eval.at = "recording" /\ store.metrics = AllMetrics
    /\ store' = [store EXCEPT !.status = "FINISHED"]
    /\ Step([eval EXCEPT !.at = "done"])

\* A provider, either database or a signal ends the harness.
EvaluationStops ==
    /\ eval.at \notin {"new", "refused", "raised", "stopped", "done"}
    /\ Step([eval EXCEPT !.at = "stopped"])
    /\ UNCHANGED store

----------------------------------------------------------------------------
EvalNext ==
    \/ ReadManifest \/ CheckCounts \/ CheckContents \/ CheckModes
    \/ Search \/ LookUpPaths
    \/ CreateRun \/ LogMetrics \/ FinishRun \/ EvaluationStops

Corpus ==
    /\ IngestNext
    /\ quiet' = (quiet /\ documents' = documents)
    /\ UNCHANGED <<eval, store>>

CorpusNext == Corpus \/ EvalNext

CorpusSpec == CorpusInit /\ [][CorpusNext]_corpusVars

----------------------------------------------------------------------------
\* A recorded run measured nothing but what its manifest declares, in the registered mode, if
\* no document was committed from its comparison of the contents to its end: nothing in the
\* harness notices one that is.  And it is FINISHED only with every metric.
MeasuredWhatItDeclares ==
    /\ store.status # "none" /\ quiet =>
         \A d \in eval.measured :
             <<d.path, d.hash>> \in eval.manifest.fingerprint /\ d.mode = RegisteredMode
    /\ store.status = "FINISHED" => store.metrics = AllMetrics
=============================================================================
