------------------------------ MODULE MCServer ------------------------------
(***************************************************************************)
(* The parts of the server, and beside them the corpus on a small instance: *)
(* two files of two contents, and two runs of the ingestion.                *)
(***************************************************************************)
EXTENDS MCPlatform, CorpusEvaluation

CONSTANTS p1, p2, c0, c1

MCChunks == c0 :> 0 @@ c1 :> 2
MCPinned == p1 :> c1 @@ p2 :> c0

corpusIdle ==
    /\ worktree = 0 /\ head = 0 /\ edits = 0 /\ documents = {} /\ run = 0 /\ latest = 0
    /\ overlapped = TRUE /\ manifest = NoManifest /\ eval = 0 /\ store = NoRun /\ quiet = TRUE

PartsInit ==
    \/ AnyInit /\ corpusIdle
    \/ /\ part = "corpus" /\ CorpusInit
       /\ budgetIdle /\ notionIdle /\ readsIdle /\ retrievalIdle /\ callsIdle /\ stackIdle
       /\ feedbackIdle

PartsNext ==
    IF part = "corpus"
    THEN CorpusNext /\ UNCHANGED anyVars
    ELSE AnyNext /\ UNCHANGED corpusVars

PartsSpec == PartsInit /\ [][PartsNext]_<<anyVars, corpusVars>>
=============================================================================
