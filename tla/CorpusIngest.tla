---------------------------- MODULE CorpusIngest ----------------------------
(***************************************************************************)
(* The offline ingestion of the repository's files into the RAG corpus: one *)
(* transaction per document that deletes the row of another fingerprint,    *)
(* inserts the new one and its chunks; then a manifest that declares what   *)
(* the database holds and the commit it came from.  Nothing prevents two    *)
(* ingestions at once, and the worktree may change below them.              *)
(***************************************************************************)
EXTENDS Naturals, FiniteSets

CONSTANTS
    Ingests,       \* runs of the script
    Paths,         \* source paths
    Contents,      \* contents a file may have
    Chunks,        \* the number of chunks of a content
    MaxEdits       \* bound: changes of the worktree

ASSUME ChunkCounts == Chunks \in [Contents -> Nat]

Absent == "absent"
NoManifest == [commit |-> "none"]
Modes == {"plain", "contextualized"}

VARIABLES
    worktree,    \* the content of every path
    head,        \* the tree that HEAD names
    edits,
    documents,   \* the committed documents, each with the ordinals of its chunks
    run,         \* of an ingestion: where it is, mode, files to do, transaction, draft
    latest,      \* the ingestion that started last
    overlapped,  \* two have been active at once
    manifest     \* .corpus_manifest.json

ingestVars == <<worktree, head, edits, documents, run, latest, overlapped, manifest>>

Active(i) == run[i].at \notin {"new", "done", "failed"}
Files == {<<p, worktree[p]>> : p \in {q \in Paths : worktree[q] # Absent}}
NoTx == [path |-> "none"]

IngestInit ==
    /\ worktree \in [Paths -> Contents \cup {Absent}]
    /\ head = worktree /\ edits = 0
    /\ documents = {}
    /\ run = [i \in Ingests |-> [at |-> "new", mode |-> "plain", files |-> {}, todo |-> {},
                                 tx |-> NoTx, draft |-> NoManifest]]
    /\ latest \in Ingests /\ overlapped = FALSE
    /\ manifest = NoManifest

Tree == UNCHANGED <<worktree, head, edits>>
Goes(i, changed) == run' = [run EXCEPT ![i] = changed]

----------------------------------------------------------------------------
(* The worktree.                                                            *)

Edit ==
    /\ edits < MaxEdits
    /\ \E p \in Paths, c \in Contents \cup {Absent} :
         c # worktree[p] /\ worktree' = [worktree EXCEPT ![p] = c]
    /\ edits' = edits + 1
    /\ UNCHANGED <<head, documents, run, latest, overlapped, manifest>>

GitCommit ==
    /\ head # worktree
    /\ head' = worktree
    /\ UNCHANGED <<worktree, edits, documents, run, latest, overlapped, manifest>>

----------------------------------------------------------------------------
(* ingest().                                                                *)

\* discover_documents reads every file at once.
Discover(i) ==
    /\ run[i].at = "new"
    /\ \E mode \in Modes :
         Goes(i, [at |-> "next", mode |-> mode, files |-> Files, todo |-> Files,
                  tx |-> NoTx, draft |-> NoManifest])
    /\ latest' = i
    /\ overlapped' = (overlapped \/ \E j \in Ingests : Active(j))
    /\ UNCHANGED <<documents, manifest>> /\ Tree

Fingerprint(d) == <<d.hash, d.mode>>

\* _existing_indexing_mode: the first row of the path, which may be any, or none.
Existing(path) ==
    LET rows == {d \in documents : d.path = path}
    IN  IF rows = {} THEN {{}} ELSE {{d} : d \in rows}

\* should_reindex by content alone.
IsCurrentContent(found, file, mode) == \E d \in found : d.hash = file[2]

IsCurrent(found, file, mode) == \E d \in found : Fingerprint(d) = <<file[2], mode>>

\* A document whose fingerprint is the current one is skipped.
Skip(i) ==
    /\ run[i].at = "next"
    /\ \E file \in run[i].todo :
         /\ \E found \in Existing(file[1]) : IsCurrent(found, file, run[i].mode)
         /\ Goes(i, [run[i] EXCEPT !.todo = @ \ {file}])
    /\ UNCHANGED <<documents, latest, overlapped, manifest>> /\ Tree

\* DELETE and INSERT of the document; nobody else sees them before the commit.
Replace(i) ==
    /\ run[i].at = "next"
    /\ \E file \in run[i].todo : \E found \in Existing(file[1]) :
         /\ ~IsCurrent(found, file, run[i].mode)
         /\ Goes(i, [run[i] EXCEPT
               !.at = "document",
               !.todo = @ \ {file},
               !.tx = [old |-> found,
                       new |-> [path |-> file[1], hash |-> file[2], mode |-> run[i].mode,
                                by |-> i, chunks |-> {}]]])
    /\ UNCHANGED <<documents, latest, overlapped, manifest>> /\ Tree

\* chunk_document, _contextualize and embed_many, then upsert_chunks.
Index(i) ==
    /\ run[i].at = "document"
    /\ LET new == run[i].tx.new
       IN  Goes(i, [run[i] EXCEPT !.at = "indexed", !.tx.new.chunks = 1 .. Chunks[new.hash]])
    /\ UNCHANGED <<documents, latest, overlapped, manifest>> /\ Tree

\* A document without a chunk is committed as it was inserted.
MayCommit(i) ==
    \/ run[i].at = "indexed"
    \/ run[i].at = "document" /\ Chunks[run[i].tx.new.hash] = 0

\* The unique index is on path, hash and mode.
Duplicate(d, rows) ==
    \E e \in rows : e.path = d.path /\ Fingerprint(e) = Fingerprint(d)

\* A row that another transaction has deleted meanwhile is deleted by nobody twice.
Commit(i) ==
    /\ MayCommit(i)
    /\ LET tx == run[i].tx
           rest == documents \ tx.old
       IN  /\ ~Duplicate(tx.new, rest)
           /\ documents' = rest \cup {tx.new}
    /\ Goes(i, [run[i] EXCEPT !.at = "next", !.tx = NoTx])
    /\ UNCHANGED <<latest, overlapped, manifest>> /\ Tree

\* A provider, the database, an integrity error or a signal ends the run: the transaction is
\* rolled back, what was committed before stays.
Fail(i) ==
    /\ Active(i)
    /\ Goes(i, [run[i] EXCEPT !.at = "failed", !.tx = NoTx])
    /\ UNCHANGED <<documents, latest, overlapped, manifest>> /\ Tree

----------------------------------------------------------------------------
(* The manifest: statements of READ COMMITTED, each of its own snapshot.    *)

ChunkRows == UNION {{<<d, o>> : o \in d.chunks} : d \in documents}
Contained == {<<d.path, d.hash>> : d \in documents}
IndexingModes == {d.mode : d \in documents}

\* SELECT count(*) FROM documents, and FROM chunks.
CountRows(i) ==
    /\ run[i].at = "next" /\ run[i].todo = {}
    /\ Goes(i, [run[i] EXCEPT !.at = "counted",
                 !.draft = [document_count |-> Cardinality(documents),
                            chunk_count |-> Cardinality(ChunkRows)]])
    /\ UNCHANGED <<documents, latest, overlapped, manifest>> /\ Tree

ReadContents(i) ==
    /\ run[i].at = "counted"
    /\ Goes(i, [run[i] EXCEPT !.at = "read",
                 !.draft = [document_count |-> @.document_count, chunk_count |-> @.chunk_count,
                            fingerprint |-> Contained]])
    /\ UNCHANGED <<documents, latest, overlapped, manifest>> /\ Tree

\* A corpus of two modes has no manifest; the commit is what HEAD names by now.
WriteManifest(i) ==
    /\ run[i].at = "read"
    /\ IF Cardinality(IndexingModes) > 1
       THEN Goes(i, [run[i] EXCEPT !.at = "failed"]) /\ UNCHANGED manifest
       ELSE /\ manifest' = [commit |-> head,
                            document_count |-> run[i].draft.document_count,
                            chunk_count |-> run[i].draft.chunk_count,
                            fingerprint |-> run[i].draft.fingerprint,
                            mode |-> IF IndexingModes = {} THEN "plain"
                                     ELSE CHOOSE m \in IndexingModes : TRUE]
            /\ Goes(i, [run[i] EXCEPT !.at = "done"])
    /\ UNCHANGED <<documents, latest, overlapped>> /\ Tree

IngestNext ==
    \/ Edit \/ GitCommit
    \/ \E i \in Ingests :
         \/ Discover(i) \/ Skip(i) \/ Replace(i) \/ Index(i) \/ Commit(i) \/ Fail(i)
         \/ CountRows(i) \/ ReadContents(i) \/ WriteManifest(i)

----------------------------------------------------------------------------
(* Properties.                                                              *)

\* While no two ingestions have been active at once, and however the earlier ones ended, one that
\* is done has left every file it discovered in the corpus once, in its mode and with all its
\* chunks, and a manifest that says what is there.
IngestIsComplete ==
    ~overlapped /\ run[latest].at = "done" =>
        /\ \A file \in run[latest].files :
              {<<d.hash, d.mode, d.chunks>> : d \in {e \in documents : e.path = file[1]}}
                  = {<<file[2], run[latest].mode, 1 .. Chunks[file[2]]>>}
        /\ manifest.document_count = Cardinality(documents)
        /\ manifest.chunk_count = Cardinality(ChunkRows)
        /\ manifest.fingerprint = Contained
=============================================================================
