----------------------------- MODULE Ingestion -----------------------------
(***************************************************************************)
(* Concurrent ingestions of one content by IngestionService: the document  *)
(* with its content hash, and the chunks that each ingestion replaces.     *)
(* Every commit is a step; the transaction that replaces the chunks is     *)
(* split where other transactions can come between or be waited for        *)
(* (PostgreSQL, READ COMMITTED).  An IntegrityError leaves the session     *)
(* without a transaction it could commit, so the exception clauses, which  *)
(* never roll back, raise in their turn and write nothing.                 *)
(*                                                                         *)
(* The citations are written and deleted with their chunks; they, the raw  *)
(* file and the rows of run steps are left out.                            *)
(*                                                                         *)
(* A definition that stands just before another with the same parameters   *)
(* and is used nowhere is a faulty variant of it; PROJECT.json names the   *)
(* property it breaks.                                                     *)
(***************************************************************************)
EXTENDS Naturals, FiniteSets

CONSTANTS
    Ingestions,     \* requests with one content, under their own file names
    Count,          \* number of chunks each cuts it into, by its parser
    Schemas,        \* "models" (create_all), or "migrations", which add to the
                    \* table of chunks a chunk_level NOT NULL
    MaxCrashes      \* bound on requests that die

ASSUME IngestionAssumption ==
    /\ IsFiniteSet(Ingestions)
    /\ Count \in [Ingestions -> Nat \ {0}]
    /\ Schemas \subseteq {"models", "migrations"}
    /\ MaxCrashes \in Nat

VARIABLES
    schema,     \* of the database; it does not change
    doc,        \* status of the document, "none" before there is one
    chunks,     \* committed chunks: their chunk_index and who wrote them
    run,        \* status of the Run of each ingestion
    pc,         \* where each ingestion is
    known,      \* the document status its last transaction has read
    found,      \* the chunks it has selected for deletion
    crashes     \* number of crashes so far

locals == <<pc, known, found>>
vars == <<schema, doc, chunks, run, locals, crashes>>

ChunksOf(i) == (0..(Count[i] - 1)) \X {i}
HoldingSelected == {i \in Ingestions : pc[i] \in {"deleting", "inserting", "committing"}}
(* Transactions that may have deleted rows, or inserted some.              *)
Holding == {i \in Ingestions : pc[i] \in {"inserting", "committing"}}

Init ==
    /\ schema \in Schemas
    /\ doc = "none"
    /\ chunks = {}
    /\ run = [i \in Ingestions |-> "none"]
    /\ pc = [i \in Ingestions |-> "idle"]
    /\ known = [i \in Ingestions |-> "none"]
    /\ found = [i \in Ingestions |-> {}]
    /\ crashes = 0

Go(i, step) == pc' = [pc EXCEPT ![i] = step]
SetRun(i, status) == run' = [run EXCEPT ![i] = status]

(* The request is answered; a transaction left open is rolled back.        *)
Leave(i, how) ==
    /\ Go(i, how)
    /\ known' = [known EXCEPT ![i] = "none"]
    /\ found' = [found EXCEPT ![i] = {}]

-----------------------------------------------------------------------------
Begin(i) ==
    /\ pc[i] = "idle"
    /\ SetRun(i, "running")
    /\ Go(i, "storing")
    /\ UNCHANGED <<schema, doc, chunks, known, found, crashes>>

(* The raw content is stored, then the document looked up by its hash.     *)
FindDocument(i) ==
    /\ pc[i] = "storing"
    /\ \/ Go(i, IF doc = "none" THEN "creating" ELSE "parsing") /\ UNCHANGED run
       \/ Go(i, "done") /\ SetRun(i, "failed")
    /\ UNCHANGED <<schema, doc, chunks, known, found, crashes>>

CreateDocument(i) ==
    /\ pc[i] = "creating"
    /\ IF doc = "none"
       THEN doc' = "new" /\ Go(i, "parsing") /\ UNCHANGED <<known, found>>
       ELSE Leave(i, "done") /\ UNCHANGED doc
    /\ UNCHANGED <<schema, chunks, run, crashes>>

Parse(i) ==
    /\ pc[i] = "parsing"
    /\ \/ doc' = "parsed" /\ Go(i, "chunking")
       \/ Go(i, "failing") /\ UNCHANGED doc
    /\ UNCHANGED <<schema, chunks, run, known, found, crashes>>

-----------------------------------------------------------------------------
(* persist_chunks_and_citations.                                           *)

SelectChunks(i) ==
    /\ pc[i] = "chunking"
    /\ known' = [known EXCEPT ![i] = doc]
    /\ found' = [found EXCEPT ![i] = chunks]
    /\ Go(i, "deleting")
    /\ UNCHANGED <<schema, doc, chunks, run, crashes>>

(* A row that another transaction has deleted is waited for.  A row that   *)
(* is gone by then counts as deleted.                                      *)
Waits(i) == \E j \in Holding \ {i} : found[i] \cap found[j] \cap chunks # {}

DeleteChunks(i) ==
    /\ pc[i] = "deleting"
    /\ ~Waits(i)
    /\ Go(i, "inserting")
    /\ UNCHANGED <<schema, doc, chunks, run, known, found, crashes>>

NeverConflicts(i) == FALSE
(* UNIQUE (document_id, chunk_index), and NOT NULL chunk_level.            *)
Conflicts(i) ==
    \/ schema = "migrations"
    \/ \E old \in chunks \ found[i] : old[1] < Count[i]

(* An index that another transaction has inserted or deleted is waited for *)
InsertChunks(i) ==
    /\ pc[i] = "inserting"
    /\ \A j \in Holding \ {i} : pc[j] = "inserting" /\ found[j] \cap chunks = {}
    /\ IF Conflicts(i) THEN Leave(i, "done")
       ELSE Go(i, "committing") /\ UNCHANGED <<known, found>>
    /\ UNCHANGED <<schema, doc, chunks, run, crashes>>

Replaced(i) == (chunks \ found[i]) \cup ChunksOf(i)

Commit(i) ==
    /\ pc[i] = "committing"
    /\ chunks' = Replaced(i)
    /\ doc' = IF known[i] = "indexed" THEN doc ELSE "indexed"
    /\ Leave(i, "finishing")
    /\ UNCHANGED <<schema, run, crashes>>

-----------------------------------------------------------------------------
FinishRun(i) ==
    /\ pc[i] = "finishing"
    /\ SetRun(i, "succeeded")
    /\ Go(i, "done")
    /\ UNCHANGED <<schema, doc, chunks, known, found, crashes>>

(* The exception clause of _ingest, on a session that works.               *)
Fail(i) ==
    /\ pc[i] = "failing"
    /\ doc' = "failed"
    /\ SetRun(i, "failed")
    /\ Go(i, "done")
    /\ UNCHANGED <<schema, chunks, known, found, crashes>>

Crash(i) ==
    /\ pc[i] \notin {"idle", "done", "crashed"}
    /\ crashes < MaxCrashes
    /\ crashes' = crashes + 1
    /\ Leave(i, "crashed")
    /\ UNCHANGED <<schema, doc, chunks, run>>

Proceed(i) ==
    \/ FindDocument(i)
    \/ CreateDocument(i)
    \/ Parse(i)
    \/ SelectChunks(i)
    \/ DeleteChunks(i)
    \/ InsertChunks(i)
    \/ Commit(i)
    \/ FinishRun(i)
    \/ Fail(i)

Next == \E i \in Ingestions : Begin(i) \/ Proceed(i) \/ Crash(i)

(* Requests that have begun are driven on, and a waiting statement of the  *)
(* database goes on when the transaction it waits for has ended.           *)
Spec == Init /\ [][Next]_vars /\ \A i \in Ingestions : WF_vars(Proceed(i))

-----------------------------------------------------------------------------
(* Properties.                                                             *)

(* Rows and local values hold what the code can put there.                 *)
TypeOK ==
    /\ schema \in Schemas
    /\ doc \in {"none", "new", "parsed", "indexed", "failed"}
    /\ chunks \subseteq UNION {ChunksOf(i) : i \in Ingestions}
    /\ run \in [Ingestions -> {"none", "running", "succeeded", "failed"}]
    /\ pc \in [Ingestions -> {"idle", "storing", "creating", "parsing", "chunking", "deleting",
                              "inserting", "committing", "finishing", "failing", "done",
                              "crashed"}]
    /\ known \in [Ingestions -> {"none", "new", "parsed", "indexed", "failed"}]
    /\ found \in [Ingestions -> SUBSET UNION {ChunksOf(i) : i \in Ingestions}]
    /\ crashes \in 0..MaxCrashes

(* However ingestions of one content interleave, fail and crash, and       *)
(* although none locks the document, its chunks are all those, and only    *)
(* those, of one ingestion that committed them; an indexed document and a  *)
(* succeeded run have some.                                                *)
ChunksAreWhole ==
    /\ chunks = {} \/ \E i \in Ingestions : chunks = ChunksOf(i)
    /\ doc = "indexed" \/ (\E i \in Ingestions : run[i] = "succeeded") => chunks # {}

(* No ingestion waits for ever: whatever rows it waits for are given up by *)
(* a transaction that ends, even when three replace the same chunks.       *)
EveryIngestionEnds ==
    \A i \in Ingestions : pc[i] = "storing" ~> pc[i] \in {"done", "crashed"}

-----------------------------------------------------------------------------
(* Statements of the tests that the code does not keep.                    *)

(* "test_ingestion_failure_records_failed_run": the run of a request that  *)
(* was answered has succeeded or failed.                                   *)
FailureRecordsFailedRun ==
    \A i \in Ingestions : pc[i] = "done" => run[i] \in {"succeeded", "failed"}
=============================================================================
