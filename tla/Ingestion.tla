------------------------------ MODULE Ingestion ------------------------------
(***************************************************************************)
(* Life of an uploaded document: the upload and delete handlers of the API *)
(* (backend/app/api/documents.py), the ingestion run that turns its bytes  *)
(* into searchable chunks (backend/app/rag/ingest.py), the ARQ job queue   *)
(* that delivers the run and the sweep that re-drives documents stranded   *)
(* in pending (backend/app/worker/tasks.py), over one Postgres database    *)
(* at READ COMMITTED and one blob store (backend/app/core/storage.py).     *)
(*                                                                         *)
(* Every await, commit or call into another process is a boundary between  *)
(* two actions, so each statement that reads the database and the commit   *)
(* that acts on what it read are different steps.                          *)
(***************************************************************************)
EXTENDS Naturals, FiniteSets

CONSTANTS
  Docs,          \* document ids; each is used by one upload
  NoDoc,         \* "this run has no document"
  Runs,          \* queue jobs, or background tasks without Redis; reused once idle
  RedisEnabled,  \* settings.REDIS_ENABLED: ARQ worker, or tasks in the API process
  MaxTries,      \* WorkerSettings.max_tries
  MayStall,      \* may a document stay pending for INGEST_STRANDED_AFTER_SECONDS?
  MaxFaults      \* how many faults of each kind a behaviour may contain

\* A worker dies; the API process dies; a job outlives job_timeout; a database
\* call raises; Redis does not take a job.
FaultKinds == {"worker", "api", "timeout", "db", "redis"}

ASSUME ConstantsAssumption ==
  /\ NoDoc \notin Docs
  /\ RedisEnabled \in BOOLEAN
  /\ MayStall \in BOOLEAN
  /\ MaxTries \in Nat \ {0}
  /\ MaxFaults \in [FaultKinds -> Nat]

VARIABLES
  row,       \* documents table, committed: status ("none": no row) and error set?
  chunks,    \* chunks table, committed: the batches of rows stored per document
  blobs,     \* documents whose bytes are in the store
  upload,    \* how far the upload request of a document got
  deletion,  \* delete requests that removed the bytes and have yet to commit
  run,       \* the ingestion runs: queued, executing or idle
  stale,     \* documents older than INGEST_STRANDED_AFTER_SECONDS
  sweep,     \* what a sweep selected and has not re-enqueued yet
  faults     \* faults so far, per kind

vars == <<row, chunks, blobs, upload, deletion, run, stale, sweep, faults>>

-----------------------------------------------------------------------------
Status == {"none", "pending", "processing", "ready", "failed"}

Row == [status : Status, err : BOOLEAN]

NoRow == [status |-> "none", err |-> FALSE]

Exists(d) == row[d].status # "none"

UploadPhase == {"new", "flushed", "stored", "handed", "done", "aborted"}

\* The statements of ingest_document and _mark_failed that follow the commit
\* of its first transaction; "locking" waits for row locks.
PastClaim == {"work", "replace", "locking", "reload", "commit", "fail", "failing"}

\* "exit" is the return to ARQ, which has yet to drop the job.
Executing == {"open", "claim", "claiming", "exit"} \cup PastClaim

PC == {"idle", "queued"} \cup Executing

\* One execution of a run inserts one batch of chunks.
Batch == Runs \X Nat

Run == [pc : PC, doc : Docs \cup {NoDoc}, tries : Nat,
        seen : SUBSET Batch, loaded : Row]

IdleRun == [pc |-> "idle", doc |-> NoDoc, tries |-> 0,
            seen |-> {}, loaded |-> NoRow]

MyBatch(r) == <<r, run[r].tries>>

\* A run that is idle and whose rows nothing refers to any more: its id can
\* stand for a fresh job.
Free(r) ==
  /\ run[r].pc = "idle"
  /\ \A d \in Docs : \A b \in chunks[d] : b[1] # r
  /\ \A q \in Runs : \A b \in run[q].seen : b[1] # r

\* Run r goes on at label, holding what its transaction has read.
Move(r, label, seen, loaded) ==
  run' = [run EXCEPT ![r] =
            [@ EXCEPT !.pc = label, !.seen = seen, !.loaded = loaded]]

Goto(r, label) == Move(r, label, run[r].seen, run[r].loaded)

\* The transaction of the run is over: what it had read is forgotten.
Leave(r, label) == Move(r, label, {}, NoRow)

Spend(kind) ==
  /\ faults[kind] < MaxFaults[kind]
  /\ faults' = [faults EXCEPT ![kind] = @ + 1]

-----------------------------------------------------------------------------
(* The ORM writes only the columns whose new value differs from the value  *)
(* it loaded; the others keep what the database holds at the flush.        *)
OrmFlush(now, loaded, new) ==
  [status |-> IF new.status = loaded.status THEN now.status ELSE new.status,
   err    |-> IF new.err = loaded.err THEN now.err ELSE new.err]

Pending == [status |-> "pending", err |-> FALSE]
\* Mutant: the claim forgets the status.
ClaimedNot(loaded) == loaded
Claimed(loaded) == [loaded EXCEPT !.status = "processing"]
Published == [status |-> "ready", err |-> FALSE]
\* Mutant: a status outside the enum.
MarkedUnknown == [status |-> "error", err |-> TRUE]
MarkedFailed == [status |-> "failed", err |-> TRUE]

\* What enqueue_job leaves behind; without Redis the task starts by itself.
NewRun(d) ==
  [IdleRun EXCEPT !.pc = IF RedisEnabled THEN "queued" ELSE "open",
                  !.doc = d,
                  !.tries = IF RedisEnabled THEN 0 ELSE 1]

Enqueue(d) == \E r \in Runs : Free(r) /\ run' = [run EXCEPT ![r] = NewRun(d)]

\* The batches the DELETE of the second transaction finds.
\* Mutant: nothing is deleted.
NoPriorChunks(r) == {}
PriorChunks(r) == chunks[run[r].doc]

\* What the second transaction leaves of the chunks it saw, old and new.
\* Mutant: the DELETE comes after the new rows are added.
DeletedLast(old, seen, new) == (old \cup new) \ (seen \cup new)
Replaced(old, seen, new) == (old \ seen) \cup new

\* Uncommitted deletes of q hold locks on chunk rows of d.
LocksChunks(q, d) ==
  /\ run[q].doc = d
  /\ run[q].pc \in {"reload", "commit"}
  /\ run[q].seen \cap chunks[d] # {}

-----------------------------------------------------------------------------
(* POST /api/documents.  The row is flushed before the bytes are stored    *)
(* and the job is enqueued, and all of it before get_db commits.           *)
UploadFlush(d) ==
  /\ upload[d] = "new"
  /\ upload' = [upload EXCEPT ![d] = "flushed"]
  /\ UNCHANGED <<row, chunks, blobs, deletion, run, stale, sweep, faults>>

\* Mutant: the bytes are not written.
PutNothing(d) ==
  /\ upload[d] = "flushed"
  /\ upload' = [upload EXCEPT ![d] = "stored"]
  /\ UNCHANGED <<row, chunks, blobs, deletion, run, stale, sweep, faults>>

UploadPut(d) ==
  /\ upload[d] = "flushed"
  /\ upload' = [upload EXCEPT ![d] = "stored"]
  /\ blobs' = blobs \cup {d}
  /\ UNCHANGED <<row, chunks, deletion, run, stale, sweep, faults>>

\* An unreachable queue is logged and swallowed.
UploadEnqueue(d) ==
  /\ upload[d] = "stored"
  /\ upload' = [upload EXCEPT ![d] = "handed"]
  /\ \/ Enqueue(d) /\ UNCHANGED faults
     \/ RedisEnabled /\ Spend("redis") /\ UNCHANGED run
  /\ UNCHANGED <<row, chunks, blobs, deletion, stale, sweep>>

UploadCommit(d) ==
  /\ upload[d] = "handed"
  /\ upload' = [upload EXCEPT ![d] = "done"]
  /\ row' = [row EXCEPT ![d] = Pending]
  /\ UNCHANGED <<chunks, blobs, deletion, run, stale, sweep, faults>>

\* The row is rolled back; the bytes and the job, if any, are not.
UploadAbort(d) ==
  /\ upload[d] \in {"flushed", "stored", "handed"}
  /\ Spend("db")
  /\ upload' = [upload EXCEPT ![d] = "aborted"]
  /\ UNCHANGED <<row, chunks, blobs, deletion, run, stale, sweep>>

UploadStep(d) ==
  UploadFlush(d) \/ UploadPut(d) \/ UploadEnqueue(d) \/ UploadCommit(d)

-----------------------------------------------------------------------------
(* DELETE /api/documents/{id}.  The handler removes the bytes; get_db then *)
(* flushes the DELETE, whose foreign key cascades to the chunks, and       *)
(* commits.                                                                *)
DeleteUnlink(d) ==
  /\ Exists(d)
  /\ d \notin deletion
  /\ blobs' = blobs \ {d}
  /\ deletion' = deletion \cup {d}
  /\ UNCHANGED <<row, chunks, upload, run, stale, sweep, faults>>

DeleteCommit(d) ==
  /\ d \in deletion
  /\ ~ \E r \in Runs : LocksChunks(r, d)
  /\ deletion' = deletion \ {d}
  /\ row' = [row EXCEPT ![d] = NoRow]
  /\ chunks' = [chunks EXCEPT ![d] = {}]
  /\ UNCHANGED <<blobs, upload, run, stale, sweep, faults>>

\* The cascade waits for chunk rows a run has deleted, the run for the document
\* row: Postgres aborts either of them.
DeleteDeadlock(d) ==
  /\ d \in deletion
  /\ \E r \in Runs :
       /\ LocksChunks(r, d)
       /\ \/ deletion' = deletion \ {d} /\ UNCHANGED run
          \/ Leave(r, "fail") /\ UNCHANGED deletion
  /\ UNCHANGED <<row, chunks, blobs, upload, stale, sweep, faults>>

\* The commit fails: the row survives the bytes.
DeleteAbort(d) ==
  /\ d \in deletion
  /\ Spend("db")
  /\ deletion' = deletion \ {d}
  /\ UNCHANGED <<row, chunks, blobs, upload, run, stale, sweep>>

-----------------------------------------------------------------------------
(* A run: the ARQ job, or the in-process task.                             *)

\* ARQ counts the try when it picks the job up and drops one with no try left.
Start(r) ==
  /\ run[r].pc = "queued"
  /\ LET n == run[r].tries IN
     run' = [run EXCEPT ![r] = IF n = MaxTries THEN IdleRun
                               ELSE [@ EXCEPT !.pc = "open", !.tries = n + 1]]
  /\ UNCHANGED <<row, chunks, blobs, upload, deletion, stale, sweep, faults>>

\* as_local_path raises outside ingest_document: nothing records the failure.
OpenBlob(r) ==
  /\ run[r].pc = "open"
  /\ Goto(r, IF run[r].doc \in blobs THEN "claim" ELSE "exit")
  /\ UNCHANGED <<row, chunks, blobs, upload, deletion, stale, sweep, faults>>

ClaimSelect(r) ==
  /\ run[r].pc = "claim"
  /\ IF Exists(run[r].doc)
     THEN Move(r, "claiming", {}, row[run[r].doc])
     ELSE Goto(r, "exit")
  /\ UNCHANGED <<row, chunks, blobs, upload, deletion, stale, sweep, faults>>

\* An UPDATE is emitted only if a column changed, and one that finds no row
\* raises; this part of ingest_document is outside its try blocks.
ClaimCommit(r) ==
  LET d == run[r].doc  was == run[r].loaded  dirty == Claimed(was) # was IN
  /\ run[r].pc = "claiming"
  /\ IF dirty /\ ~Exists(d)
     THEN Leave(r, "exit") /\ UNCHANGED row
     ELSE /\ Leave(r, "work")
          /\ row' = [row EXCEPT ![d] = OrmFlush(@, was, Claimed(was))]
  /\ UNCHANGED <<chunks, blobs, upload, deletion, stale, sweep, faults>>

\* Mutant: the exception escapes without _mark_failed.
WorkEscapes(r) ==
  /\ run[r].pc = "work"
  /\ \E label \in {"replace", "exit"} : Goto(r, label)
  /\ UNCHANGED <<row, chunks, blobs, upload, deletion, stale, sweep, faults>>

\* Extraction, chunking and embedding: no database access, either outcome.
Work(r) ==
  /\ run[r].pc = "work"
  /\ \E label \in {"replace", "fail"} : Goto(r, label)
  /\ UNCHANGED <<row, chunks, blobs, upload, deletion, stale, sweep, faults>>

\* DELETE FROM chunks: its snapshot is the start of the statement ...
ReplaceDelete(r) ==
  /\ run[r].pc = "replace"
  /\ Move(r, "locking", PriorChunks(r), NoRow)
  /\ UNCHANGED <<row, chunks, blobs, upload, deletion, stale, sweep, faults>>

\* ... and it waits for the transactions that deleted those rows before it.
ReplaceLock(r) ==
  LET d == run[r].doc IN
  /\ run[r].pc = "locking"
  /\ \A q \in Runs \ {r} :
       LocksChunks(q, d) => run[q].seen \cap run[r].seen \cap chunks[d] = {}
  /\ Goto(r, "reload")
  /\ UNCHANGED <<row, chunks, blobs, upload, deletion, stale, sweep, faults>>

ReplaceReload(r) ==
  /\ run[r].pc = "reload"
  /\ Move(r, "commit", run[r].seen, row[run[r].doc])
  /\ UNCHANGED <<row, chunks, blobs, upload, deletion, stale, sweep, faults>>

\* The foreign key of chunks: no row, no chunks.
\* Mutant: no foreign key.
InsertAnyway(d) == TRUE
CanInsert(d) == Exists(d)

ReplaceCommit(r) ==
  LET d == run[r].doc IN
  /\ run[r].pc = "commit"
  /\ IF CanInsert(d)
     THEN /\ Leave(r, "exit")
          /\ chunks' = [chunks EXCEPT ![d] = Replaced(@, run[r].seen, {MyBatch(r)})]
          /\ row' = [row EXCEPT ![d] = OrmFlush(@, run[r].loaded, Published)]
     ELSE Leave(r, "fail") /\ UNCHANGED <<row, chunks>>
  /\ UNCHANGED <<blobs, upload, deletion, stale, sweep, faults>>

\* _mark_failed, on a session of its own.
FailSelect(r) ==
  /\ run[r].pc = "fail"
  /\ IF Exists(run[r].doc)
     THEN Move(r, "failing", {}, row[run[r].doc])
     ELSE Goto(r, "exit")
  /\ UNCHANGED <<row, chunks, blobs, upload, deletion, stale, sweep, faults>>

\* If the row is gone there is nothing to write: the error is swallowed.
FailCommit(r) ==
  LET d == run[r].doc IN
  /\ run[r].pc = "failing"
  /\ Leave(r, "exit")
  /\ row' = IF Exists(d)
            THEN [row EXCEPT ![d] = OrmFlush(@, run[r].loaded, MarkedFailed)]
            ELSE row
  /\ UNCHANGED <<chunks, blobs, upload, deletion, stale, sweep, faults>>

\* ARQ drops the job whether the run returned or raised: it retries only what
\* was cancelled.
Finish(r) ==
  /\ run[r].pc = "exit"
  /\ run' = [run EXCEPT ![r] = IdleRun]
  /\ UNCHANGED <<row, chunks, blobs, upload, deletion, stale, sweep, faults>>

RunStep(r) ==
  \/ Start(r) \/ OpenBlob(r) \/ ClaimSelect(r) \/ ClaimCommit(r) \/ Work(r)
  \/ ReplaceDelete(r) \/ ReplaceLock(r) \/ ReplaceReload(r) \/ ReplaceCommit(r)
  \/ FailSelect(r) \/ FailCommit(r) \/ Finish(r)

-----------------------------------------------------------------------------
(* Faults of a run.                                                        *)

\* A statement or a commit raises.  The claim is outside the try blocks, the
\* second transaction inside; _mark_failed swallows its own.
DbFault(r) ==
  /\ Spend("db")
  /\ \/ run[r].pc \in {"claim", "claiming", "fail", "failing"} /\ Leave(r, "exit")
     \/ run[r].pc \in {"replace", "locking", "reload", "commit"} /\ Leave(r, "fail")
  /\ UNCHANGED <<row, chunks, blobs, upload, deletion, stale, sweep>>

\* The worker dies or is stopped: ARQ delivers the job again.
WorkerCrash(r) ==
  /\ RedisEnabled
  /\ run[r].pc \in Executing
  /\ Spend("worker")
  /\ Leave(r, "queued")
  /\ UNCHANGED <<row, chunks, blobs, upload, deletion, stale, sweep>>

\* job_timeout cancels the coroutine.  CancelledError is not an Exception, so
\* _mark_failed does not run, and ARQ drops a job that timed out.
JobTimeout(r) ==
  /\ RedisEnabled
  /\ run[r].pc \in Executing
  /\ Spend("timeout")
  /\ run' = [run EXCEPT ![r] = IdleRun]
  /\ UNCHANGED <<row, chunks, blobs, upload, deletion, stale, sweep>>

\* The API process dies: its requests are rolled back and, without Redis, its
\* background tasks are lost.
ApiCrash ==
  /\ Spend("api")
  /\ upload' = [d \in Docs |-> IF upload[d] \in {"flushed", "stored", "handed"}
                               THEN "aborted" ELSE upload[d]]
  /\ deletion' = {}
  /\ run' = IF RedisEnabled THEN run ELSE [r \in Runs |-> IdleRun]
  /\ UNCHANGED <<row, chunks, blobs, stale, sweep>>

-----------------------------------------------------------------------------
(* The sweep: an ARQ cron job, one at a time.                              *)

\* created_at falls behind the cutoff while the document is still pending.
Age(d) ==
  /\ MayStall
  /\ row[d].status = "pending"
  /\ d \notin stale
  /\ stale' = stale \cup {d}
  /\ UNCHANGED <<row, chunks, blobs, upload, deletion, run, sweep, faults>>

\* Mutant: the sweep selects another status.
StrandedProcessing == {d \in stale : row[d].status = "processing"}
Stranded == {d \in stale : row[d].status = "pending"}

SweepRead ==
  /\ RedisEnabled
  /\ sweep = {}
  /\ sweep' = Stranded
  /\ UNCHANGED <<row, chunks, blobs, upload, deletion, run, stale, faults>>

\* The selection is not checked again.
SweepEnqueue(d) ==
  /\ d \in sweep
  /\ sweep' = sweep \ {d}
  /\ Enqueue(d)
  /\ UNCHANGED <<row, chunks, blobs, upload, deletion, stale, faults>>

\* enqueue_job raises, or the worker dies: the rest waits for the next sweep.
SweepFails ==
  /\ sweep # {}
  /\ Spend("redis") \/ Spend("worker")
  /\ sweep' = {}
  /\ UNCHANGED <<row, chunks, blobs, upload, deletion, run, stale>>

-----------------------------------------------------------------------------
Init ==
  /\ row = [d \in Docs |-> NoRow]
  /\ chunks = [d \in Docs |-> {}]
  /\ blobs = {}
  /\ upload = [d \in Docs |-> "new"]
  /\ deletion = {}
  /\ run = [r \in Runs |-> IdleRun]
  /\ stale = {}
  /\ sweep = {}
  /\ faults = [kind \in FaultKinds |-> 0]

DocStep(d) ==
  \/ UploadStep(d) \/ UploadAbort(d)
  \/ DeleteUnlink(d) \/ DeleteCommit(d) \/ DeleteDeadlock(d) \/ DeleteAbort(d)
  \/ Age(d) \/ SweepEnqueue(d)

RunFault(r) == DbFault(r) \/ WorkerCrash(r) \/ JobTimeout(r)

Next ==
  \/ \E d \in Docs : DocStep(d)
  \/ \E r \in Runs : RunStep(r) \/ RunFault(r)
  \/ ApiCrash \/ SweepRead \/ SweepFails

Spec == Init /\ [][Next]_vars

\* The event loops run every task that is ready, ARQ polls its queue and the
\* cron job comes back every five minutes.  Requests and faults are not fair.
Fairness ==
  /\ \A d \in Docs : /\ WF_vars(UploadPut(d) \/ UploadEnqueue(d) \/ UploadCommit(d))
                     /\ WF_vars(DeleteCommit(d) \/ DeleteDeadlock(d))
                     /\ WF_vars(Age(d))
                     /\ WF_vars(SweepEnqueue(d))
  /\ \A r \in Runs : WF_vars(RunStep(r))
  /\ WF_vars(SweepRead)

FairSpec == Spec /\ Fairness

-----------------------------------------------------------------------------
(* Properties.                                                             *)

\* Every variable stays in its domain.
TypeOK ==
  /\ row \in [Docs -> Row]
  /\ chunks \in [Docs -> SUBSET Batch]
  /\ blobs \subseteq Docs
  /\ upload \in [Docs -> UploadPhase]
  /\ deletion \subseteq Docs
  /\ run \in [Runs -> Run]
  /\ stale \subseteq Docs
  /\ sweep \subseteq Docs
  /\ faults \in [FaultKinds -> Nat]

\* A document reported ready has chunks to search, although a later run of the
\* same document may be deleting and replacing them at the time.
ReadyIsIndexed == \A d \in Docs : row[d].status = "ready" => chunks[d] # {}

\* No chunk outlives its document: neither a run that was embedding while the
\* user deleted the document nor one that starts afterwards brings any back.
IndexedHasRow == \A d \in Docs : chunks[d] # {} => Exists(d)

\* While a document is pending nobody works on it past the claim and nothing of
\* it can be searched, so whatever re-drives pending documents loses no work.
PendingUntouched ==
  \A d \in Docs : row[d].status = "pending" =>
    /\ chunks[d] = {}
    /\ \A r \in Runs : run[r].doc = d => run[r].pc \notin PastClaim

\* The sweep never had a reason to select d, so d has one job.
Unswept(d) == d \notin stale

\* No job was cancelled by its timeout and no database call raised: only the
\* processes and the queue failed.
Undisturbed == faults["timeout"] = 0 /\ faults["db"] = 0

\* "Re-ingestion replaces prior chunks rather than duplicating them"
\* (ingest.py:89).
SingleBatch == \A d \in Docs : Cardinality(chunks[d]) <= 1

\* So it does, however often a crash makes ARQ deliver the job again, for a
\* document that the sweep never selected.
SingleBatchUnswept == \A d \in Docs : Unswept(d) => Cardinality(chunks[d]) <= 1

\* A document in processing whose bytes are still there has a run that will
\* settle it: the sweep does not look at processing documents, so nothing else
\* ever would.
ProcessingIsAttended ==
  Undisturbed => \A d \in blobs : row[d].status = "processing" =>
    \E r \in Runs : run[r].doc = d /\ run[r].pc \in (PC \ {"idle", "exit"})

\* The bytes of a pending document are in the store, whoever is about to ingest
\* it, unless the request that deletes it is between the bytes and the row.
PendingHasBytes ==
  faults["db"] = 0 /\ faults["api"] = 0 =>
    \A d \in Docs : row[d].status = "pending" => d \in blobs \cup deletion

\* An upload the API accepted is eventually ready, failed or deleted, unless a
\* delete request took its bytes: "a stuck upload is always visible rather than
\* sitting on `pending` forever" (ingest.py:48).  A job that its timeout cancels
\* leaves its document in processing, so the promise ends there.
UploadSettles ==
  \A d \in Docs : row[d].status \in {"pending", "processing"}
                    ~> \/ row[d].status \in {"none", "ready", "failed"}
                       \/ d \notin blobs
                       \/ ~Undisturbed

\* The sequence of states a client may observe is that of DocumentLifecycle.
Lifecycle == INSTANCE DocumentLifecycle WITH
  status  <- [d \in Docs |-> row[d].status],
  indexed <- {d \in Docs : chunks[d] # {}},
  removed <- {d \in Docs : upload[d] = "done" /\ ~Exists(d)}

LifecycleSpec == Lifecycle!Spec

=============================================================================
