------------------------ MODULE IngestionPublication ------------------------
(***************************************************************************)
(* Ingestion of the revisions of one document: jobs in ingestion_jobs, the *)
(* revision's records in document_catalog and chunk_catalog, its rows in   *)
(* Milvus, the Celery queue between the API and the workers, and the       *)
(* compensation that undoes a run that failed.                             *)
(*                                                                         *)
(* The idempotency key is document, revision and source hash, so a job     *)
(* stands for its source: two jobs of one revision differ in content.      *)
(* Image and table records change together with the chunk records, and the *)
(* alias and the index release hold nothing another step reads: they are   *)
(* part of the actions around them.  Workers and clients interleave        *)
(* between any two storage calls; a call may raise, applied or not, and an *)
(* actor may be lost between two calls.                                    *)
(***************************************************************************)
EXTENDS Integers

CONSTANTS
    Jobs,         \* one per idempotency key
    Revisions,    \* revisions of the document
    None,         \* no job, no revision
    Workers,      \* Celery processes
    Clients,      \* API calls, each served once
    RevisionOf,   \* the revision each job ingests
    Supersedes,   \* supersedes_revision of each job's metadata, or None
    Target,       \* the lifecycle each job's metadata asks for
    MaxRetries,   \* max_retries of the task
    MaxMishaps    \* bound on raising calls and lost actors together

ASSUME JobsAssumption ==
    /\ None \notin Jobs \cup Revisions
    /\ RevisionOf \in [Jobs -> Revisions]
    /\ Supersedes \in [Jobs -> Revisions \cup {None}]
    /\ Target \in [Jobs -> {"staged", "published"}]
ASSUME ActorsAssumption == Workers \cap Clients = {}
ASSUME RetriesAssumption == MaxRetries \in Nat

VARIABLES
    status,     \* status of each job
    error,      \* what its error_code means to the task, "none" if absent
    replay,     \* is there a replay_payload
    documents,  \* document_catalog: source and lifecycle of each revision
    chunks,     \* chunk_catalog, and image_assets and table_assets
    vectors,    \* Milvus rows of each revision
    queue,      \* task messages waiting, by job and by retries made
    pc,         \* the call each actor makes next
    job,        \* the job each actor is at work on
    retries,    \* retries made of the task each worker runs
    sweep,      \* which lifecycle sweep over the catalogs a worker makes
    inner,      \* is it made by the store's handler, inside the service's
    found,      \* were there chunk ids when the sweep began
    retired,    \* previous_superseded
    reason,     \* what the exception being handled means to the task
    spoilt,     \* jobs whose last compensation has raised (history only)
    mishaps     \* raising calls and lost actors so far

jobVars == <<status, error, replay>>
stores == <<documents, chunks, vectors>>
locals == <<job, retries, sweep, inner, found, retired, reason>>
vars == <<jobVars, stores, queue, pc, locals, spoilt, mishaps>>

Actors == Workers \cup Clients
Pipeline == {"validating", "parsing", "quality_check", "embedding"}
Final == {"published", "failed"}
Status == Pipeline \cup Final \cup {"absent", "queued", "staged"}
Kind == {"transient", "permanent"}
Sweeps == {"publish", "supersede", "finalize", "restore", "quarantine"}

Copy == [source : Jobs \cup {None},
         lifecycle : {"absent", "staged", "published", "superseded", "quarantined"}]
Absent == [source |-> None, lifecycle |-> "absent"]

WorkerPC == Pipeline \cup
    {"idle", "task_read", "requeue_read", "requeue_write", "process_read",
     "stage_check", "stage_document", "stage_chunks", "write_chunks",
     "stage_vectors", "mark_staged", "sweep_documents", "sweep_chunks",
     "publish_vectors", "delete_previous", "delete_own", "finish",
     "mark_failed", "again"}
ClientPC == {"idle", "save_replay", "requeue_read", "requeue_write",
             "enqueue_read", "enqueue", "mark_unqueued", "done"}

Init ==
    /\ status = [j \in Jobs |-> "absent"]
    /\ error = [j \in Jobs |-> "none"]
    /\ replay = [j \in Jobs |-> FALSE]
    /\ documents = [r \in Revisions |-> Absent]
    /\ chunks = [r \in Revisions |-> Absent]
    /\ vectors = [r \in Revisions |-> Absent]
    /\ queue = [j \in Jobs |-> [n \in 0 .. MaxRetries |-> 0]]
    /\ pc = [a \in Actors |-> "idle"]
    /\ job = [a \in Actors |-> None]
    /\ retries = [w \in Workers |-> 0]
    /\ sweep = [w \in Workers |-> "quarantine"]
    /\ inner = [w \in Workers |-> FALSE]
    /\ found = [w \in Workers |-> FALSE]
    /\ retired = [w \in Workers |-> FALSE]
    /\ reason = [w \in Workers |-> "permanent"]
    /\ spoilt = {}
    /\ mishaps = 0

-----------------------------------------------------------------------------
(* Helpers *)

Own(w) == RevisionOf[job[w]]
Previous(w) == Supersedes[job[w]]

Goto(a, label) == pc' = [pc EXCEPT ![a] = label]

\* update_job: the status is written whatever it was before.
SetStatus(j, s) == status' = [status EXCEPT ![j] = s]

\* Mutant of SetFailed: the status is not written.
SetFailedQuietly(j, k) == UNCHANGED status /\ error' = [error EXCEPT ![j] = k]

\* The same with FAILED and the error_code of an exception of kind k.
SetFailed(j, k) ==
    /\ SetStatus(j, "failed")
    /\ error' = [error EXCEPT ![j] = k]

\* update_many over the records of revision r.
Marked(store, r, lifecycle) ==
    [store EXCEPT ![r] =
        IF @ = Absent THEN @ ELSE [source |-> @.source, lifecycle |-> lifecycle]]

\* replace_one, bulk_write or upsert of records made from the worker's job.
Written(store, w, lifecycle) ==
    [store EXCEPT ![Own(w)] = [source |-> job[w], lifecycle |-> lifecycle]]

Deleted(store, r) == [store EXCEPT ![r] = Absent]

\* delete_chunks: the rows of the chunk ids the sweep has found.
DeleteRows(w, r) ==
    vectors' = IF found[w] THEN Deleted(vectors, r) ELSE vectors

\* A database, Milvus or MinIO call raises.
Raises ==
    /\ mishaps < MaxMishaps
    /\ mishaps' = mishaps + 1

Sweeping(w, s) ==
    /\ Goto(w, "sweep_documents")
    /\ sweep' = [sweep EXCEPT ![w] = s]

\* The worker is inside the try block of the store's stage_document or
\* publish_document.
InStoreTry(w) ==
    \/ pc[w] = "stage_vectors"
    \/ /\ pc[w] \in {"sweep_documents", "sweep_chunks", "publish_vectors",
                     "delete_previous"}
       /\ sweep[w] \in {"publish", "supersede"}

\* Mutant of Throw: nothing is compensated.
ThrowOnly(w, k) ==
    /\ Goto(w, "mark_failed")
    /\ reason' = [reason EXCEPT ![w] = k]
    /\ UNCHANGED <<sweep, inner>>

\* An exception of kind k.  The store's own handler restores the previous
\* revision if its supersession has returned and quarantines this one; the
\* service's handler quarantines it again.
Throw(w, k) ==
    /\ Sweeping(w, IF InStoreTry(w) /\ retired[w] THEN "restore" ELSE "quarantine")
    /\ inner' = [inner EXCEPT ![w] = InStoreTry(w)]
    /\ reason' = [reason EXCEPT ![w] = k]

\* The service's handler is compensating, and passes over every exception.
Compensating(w) ==
    /\ pc[w] \in {"sweep_documents", "sweep_chunks", "delete_own"}
    /\ sweep[w] = "quarantine"
    /\ ~inner[w]

Fails(w) ==
    /\ Raises
    /\ \/ /\ Compensating(w)
          /\ Goto(w, "mark_failed")
          /\ spoilt' = spoilt \cup {job[w]}
          /\ UNCHANGED <<sweep, inner, reason>>
       \/ /\ ~Compensating(w)
          /\ \E k \in Kind : Throw(w, k)
          /\ UNCHANGED spoilt

Proceed(w, label) ==
    /\ Goto(w, label)
    /\ UNCHANGED <<sweep, inner, reason, spoilt, mishaps>>

-----------------------------------------------------------------------------
(* Clients: POST /ingestion-jobs and POST /ingestion-jobs/{id}/retry *)

\* One upsert on the idempotency key.
CreateOrGetJob(j) == IF status[j] = "absent" THEN SetStatus(j, "queued") ELSE UNCHANGED status

\* The source is stored under its hash, the job is found or made.
Submit(c, j) ==
    /\ pc[c] = "idle"
    /\ job' = [job EXCEPT ![c] = j]
    /\ CreateOrGetJob(j)
    /\ Goto(c, "save_replay")
    /\ UNCHANGED <<error, replay, stores, queue, retries, sweep, inner, found,
                   retired, reason, spoilt, mishaps>>

SaveReplay(c) ==
    /\ pc[c] = "save_replay"
    /\ replay' = [replay EXCEPT ![job[c]] = TRUE]
    /\ Goto(c, "enqueue_read")
    /\ UNCHANGED <<status, error, stores, queue, locals, spoilt, mishaps>>

\* prepare_retry needs a replay payload.
Retry(c, j) ==
    /\ pc[c] = "idle"
    /\ replay[j]
    /\ job' = [job EXCEPT ![c] = j]
    /\ Goto(c, "requeue_read")
    /\ UNCHANGED <<jobVars, stores, queue, retries, sweep, inner, found,
                   retired, reason, spoilt, mishaps>>

AfterRequeue(a) == IF a \in Clients THEN "enqueue_read" ELSE "process_read"

\* prepare_retry reads the job; any status but FAILED is left alone ...
RequeueRead(a) ==
    /\ pc[a] = "requeue_read"
    /\ Goto(a, IF status[job[a]] = "failed" THEN "requeue_write" ELSE AfterRequeue(a))
    /\ UNCHANGED <<jobVars, stores, queue, locals, spoilt, mishaps>>

\* ... and the job it has read is written back as QUEUED.
RequeueWrite(a) ==
    /\ pc[a] = "requeue_write"
    /\ SetStatus(job[a], "queued")
    /\ error' = [error EXCEPT ![job[a]] = "none"]
    /\ Goto(a, AfterRequeue(a))
    /\ UNCHANGED <<replay, stores, queue, locals, spoilt, mishaps>>

\* _enqueue_ingestion: only a job read as QUEUED is sent to the workers.
EnqueueRead(c) ==
    /\ pc[c] = "enqueue_read"
    /\ Goto(c, IF status[job[c]] = "queued" THEN "enqueue" ELSE "done")
    /\ UNCHANGED <<jobVars, stores, queue, locals, spoilt, mishaps>>

Sent(j, n) == queue' = [queue EXCEPT ![j][n] = @ + 1]

\* delay: a call that raises may have reached the broker all the same.
Enqueue(c) ==
    /\ pc[c] = "enqueue"
    /\ \/ Sent(job[c], 0) /\ Goto(c, "done") /\ UNCHANGED mishaps
       \/ /\ Raises
          /\ Sent(job[c], 0) \/ UNCHANGED queue
          /\ Goto(c, "mark_unqueued")
    /\ UNCHANGED <<jobVars, stores, locals, spoilt>>

\* mark_queue_submission_failed.
MarkUnqueued(c) ==
    /\ pc[c] = "mark_unqueued"
    /\ SetFailed(job[c], "queue")
    /\ Goto(c, "done")
    /\ UNCHANGED <<replay, stores, queue, locals, spoilt, mishaps>>

-----------------------------------------------------------------------------
(* Workers: process_ingestion_job *)

Waiting(j, n) == queue[j][n] > 0

\* The message is acknowledged as the task starts.
Take(w, j, n) ==
    /\ pc[w] = "idle"
    /\ Waiting(j, n)
    /\ queue' = [queue EXCEPT ![j][n] = @ - 1]
    /\ job' = [job EXCEPT ![w] = j]
    /\ retries' = [retries EXCEPT ![w] = n]
    /\ retired' = [retired EXCEPT ![w] = FALSE]
    /\ Goto(w, "task_read")
    /\ UNCHANGED <<jobVars, stores, sweep, inner, found, reason, spoilt, mishaps>>

\* A job that failed for a transient reason is prepared for one more run.
TaskRead(w) ==
    /\ pc[w] = "task_read"
    /\ Goto(w, IF status[job[w]] = "failed" /\ error[job[w]] = "transient"
                 THEN "requeue_read" ELSE "process_read")
    /\ UNCHANGED <<jobVars, stores, queue, locals, spoilt, mishaps>>

\* process: only a job read as QUEUED is run, and nothing claims it.
ProcessRead(w) ==
    LET j == job[w] IN
    /\ pc[w] = "process_read"
    /\ \/ /\ status[j] = "queued" /\ replay[j]
          /\ Goto(w, "validating")
          /\ UNCHANGED reason
       \/ /\ status[j] = "queued" /\ ~replay[j]
          /\ Goto(w, "mark_failed")
          /\ reason' = [reason EXCEPT ![w] = "permanent"]
       \/ /\ status[j] # "queued"
          /\ Goto(w, IF status[j] = "failed" /\ error[j] = "transient"
                       THEN "again" ELSE "idle")
          /\ UNCHANGED reason
    /\ UNCHANGED <<jobVars, stores, queue, job, retries, sweep, inner, found,
                   retired, spoilt, mishaps>>

NextStage == [validating |-> "parsing", parsing |-> "quality_check",
              quality_check |-> "embedding", embedding |-> "stage_check"]

\* _run: each stage is announced, then its work is done.
Advance(w) ==
    /\ pc[w] \in Pipeline
    /\ SetStatus(job[w], pc[w])
    /\ Proceed(w, NextStage[pc[w]]) \/ Fails(w)
    /\ UNCHANGED <<error, replay, stores, queue, job, retries, found, retired>>

\* The work of the stage announced last: the source does not verify, the parser,
\* the quality gate or the encoder refuses it, or its provider is unavailable.
RejectSource(w) ==
    /\ pc[w] \in {"parsing", "quality_check", "embedding", "stage_check"}
    /\ \E k \in Kind : Throw(w, k)
    /\ UNCHANGED <<jobVars, stores, queue, job, retries, found, retired, spoilt, mishaps>>

\* Mutant of Foreign: the stored hash is not compared.
ForeignNever(w) == FALSE

\* The revision is there already, with another source_hash.
Foreign(w) == documents[Own(w)].source \notin {None, job[w]}

StageCheck(w) ==
    /\ pc[w] = "stage_check"
    /\ \/ ~Foreign(w) /\ Proceed(w, "stage_document")
       \/ Foreign(w) /\ Throw(w, "permanent") /\ UNCHANGED <<spoilt, mishaps>>
    /\ UNCHANGED <<jobVars, stores, queue, job, retries, found, retired>>

StageDocument(w) ==
    /\ pc[w] = "stage_document"
    /\ documents' = Written(documents, w, "staged")
    /\ Proceed(w, "stage_chunks") \/ Fails(w)
    /\ UNCHANGED <<jobVars, chunks, vectors, queue, job, retries, found, retired>>

\* The revision's chunk records are deleted, then written anew.
StageChunks(w) ==
    /\ \/ /\ pc[w] = "stage_chunks"
          /\ chunks' = Deleted(chunks, Own(w))
          /\ Proceed(w, "write_chunks") \/ Fails(w)
       \/ /\ pc[w] = "write_chunks"
          /\ chunks' = Written(chunks, w, "staged")
          /\ Proceed(w, "stage_vectors") \/ Fails(w)
    /\ UNCHANGED <<jobVars, documents, vectors, queue, job, retries, found, retired>>

StageVectors(w) ==
    /\ pc[w] = "stage_vectors"
    /\ vectors' = Written(vectors, w, "staged")
    /\ Proceed(w, "mark_staged") \/ Fails(w)
    /\ UNCHANGED <<jobVars, documents, chunks, queue, job, retries, found, retired>>

\* STAGED, then publication or finalize_inactive_document.
MarkStaged(w) ==
    /\ pc[w] = "mark_staged"
    /\ SetStatus(job[w], "staged")
    /\ \/ /\ Sweeping(w, IF Target[job[w]] = "published" THEN "publish" ELSE "finalize")
          /\ UNCHANGED <<inner, reason, spoilt, mishaps>>
       \/ Fails(w)
    /\ UNCHANGED <<error, replay, stores, queue, job, retries, found, retired>>

-----------------------------------------------------------------------------
(* Sweeps over the catalogs: publish_document, supersede_previous,           *)
(* finalize_inactive_document, restore_previous and compensate_document.     *)

Subject(w) == IF sweep[w] \in {"supersede", "restore"} THEN Previous(w) ELSE Own(w)

SweepTo(w) ==
    CASE sweep[w] \in {"publish", "restore"} -> "published"
      [] sweep[w] = "supersede" -> "superseded"
      [] sweep[w] = "quarantine" -> "quarantined"
      [] sweep[w] = "finalize" -> Target[job[w]]

\* The chunk ids are read, and the document record is marked ...
SweepDocuments(w) ==
    /\ pc[w] = "sweep_documents"
    /\ documents' = Marked(documents, Subject(w), SweepTo(w))
    /\ found' = [found EXCEPT ![w] = chunks[Subject(w)] # Absent]
    /\ Proceed(w, "sweep_chunks") \/ Fails(w)
    /\ UNCHANGED <<jobVars, chunks, vectors, queue, job, retries, retired>>

\* Mutant of AfterPublish: the previous revision is retired before the rows of
\* this one are published.
RetireFirst(w) == IF Previous(w) = None
                    THEN Goto(w, "publish_vectors") /\ UNCHANGED sweep
                    ELSE Sweeping(w, "supersede")

AfterPublish(w) == Goto(w, "publish_vectors") /\ UNCHANGED sweep

\* What follows a sweep that has returned.
AfterSweep(w) ==
    CASE sweep[w] = "publish" -> AfterPublish(w)
      [] sweep[w] = "supersede" -> Goto(w, "delete_previous") /\ UNCHANGED sweep
      [] sweep[w] = "restore" -> Sweeping(w, "quarantine")
      [] sweep[w] \in {"quarantine", "finalize"} -> Goto(w, "delete_own") /\ UNCHANGED sweep

\* ... then its chunk, image and table records.
SweepChunks(w) ==
    /\ pc[w] = "sweep_chunks"
    /\ chunks' = Marked(chunks, Subject(w), SweepTo(w))
    /\ \/ /\ AfterSweep(w)
          /\ retired' = [retired EXCEPT ![w] = @ \/ sweep[w] = "supersede"]
          /\ UNCHANGED <<inner, reason, spoilt, mishaps>>
       \/ Fails(w) /\ UNCHANGED retired
    /\ UNCHANGED <<jobVars, documents, vectors, queue, job, retries, found>>

\* The rows become PUBLISHED, the alias and the release follow, and the previous
\* revision, if there is one, is superseded.
PublishVectors(w) ==
    /\ pc[w] = "publish_vectors"
    /\ vectors' = Written(vectors, w, "published")
    /\ \/ Previous(w) = None /\ Proceed(w, "finish")
       \/ /\ Previous(w) # None
          /\ Sweeping(w, "supersede")
          /\ UNCHANGED <<inner, reason, spoilt, mishaps>>
       \/ Fails(w)
    /\ UNCHANGED <<jobVars, documents, chunks, queue, job, retries, found, retired>>

DeletePrevious(w) ==
    /\ pc[w] = "delete_previous"
    /\ DeleteRows(w, Previous(w))
    /\ Proceed(w, "finish") \/ Fails(w)
    /\ UNCHANGED <<jobVars, documents, chunks, queue, job, retries, found, retired>>

\* The rows of an inactive or compensated revision.  The store's handler raises
\* again, into the service's; that one goes on to mark the job.
DeleteOwn(w) ==
    /\ pc[w] = "delete_own"
    /\ DeleteRows(w, Own(w))
    /\ \/ sweep[w] = "finalize" /\ Proceed(w, "finish")
       \/ /\ sweep[w] = "quarantine" /\ inner[w]
          /\ Throw(w, reason[w])
          /\ UNCHANGED <<spoilt, mishaps>>
       \/ /\ Compensating(w)
          /\ Goto(w, "mark_failed")
          /\ spoilt' = spoilt \ {job[w]}
          /\ UNCHANGED <<sweep, inner, reason, mishaps>>
       \/ Fails(w)
    /\ UNCHANGED <<jobVars, documents, chunks, queue, job, retries, found, retired>>

\* The last update_job of the run is inside the service's try block too.
Finish(w) ==
    /\ pc[w] = "finish"
    /\ SetStatus(job[w], Target[job[w]])
    /\ Proceed(w, "idle") \/ Fails(w)
    /\ UNCHANGED <<error, replay, stores, queue, job, retries, found, retired>>

MarkFailed(w) ==
    /\ pc[w] = "mark_failed"
    /\ SetFailed(job[w], reason[w])
    /\ Goto(w, IF reason[w] = "transient" THEN "again" ELSE "idle")
    /\ UNCHANGED <<replay, stores, queue, locals, spoilt, mishaps>>

\* The task raises ConnectionError: Celery sends it again, max_retries times.
Again(w) ==
    /\ pc[w] = "again"
    /\ IF retries[w] < MaxRetries THEN Sent(job[w], retries[w] + 1) ELSE UNCHANGED queue
    /\ Goto(w, "idle")
    /\ UNCHANGED <<jobVars, stores, locals, spoilt, mishaps>>

\* A call of the run raises without having been applied, or the soft time limit
\* of the task does.
NotApplied(w) ==
    /\ pc[w] \in WorkerPC \ {"idle", "task_read", "requeue_read", "requeue_write",
                             "process_read", "mark_failed", "again"}
    /\ Fails(w)
    /\ UNCHANGED <<jobVars, stores, queue, job, retries, found, retired>>

\* A worker or an API process stops, or a call outside the run raises and ends
\* the task or the request.
Lose(a) ==
    /\ pc[a] \notin {"idle", "done"}
    /\ Raises
    /\ Goto(a, IF a \in Workers THEN "idle" ELSE "done")
    /\ UNCHANGED <<jobVars, stores, queue, locals, spoilt>>

ClientStep(c) ==
    \/ SaveReplay(c) \/ RequeueRead(c) \/ RequeueWrite(c)
    \/ EnqueueRead(c) \/ Enqueue(c) \/ MarkUnqueued(c)

WorkerStep(w) ==
    \/ \E j \in Jobs, n \in 0 .. MaxRetries : Take(w, j, n)
    \/ TaskRead(w) \/ RequeueRead(w) \/ RequeueWrite(w) \/ ProcessRead(w)
    \/ Advance(w) \/ RejectSource(w) \/ StageCheck(w) \/ StageDocument(w)
    \/ StageChunks(w) \/ StageVectors(w) \/ MarkStaged(w)
    \/ SweepDocuments(w) \/ SweepChunks(w) \/ PublishVectors(w)
    \/ DeletePrevious(w) \/ DeleteOwn(w) \/ Finish(w) \/ MarkFailed(w)
    \/ Again(w) \/ NotApplied(w)

Next ==
    \/ \E c \in Clients : (\E j \in Jobs : Submit(c, j) \/ Retry(c, j)) \/ ClientStep(c)
    \/ \E w \in Workers : WorkerStep(w)
    \/ \E a \in Actors : Lose(a)

Spec == Init /\ [][Next]_vars

\* A worker goes on with its task and takes the next message, a request that has
\* arrived is served to its end.
FairSpec ==
    /\ Spec
    /\ \A c \in Clients : WF_vars(ClientStep(c))
    /\ \A w \in Workers : WF_vars(WorkerStep(w))

-----------------------------------------------------------------------------
(* Properties *)

\* Retrieval takes a chunk only if its row, its record and its document's record
\* are all published (production_repository).
Serves(r) ==
    /\ vectors[r].lifecycle = "published"
    /\ chunks[r].lifecycle = "published"
    /\ documents[r].lifecycle = "published"

JobTypeOK ==
    /\ status \in [Jobs -> Status]
    /\ error \in [Jobs -> Kind \cup {"none", "queue"}]
    /\ replay \in [Jobs -> BOOLEAN]
    /\ queue \in [Jobs -> [0 .. MaxRetries -> Nat]]
    /\ spoilt \subseteq Jobs
    /\ mishaps \in Nat

StoreTypeOK ==
    /\ documents \in [Revisions -> Copy]
    /\ chunks \in [Revisions -> Copy]
    /\ vectors \in [Revisions -> Copy]

LocalTypeOK ==
    /\ pc \in [Actors -> WorkerPC \cup ClientPC]
    /\ job \in [Actors -> Jobs \cup {None}]
    /\ retries \in [Workers -> 0 .. MaxRetries]
    /\ sweep \in [Workers -> Sweeps]
    /\ inner \in [Workers -> BOOLEAN]
    /\ found \in [Workers -> BOOLEAN]
    /\ retired \in [Workers -> BOOLEAN]
    /\ reason \in [Workers -> Kind]

\* Jobs, catalogs, rows and actors keep the shapes the code gives them.
TypeOK == JobTypeOK /\ StoreTypeOK /\ LocalTypeOK

\* With one worker process, a revision that has entered the catalog keeps its
\* source for ever: the check of source_hash and the replacement of the record are
\* two calls, yet no crash, retry or compensation lets another content in.
RevisionIsImmutable ==
    [][\A r \in Revisions : documents[r].source # None =>
            documents'[r].source = documents[r].source]_vars

\* A job that has failed in a worker serves nothing, wherever its run broke off
\* and whatever other jobs do, unless the compensation has failed too.
FailedIsUnpublished ==
    \A j \in Jobs : status[j] = "failed" /\ error[j] # "queue" /\ j \notin spoilt =>
        ~(Serves(RevisionOf[j]) /\ vectors[RevisionOf[j]].source = j)

\* A revision is retired by a successor that is served at that moment, so that
\* publication leaves no gap between the two.
RetiredBySuccessor ==
    [][\A r \in Revisions :
        documents[r].lifecycle = "published" /\ documents'[r].lifecycle = "superseded"
        => \E j \in Jobs : Supersedes[j] = r /\ Serves(RevisionOf[j])]_vars

\* Unless a call fails or a process is lost, every run that starts comes to an
\* end, through all compensations and retries.
RunsEnd ==
    \A j \in Jobs :
        status[j] \in Pipeline \cup {"staged"} ~>
            \/ status[j] \in Final \cup {Target[j]}
            \/ mishaps > 0

-----------------------------------------------------------------------------
(* What the documents say of the code and its steps do not keep.  It is       *)
(* refuted by a run of its own.                                               *)

\* docs/T4真实入库验收.md:40, any failure has to "keep previously active release
\* available": while no worker is busy, a document some job has published has a
\* revision that is served.
FailureKeepsRelease ==
    (\A w \in Workers : pc[w] = "idle") /\ (\E j \in Jobs : status[j] = "published")
    => \E r \in Revisions : Serves(r)

=============================================================================
