------------------------- MODULE DocumentLifecycle -------------------------
(***************************************************************************)
(* Withdrawal and restoration of one published revision: the lifecycle     *)
(* operations requested through the API, the tasks that carry them out,    *)
(* the catalogs that decide what is served and the Milvus rows that are    *)
(* its projection.                                                         *)
(*                                                                         *)
(* An operation stands for its request_id.  A client sends one task at     *)
(* most, so that a task (and its Celery id, the execution_id it claims an  *)
(* operation with) is named after the client that has sent it; two equal   *)
(* messages waiting are one.  Image and table records change together      *)
(* with the chunk records.  Clients and workers interleave between any two *)
(* storage calls; only the two reads of a new request are one.             *)
(***************************************************************************)
EXTENDS Integers

CONSTANTS
    Ops,         \* lifecycle operations on the revision
    ActionOf,    \* "withdraw" or "restore"
    Clients,     \* API calls, each served once
    Workers,     \* Celery processes
    None,        \* no client, no operation
    MaxRetries,  \* max_retries of the task
    MaxFaults    \* bound on the faults of each kind

Kinds == {"vector", "catalog", "broker", "worker", "resent", "request"}

ASSUME OpsAssumption == ActionOf \in [Ops -> {"withdraw", "restore"}]
ASSUME ActorsAssumption == Workers \cap Clients = {} /\ None \notin Ops \cup Clients
ASSUME BoundsAssumption == MaxRetries \in Nat /\ MaxFaults \in [Kinds -> Nat]

VARIABLES
    status,    \* status of each operation, "absent" before it is created
    claim,     \* its execution_id, None if it has none
    document,  \* lifecycle of the revision in document_catalog
    chunks,    \* lifecycle in chunk_catalog, image_assets and table_assets
    rows,      \* the revision's rows in Milvus
    waiting,   \* messages waiting for a worker: a task and the retries it has made
    pc,        \* the call each actor makes next
    op,        \* the operation each client asks for
    task,      \* the task each worker runs
    retries,   \* the retries it has made
    outcome,   \* what the run of each worker has come to
    faults     \* faults so far, of each kind

catalogs == <<document, chunks>>
vars == <<status, claim, catalogs, rows, waiting, pc, op, task, retries, outcome, faults>>

Actors == Clients \cup Workers
Terminal == {"withdrawn", "restored", "failed"}
Status == Terminal \cup
    {"absent", "requested", "blocking", "vector_cleanup", "restore_validating",
     "restore_indexing", "compensation_required"}
Outcome == Terminal \cup {"none", "compensation_required", "raised"}

\* Calls a worker makes with the operation claimed.
Claimed == {"reread", "bundle", "save_indexing", "stage_rows", "publish_document",
            "publish_chunks", "publish_rows", "reblock_document", "reblock_chunks",
            "delete_rows", "verify_rows", "save", "release"}
WorkerPC == Claimed \cup {"idle", "read", "claim", "current", "retry_read",
                          "retry_write", "resend", "acknowledge"}
ClientPC == {"idle", "create", "blocking", "block_document", "block_chunks",
             "save_failed", "save_cleanup", "retry_read", "retry_write", "dispatch",
             "dispatch_failed", "done"}

\* The revision is published, or has been withdrawn before.
Init ==
    /\ status = [o \in Ops |-> "absent"]
    /\ claim = [o \in Ops |-> None]
    /\ \/ document = "published" /\ chunks = "published" /\ rows = "published"
       \/ document = "withdrawn" /\ chunks = "withdrawn" /\ rows = "absent"
    /\ waiting = {}
    /\ pc = [a \in Actors |-> "idle"]
    /\ op = [c \in Clients |-> None]
    /\ task = [w \in Workers |-> None]
    /\ retries = [w \in Workers |-> 0]
    /\ outcome = [w \in Workers |-> "none"]
    /\ faults = [k \in Kinds |-> 0]

-----------------------------------------------------------------------------
(* Helpers *)

Goto(a, label) == pc' = [pc EXCEPT ![a] = label]

\* _save, of a copy of the operation read earlier: whatever the status is by now.
SetStatus(o, s) == status' = [status EXCEPT ![o] = s]

OpOf(w) == op[task[w]]

Fault(kind) ==
    /\ faults[kind] < MaxFaults[kind]
    /\ faults' = [faults EXCEPT ![kind] = @ + 1]

\* A call returns and the actor goes on, or it raises and is handled elsewhere.
Returns(a, label) == Goto(a, label) /\ UNCHANGED faults
Raises(kind, a, label) == Fault(kind) /\ Goto(a, label)

Decide(w, result) == outcome' = [outcome EXCEPT ![w] = result]

\* The status prepare_retry goes back to.
Restart(o) == IF ActionOf[o] = "withdraw" THEN "vector_cleanup" ELSE "restore_validating"

-----------------------------------------------------------------------------
(* Clients: POST .../withdraw, .../restore and .../retry *)

\* A known request_id is sent to the workers again, a new one needs the revision
\* in the right state.
RequestWithdrawal(o) ==
    IF status[o] # "absent" THEN "dispatch" ELSE IF document = "published" THEN "create" ELSE "done"

RequestRestore(o) ==
    IF status[o] # "absent" THEN "dispatch" ELSE IF document = "withdrawn" THEN "create" ELSE "done"

Request(c, o) ==
    /\ pc[c] = "idle"
    /\ op' = [op EXCEPT ![c] = o]
    /\ Goto(c, IF ActionOf[o] = "withdraw" THEN RequestWithdrawal(o) ELSE RequestRestore(o))
    /\ UNCHANGED <<status, claim, catalogs, rows, waiting, task, retries, outcome, faults>>

Create(c) ==
    /\ pc[c] = "create"
    /\ \/ /\ status[op[c]] = "absent" /\ ActionOf[op[c]] = "withdraw"
          /\ SetStatus(op[c], "requested")
          /\ Goto(c, "blocking")
       \/ /\ status[op[c]] = "absent" /\ ActionOf[op[c]] = "restore"
          /\ SetStatus(op[c], "restore_validating")
          /\ Goto(c, "dispatch")
       \/ /\ status[op[c]] # "absent"
          /\ Goto(c, "dispatch")
          /\ UNCHANGED status
    /\ UNCHANGED <<claim, catalogs, rows, waiting, op, task, retries, outcome, faults>>

Blocking(c) ==
    /\ pc[c] = "blocking"
    /\ SetStatus(op[c], "blocking")
    /\ Goto(c, "block_document")
    /\ UNCHANGED <<claim, catalogs, rows, waiting, op, task, retries, outcome, faults>>

\* block_revision, expecting the document to be published still ...
BlockDocument(c) ==
    /\ pc[c] = "block_document"
    /\ \/ document = "published" /\ document' = "withdrawn" /\ Returns(c, "block_chunks")
       \/ document # "published" /\ Returns(c, "save_failed") /\ UNCHANGED document
       \/ /\ document' \in {document, IF document = "published" THEN "withdrawn" ELSE document}
          /\ Raises("catalog", c, "save_failed")
    /\ UNCHANGED <<status, claim, chunks, rows, waiting, op, task, retries, outcome>>

\* ... and the records below it whatever they are.
BlockChunks(c) ==
    /\ pc[c] = "block_chunks"
    /\ \/ chunks' = "withdrawn" /\ Returns(c, "save_cleanup")
       \/ chunks' \in {chunks, "withdrawn"} /\ Raises("catalog", c, "save_failed")
    /\ UNCHANGED <<status, claim, document, rows, waiting, op, task, retries, outcome>>

SaveBlocked(c) ==
    /\ \/ /\ pc[c] = "save_cleanup"
          /\ SetStatus(op[c], "vector_cleanup")
          /\ Goto(c, "dispatch")
       \/ /\ pc[c] = "save_failed"
          /\ SetStatus(op[c], "failed")
          /\ Goto(c, "done")
    /\ UNCHANGED <<claim, catalogs, rows, waiting, op, task, retries, outcome, faults>>

Retry(c, o) ==
    /\ pc[c] = "idle"
    /\ status[o] # "absent"
    /\ op' = [op EXCEPT ![c] = o]
    /\ Goto(c, "retry_read")
    /\ UNCHANGED <<status, claim, catalogs, rows, waiting, task, retries, outcome, faults>>

\* The endpoint sends an operation that has not succeeded to the workers.
RetryRead(c) ==
    LET s == status[op[c]] IN
    /\ pc[c] = "retry_read"
    /\ Goto(c, CASE s \in {"compensation_required", "failed"} -> "retry_write"
                 [] s \in {"withdrawn", "restored"} -> "done"
                 [] OTHER -> "dispatch")
    /\ UNCHANGED <<status, claim, catalogs, rows, waiting, op, task, retries, outcome, faults>>

RetryWrite(c) ==
    /\ pc[c] = "retry_write"
    /\ SetStatus(op[c], Restart(op[c]))
    /\ Goto(c, "dispatch")
    /\ UNCHANGED <<claim, catalogs, rows, waiting, op, task, retries, outcome, faults>>

\* delay: a call that raises may have reached the broker all the same.
Dispatch(c) ==
    /\ pc[c] = "dispatch"
    /\ \/ waiting' = waiting \cup {<<c, 0>>} /\ Returns(c, "done")
       \/ waiting' \in {waiting, waiting \cup {<<c, 0>>}} /\ Raises("broker", c, "dispatch_failed")
    /\ UNCHANGED <<status, claim, catalogs, rows, op, task, retries, outcome>>

DispatchFailed(c) ==
    /\ pc[c] = "dispatch_failed"
    /\ SetStatus(op[c], "compensation_required")
    /\ Goto(c, "done")
    /\ UNCHANGED <<claim, catalogs, rows, waiting, op, task, retries, outcome, faults>>

\* The request's process stops, or a call nothing catches raises.
LoseRequest(c) ==
    /\ pc[c] \notin {"idle", "done"}
    /\ Raises("request", c, "done")
    /\ UNCHANGED <<status, claim, catalogs, rows, waiting, op, task, retries, outcome>>

-----------------------------------------------------------------------------
(* Workers: process_document_lifecycle_operation *)

Take(w, m) ==
    /\ pc[w] = "idle"
    /\ waiting' = waiting \ {m}
    /\ task' = [task EXCEPT ![w] = m[1]]
    /\ retries' = [retries EXCEPT ![w] = m[2]]
    /\ Decide(w, "none")
    /\ Goto(w, "read")
    /\ UNCHANGED <<status, claim, catalogs, rows, op, faults>>

\* process, before and after the claim: a finished operation is left alone.
Read(w) ==
    /\ \/ /\ pc[w] = "read"
          /\ Goto(w, IF status[OpOf(w)] \in Terminal THEN "idle" ELSE "claim")
       \/ /\ pc[w] = "reread"
          /\ Goto(w, IF status[OpOf(w)] \in Terminal THEN "release" ELSE "bundle")
    /\ UNCHANGED <<status, claim, catalogs, rows, waiting, op, task, retries, outcome, faults>>

\* Mutants of MayClaim: the owner is not compared; the owner itself is refused.
MayClaimAny(w) == TRUE
MayClaimOnce(w) == claim[OpOf(w)] = None

\* One update, on an operation without execution_id or with this task's.
MayClaim(w) == claim[OpOf(w)] \in {None, task[w]}

Claim(w) ==
    /\ pc[w] = "claim"
    /\ \/ /\ MayClaim(w)
          /\ claim' = [claim EXCEPT ![OpOf(w)] = task[w]]
          /\ Returns(w, "reread") \/ Raises("catalog", w, "idle")
       \/ ~MayClaim(w) /\ UNCHANGED claim /\ Returns(w, "current")
       \/ UNCHANGED claim /\ Raises("catalog", w, "idle")
    /\ UNCHANGED <<status, catalogs, rows, waiting, op, task, retries, outcome>>

MayRetry(w) == retries[w] < MaxRetries

\* Another task has the operation: its status is all this one reports.
Current(w) ==
    /\ pc[w] = "current"
    /\ Goto(w, IF status[OpOf(w)] = "compensation_required" /\ MayRetry(w)
                 THEN "retry_read" ELSE "idle")
    /\ UNCHANGED <<status, claim, catalogs, rows, waiting, op, task, retries, outcome, faults>>

\* Mutant of Blocked: the revision's lifecycle is not looked at.
BlockedOrNot == TRUE

Blocked == document = "withdrawn"

\* get_bundle: both actions need a withdrawn revision, and a restoration that its
\* approval, its dates, its manifest and its retained objects still hold.
Bundle(w) ==
    /\ pc[w] = "bundle"
    /\ \/ ~Blocked /\ Decide(w, "failed") /\ Goto(w, "save")
       \/ /\ Blocked /\ ActionOf[OpOf(w)] = "withdraw"
          /\ Goto(w, "delete_rows")
          /\ UNCHANGED outcome
       \/ /\ Blocked /\ ActionOf[OpOf(w)] = "restore"
          /\ \/ Decide(w, "failed") /\ Goto(w, "save")
             \/ Goto(w, "save_indexing") /\ UNCHANGED outcome
    /\ UNCHANGED <<status, claim, catalogs, rows, waiting, op, task, retries, faults>>

SaveIndexing(w) ==
    /\ pc[w] = "save_indexing"
    /\ SetStatus(OpOf(w), "restore_indexing")
    /\ \/ Returns(w, "stage_rows") /\ UNCHANGED outcome
       \/ Raises("catalog", w, "release") /\ Decide(w, "raised")
    /\ UNCHANGED <<claim, catalogs, rows, waiting, op, task, retries>>

StageRows(w) ==
    /\ pc[w] = "stage_rows"
    /\ \/ rows' = "staged" /\ Returns(w, "publish_document")
       \/ rows' \in {rows, "staged"} /\ Raises("vector", w, "reblock_document")
    /\ UNCHANGED <<status, claim, catalogs, waiting, op, task, retries, outcome>>

\* publish_revision, expecting the document to be withdrawn still ...
PublishDocument(w) ==
    /\ pc[w] = "publish_document"
    /\ \/ document = "withdrawn" /\ document' = "published" /\ Returns(w, "publish_chunks")
       \/ document # "withdrawn" /\ UNCHANGED document /\ Returns(w, "reblock_document")
       \/ /\ document' \in {document, IF document = "withdrawn" THEN "published" ELSE document}
          /\ Raises("catalog", w, "reblock_document")
    /\ UNCHANGED <<status, claim, chunks, rows, waiting, op, task, retries, outcome>>

PublishChunks(w) ==
    /\ pc[w] = "publish_chunks"
    /\ \/ chunks' = "published" /\ Returns(w, "publish_rows")
       \/ chunks' \in {chunks, "published"} /\ Raises("catalog", w, "reblock_document")
    /\ UNCHANGED <<status, claim, document, rows, waiting, op, task, retries, outcome>>

\* Mutant of LiveRows: the rows are written as before.
StagedRows == "staged"

LiveRows == "published"

PublishRows(w) ==
    /\ pc[w] = "publish_rows"
    /\ \/ rows' = LiveRows /\ Decide(w, "restored") /\ Returns(w, "save")
       \/ /\ rows' \in {rows, LiveRows}
          /\ UNCHANGED outcome
          /\ Raises("vector", w, "reblock_document")
    /\ UNCHANGED <<status, claim, catalogs, waiting, op, task, retries>>

\* _reblock_after_restore_failure passes over every exception.
ReblockDocument(w) ==
    /\ pc[w] = "reblock_document"
    /\ \/ document' = "withdrawn" /\ Returns(w, "reblock_chunks")
       \/ document' \in {document, "withdrawn"} /\ Raises("catalog", w, "delete_rows")
    /\ UNCHANGED <<status, claim, chunks, rows, waiting, op, task, retries, outcome>>

ReblockChunks(w) ==
    /\ pc[w] = "reblock_chunks"
    /\ \/ chunks' = "withdrawn" /\ Returns(w, "delete_rows")
       \/ chunks' \in {chunks, "withdrawn"} /\ Raises("catalog", w, "delete_rows")
    /\ UNCHANGED <<status, claim, document, rows, waiting, op, task, retries, outcome>>

\* The rows are deleted, and read back.
DeleteRows(w) ==
    /\ pc[w] = "delete_rows"
    /\ \/ rows' = "absent" /\ Returns(w, "verify_rows") /\ UNCHANGED outcome
       \/ /\ rows' \in {rows, "absent"}
          /\ Raises("vector", w, "save")
          /\ Decide(w, "compensation_required")
    /\ UNCHANGED <<status, claim, catalogs, waiting, op, task, retries>>

VerifyRows(w) ==
    /\ pc[w] = "verify_rows"
    /\ \/ /\ Decide(w, IF rows = "absent" /\ ActionOf[OpOf(w)] = "withdraw"
                         THEN "withdrawn" ELSE "compensation_required")
          /\ Returns(w, "save")
       \/ Decide(w, "compensation_required") /\ Raises("vector", w, "save")
    /\ UNCHANGED <<status, claim, catalogs, rows, waiting, op, task, retries>>

\* The status, then its audit record, which may raise as well.
Save(w) ==
    /\ pc[w] = "save"
    /\ SetStatus(OpOf(w), outcome[w])
    /\ \/ Returns(w, "release") /\ UNCHANGED outcome
       \/ Raises("catalog", w, "release") /\ Decide(w, "raised")
    /\ UNCHANGED <<claim, catalogs, rows, waiting, op, task, retries>>

\* A call under the claim, and outside the handlers above, raises unapplied.
NotApplied(w) ==
    /\ pc[w] \in {"reread", "bundle", "save_indexing", "save"}
    /\ Raises("catalog", w, "release")
    /\ Decide(w, "raised")
    /\ UNCHANGED <<status, claim, catalogs, rows, waiting, op, task, retries>>

Released(w) == [claim EXCEPT ![OpOf(w)] = IF @ = task[w] THEN None ELSE @]

\* finally: release_operation.  If that raises, the task ends.
Release(w) ==
    /\ pc[w] = "release"
    /\ \/ /\ claim' = Released(w)
          /\ Returns(w, IF outcome[w] = "compensation_required" /\ MayRetry(w)
                          THEN "retry_read" ELSE "idle")
       \/ claim' \in {claim, Released(w)} /\ Raises("catalog", w, "idle")
    /\ UNCHANGED <<status, catalogs, rows, waiting, op, task, retries, outcome>>

\* The task prepares the retry of its operation and is sent again, as itself, and
\* then its message is acknowledged.
Resend(w) ==
    /\ \/ /\ pc[w] = "retry_read"
          /\ Goto(w, IF status[OpOf(w)] \in {"compensation_required", "failed"}
                       THEN "retry_write" ELSE "resend")
          /\ UNCHANGED <<status, waiting>>
       \/ /\ pc[w] = "retry_write"
          /\ SetStatus(OpOf(w), Restart(OpOf(w)))
          /\ Goto(w, "resend")
          /\ UNCHANGED waiting
       \/ /\ pc[w] = "resend"
          /\ waiting' = waiting \cup {<<task[w], retries[w] + 1>>}
          /\ Goto(w, "acknowledge")
          /\ UNCHANGED status
       \/ /\ pc[w] = "acknowledge"
          /\ Goto(w, "idle")
          /\ UNCHANGED <<status, waiting>>
    /\ UNCHANGED <<claim, catalogs, rows, op, task, retries, outcome, faults>>

\* A call outside the claim raises: the task ends.
Breaks(w) ==
    /\ pc[w] \in {"read", "current", "retry_read", "retry_write", "resend"}
    /\ Raises("catalog", w, "idle")
    /\ UNCHANGED <<status, claim, catalogs, rows, waiting, op, task, retries, outcome>>

\* acks_late, reject_on_worker_lost: the task of a lost worker is delivered again,
\* even if it has been sent again already.
LoseWorker(w) ==
    /\ pc[w] # "idle"
    /\ waiting' = waiting \cup {<<task[w], retries[w]>>}
    /\ Raises(IF pc[w] = "acknowledge" THEN "resent" ELSE "worker", w, "idle")
    /\ UNCHANGED <<status, claim, catalogs, rows, op, task, retries, outcome>>

ClientStep(c) ==
    \/ Create(c) \/ Blocking(c) \/ BlockDocument(c) \/ BlockChunks(c) \/ SaveBlocked(c)
    \/ RetryRead(c) \/ RetryWrite(c) \/ Dispatch(c) \/ DispatchFailed(c)

WorkerStep(w) ==
    \/ \E m \in waiting : Take(w, m)
    \/ Read(w) \/ Claim(w) \/ Current(w) \/ Bundle(w) \/ SaveIndexing(w)
    \/ StageRows(w) \/ PublishDocument(w) \/ PublishChunks(w) \/ PublishRows(w)
    \/ ReblockDocument(w) \/ ReblockChunks(w) \/ DeleteRows(w) \/ VerifyRows(w)
    \/ Save(w) \/ NotApplied(w) \/ Release(w) \/ Resend(w) \/ Breaks(w)

Next ==
    \/ \E c \in Clients :
         \/ \E o \in Ops : Request(c, o) \/ Retry(c, o)
         \/ ClientStep(c)
         \/ LoseRequest(c)
    \/ \E w \in Workers : WorkerStep(w) \/ LoseWorker(w)

Spec == Init /\ [][Next]_vars

\* A request that has arrived is served to its end, a worker goes on with its
\* task and takes the next one.
FairSpec ==
    /\ Spec
    /\ \A c \in Clients : WF_vars(ClientStep(c))
    /\ \A w \in Workers : WF_vars(WorkerStep(w))

-----------------------------------------------------------------------------
(* Properties *)

\* Retrieval takes a chunk only if its row, its record and its document's record
\* are all published (production_repository).
Served == rows = "published" /\ chunks = "published" /\ document = "published"

\* Operations, catalogs, rows, tasks and actors keep the shapes the code gives them.
TypeOK ==
    /\ status \in [Ops -> Status]
    /\ claim \in [Ops -> Clients \cup {None}]
    /\ document \in {"published", "withdrawn"}
    /\ chunks \in {"published", "withdrawn"}
    /\ rows \in {"absent", "staged", "published"}
    /\ waiting \subseteq Clients \X (0 .. MaxRetries)
    /\ pc \in [Actors -> ClientPC \cup WorkerPC]
    /\ op \in [Clients -> Ops \cup {None}]
    /\ task \in [Workers -> Clients \cup {None}]
    /\ retries \in [Workers -> 0 .. MaxRetries]
    /\ outcome \in [Workers -> Outcome]
    /\ faults \in [Kinds -> Nat]

\* No two workers carry out one operation at a time, although tasks are sent
\* twice, retried, and delivered again while their claim is still recorded.  A task
\* that is sent again and delivered again is two tasks with one claim: no worker
\* is lost between the two.
OneExecution ==
    faults["resent"] = 0 =>
        \A v, w \in Workers :
            pc[v] \in Claimed /\ pc[w] \in Claimed /\ OpOf(v) = OpOf(w) => v = w

\* Only one worker has ever taken a task.
Alone == \A v, w \in Workers : task[v] # None /\ task[w] # None => v = w

AskedTwice(o) == \E c, d \in Clients : c # d /\ op[c] = o /\ op[d] = o

\* A withdrawal is on its way, has broken off, or has been asked for again.
Withdrawing ==
    \E o \in Ops :
        ActionOf[o] = "withdraw" /\ (status[o] \notin {"absent", "withdrawn"} \/ AskedTwice(o))

CleanWhenWithdrawn ==
    \A o \in Ops : status[o] # "withdrawn" /\ status'[o] = "withdrawn"
            => document' = "withdrawn" /\ rows' = "absent"

ServedWhenRestored ==
    \A o \in Ops : status[o] # "restored" /\ status'[o] = "restored"
            => Served' \/ Withdrawing'

\* With one worker process, an operation is recorded as withdrawn only while the
\* revision is blocked and its rows are gone, whatever requests and restorations
\* come between.
WithdrawnIsClean == [][Alone => CleanWhenWithdrawn]_vars

\* With one worker process, an operation recorded as restored leaves the revision
\* served, unless a withdrawal is on its way, has broken off or has been asked for
\* again: a slow request for it may block the revision after another's task is done.
RestoredIsServed == [][Alone => ServedWhenRestored]_vars

\* An operation that one request alone has asked for leaves the states in which
\* the workers have work to do, though Milvus fails and
\* workers are lost: the task delivered again finds its own claim.  A call to
\* MongoDB, to the broker or of the request that fails may leave it there.
OperationsEnd ==
    \A o \in Ops :
        status[o] \in {"vector_cleanup", "restore_validating", "restore_indexing"} ~>
            \/ status[o] \in Terminal \cup {"compensation_required"}
            \/ AskedTwice(o)
            \/ \E k \in {"catalog", "broker", "request"} : faults[k] > 0

-----------------------------------------------------------------------------
(* What the documents say of the code and its steps do not keep.  It is       *)
(* refuted by a run of its own.                                               *)

\* docs/T9-4.4.6b受控下架恢复与知识文档管理验收.md:20-21, any failure of a restoration
\* blocks the revision again and leaves nothing half restored to be retrieved: while
\* no worker is busy, a revision all of whose restorations have failed is not served.
FailedRestoreIsBlocked ==
    /\ \A w \in Workers : pc[w] = "idle"
    /\ \E o \in Ops : ActionOf[o] = "restore" /\ status[o] = "failed"
    /\ \A o \in Ops : status[o] \in {"failed", "absent"}
    => ~Served

=============================================================================
