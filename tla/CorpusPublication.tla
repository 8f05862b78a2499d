-------------------------- MODULE CorpusPublication --------------------------
(***************************************************************************)
(* Publication batches: reviewed files of a standardized corpus are        *)
(* ingested one by one, read back across the stores, and isolated again if *)
(* the read-back fails.  A batch is claimed by one update and then saved   *)
(* whole, again and again, from the copy its actor holds.                  *)
(*                                                                         *)
(* The ingestion of a file (IngestionPublication) is one step here with    *)
(* its outcomes.  The document of a file follows from the corpus and the   *)
(* file, so that two batches may hold one document; a revision is the      *)
(* number of times it has been renamed for a retry.                        *)
(***************************************************************************)
EXTENDS TaskQueue

CONSTANTS
    Batches,   \* ids of corpus_publication_batches, one per request_id
    Files,     \* files of the standardization report
    Selected   \* selected_file_ids of each review

ASSUME SelectionAssumption ==
    Batches \subseteq Records /\ Selected \in [Batches -> SUBSET Files]

VARIABLES
    reviewable,  \* is the standardization job REVIEW_REQUIRED
    ingested,    \* revisions of files whose ingestion job is PUBLISHED
    broken,      \* revisions whose ingestion job is in a status between
    served,      \* revisions published in the catalogs and in Milvus
    failures,    \* reconciliation_failures of each actor's prepare_retry
    todo,        \* pending items of each worker's run
    item,        \* the file it is at work on
    overtaken    \* batches that have changed under a retry (history only)

knowledge == <<ingested, broken, served>>
publicationLocals == <<failures, todo, item>>
publicationVars == <<reviewable, knowledge, publicationLocals, overtaken>>

\* Inside the try block of process.
PublicationTry == {"preflight", "publishing", "next_item", "ingest", "reconcile",
                   "compensate", "save_item", "reconciling", "items_failed", "complete"}
Retrying == {"retry_requeue", "retry_get", "retry_save"}

\* A batch is absent, queued, preflight, publishing, reconciling, completed or failed; an
\* item pending, publishing, published or failed, for a failed read-back or otherwise.
NewItem == [status |-> "pending", error |-> "none", revision |-> 0]
NoBatch == [status |-> "absent", error |-> "none", items |-> [f \in Files |-> NewItem]]

NothingPublished ==
    /\ reviewable = TRUE
    /\ ingested = {} /\ broken = {} /\ served = {}
    /\ failures = [a \in Actors |-> {}]
    /\ todo = [w \in Workers |-> {}]
    /\ item = [w \in Workers |-> None]
    /\ overtaken = {}

PublicationInit == QueueInit("publication", NoBatch) /\ NothingPublished

-----------------------------------------------------------------------------
(* Helpers *)

ItemsWith(b, s) == {f \in Files : b.items[f].status = s}

Announced(a, s) == [copy[a] EXCEPT !.status = s]
WithItem(a, s, e) ==
    [copy[a] EXCEPT !.items[item[a]].status = s, !.items[item[a]].error = e]

\* Document and revision of the item at work.
Key(w) == <<item[w], copy[w].items[item[w]].revision>>

\* The same while an item is published: only the item fails.
ItemFails(w) ==
    /\ Raises("store", w, "save_item")
    /\ Hold(w, WithItem(w, "failed", "other"))

-----------------------------------------------------------------------------
(* prepare_retry, of the service: by the retry endpoint and by the task *)

AfterRetry(a) ==
    CASE a \in Clients -> "send_read"
      [] a \in Workers -> IF ended[a] THEN "resend" ELSE "claim"

\* The batch is no longer as the retry has it.
Overtakes(a) ==
    overtaken' = IF failures[a] # {} /\ Own(a) # copy[a]
                   THEN overtaken \cup {Subject(a)} ELSE overtaken

\* The items that failed their read-back are noted ...
RetryRead(a) ==
    /\ pc[a] = "retry_read"
    /\ Hold(a, Own(a))
    /\ failures' = [failures EXCEPT ![a] =
            {f \in ItemsWith(Own(a), "failed") : Own(a).items[f].error = "reconciliation"}]
    /\ Returns(a, "retry_requeue")
    /\ UNCHANGED <<record, reviewable, knowledge, todo, item, overtaken>>

Requeued(b) ==
    [b EXCEPT !.status = "queued", !.error = "none",
        !.items = [f \in Files |->
            IF @[f].status = "failed"
              THEN [@[f] EXCEPT !.status = "pending", !.error = "none"] ELSE @[f]]]

MayRequeue(b) == b.status = "failed"

\* ... one update puts a FAILED batch back into the queue ...
RetryRequeue(a) ==
    /\ pc[a] = "retry_requeue"
    /\ \/ /\ MayRequeue(Own(a))
          /\ Save(a, Requeued(Own(a)))
          /\ Returns(a, IF failures[a] = {} THEN AfterRetry(a) ELSE "retry_save")
       \/ /\ ~MayRequeue(Own(a))
          /\ Returns(a, "retry_get")
          /\ UNCHANGED records
    /\ Overtakes(a)
    /\ UNCHANGED <<reviewable, knowledge, failures, todo, item>>

\* ... or finds it in another status and reads it ...
RetryGet(a) ==
    /\ pc[a] = "retry_get"
    /\ Hold(a, Own(a))
    /\ Returns(a, IF failures[a] = {} THEN AfterRetry(a) ELSE "retry_save")
    /\ Overtakes(a)
    /\ UNCHANGED <<record, reviewable, knowledge, failures, todo, item>>

Renamed(b, renamed) ==
    [b EXCEPT !.items = [f \in Files |->
        IF f \in renamed THEN [b.items[f] EXCEPT !.revision = @ + 1] ELSE b.items[f]]]

\* ... and either way the items noted get a new revision.
RetrySave(a) ==
    /\ pc[a] = "retry_save"
    /\ Save(a, Renamed(copy[a], failures[a]))
    /\ Overtakes(a)
    /\ Returns(a, AfterRetry(a))
    /\ UNCHANGED <<reviewable, knowledge, failures, todo, item>>

-----------------------------------------------------------------------------
(* Clients: POST /corpus-publication-batches and .../{id}/retry *)

\* submit: a known request_id is given back as it is.
Submit(c, b) ==
    /\ reviewable
    /\ Arrives(c, b, "send_read")
    /\ record' = [record EXCEPT ![b].status = IF @ = "absent" THEN "queued" ELSE @]
    /\ UNCHANGED <<copy, publicationVars>>

Retry(c, b) ==
    /\ record[b].status # "absent"
    /\ Arrives(c, b, "retry_read")
    /\ UNCHANGED <<records, publicationVars>>

\* A retry of the standardization job (CorpusStandardization) takes its report
\* back, and a later run of it brings the report again.
Rereview ==
    /\ Fault("other")
    /\ reviewable' = ~reviewable
    /\ UNCHANGED <<service, records, waiting, pc, asked, task, retries, ended, knowledge,
                   publicationLocals, overtaken>>

-----------------------------------------------------------------------------
(* Workers: process_corpus_publication *)

\* A batch that failed for a transient reason is prepared for one more run.
TaskRead(w) ==
    /\ pc[w] = "task_read"
    /\ Returns(w, IF Transient(Own(w)) THEN "retry_read" ELSE "claim")
    /\ UNCHANGED <<records, publicationVars>>

\* Mutant of MayClaim: a batch at work is claimed as well.
MayClaimAny(b) == b.status \notin {"completed", "failed"}

MayClaim(b) == b.status = "queued"

Claim(w) ==
    /\ pc[w] = "claim"
    /\ \/ /\ MayClaim(Own(w))
          /\ Save(w, [Own(w) EXCEPT !.status = "preflight", !.error = "none"])
          /\ Returns(w, "preflight")
       \/ /\ ~MayClaim(Own(w))
          /\ Returns(w, "current")
          /\ UNCHANGED records
    /\ UNCHANGED <<reviewable, knowledge, failures, todo, item, overtaken>>

\* The batch as it ended, or as another task has left it.
Current(w) ==
    /\ pc[w] = "current"
    /\ Ends(w, Own(w), "retry_read")
    /\ UNCHANGED <<records, publicationVars>>

\* _reviewed_job, and the PREFLIGHT event.
Preflight(w) ==
    /\ pc[w] = "preflight"
    /\ \/ reviewable /\ Saves(w, Announced(w, "preflight"), "publishing")
       \/ /\ ~reviewable
          /\ Hold(w, With(copy[w], "failed", "permanent"))
          /\ Returns(w, "fail")
          /\ UNCHANGED record
    /\ UNCHANGED <<reviewable, knowledge, failures, todo, item, overtaken>>

Pending(w) == Selected[Subject(w)] \ ItemsWith(copy[w], "published")

\* The manifest is registered, and the batch PUBLISHING.
StartPublishing(w) ==
    /\ pc[w] = "publishing"
    /\ todo' = [todo EXCEPT ![w] = Pending(w)]
    /\ Saves(w, Announced(w, "publishing"),
             IF Pending(w) = {} THEN "reconciling" ELSE "next_item")
    /\ UNCHANGED <<reviewable, knowledge, failures, item, overtaken>>

\* In the order of the review; the save of PUBLISHING is outside the item's try.
NextItem(w) ==
    /\ pc[w] = "next_item"
    /\ \E f \in todo[w] :
         /\ item' = [item EXCEPT ![w] = f]
         /\ todo' = [todo EXCEPT ![w] = @ \ {f}]
         /\ Saves(w, [copy[w] EXCEPT !.items[f].status = "publishing"], "ingest")
    /\ UNCHANGED <<reviewable, knowledge, failures, overtaken>>

\* submit_file, and retry or process of its job: one that is published already is
\* taken as it is, one between two statuses is given up.
Ingest(w) ==
    /\ pc[w] = "ingest"
    /\ \/ /\ Key(w) \in ingested
          /\ Returns(w, "reconcile")
          /\ UNCHANGED <<ingested, served, copy>>
       \/ /\ Key(w) \notin ingested \cup broken
          /\ ingested' = ingested \cup {Key(w)}
          /\ served' = served \cup {Key(w)}
          /\ Returns(w, "reconcile")
          /\ UNCHANGED copy
       \/ /\ Key(w) \notin ingested
          /\ Returns(w, "save_item")
          /\ Hold(w, WithItem(w, "failed", "other"))
          /\ UNCHANGED <<ingested, served>>
    /\ UNCHANGED <<record, reviewable, broken, failures, todo, item, overtaken>>

ReadBack(w) == Key(w) \in served

\* reconcile_published_document: an object that cannot be read fails it as well.
Reconcile(w) ==
    /\ pc[w] = "reconcile"
    /\ \/ /\ ReadBack(w)
          /\ Hold(w, WithItem(w, "published", "none"))
          /\ Returns(w, "save_item")
       \/ ~ReadBack(w) /\ Returns(w, "compensate") /\ UNCHANGED copy
       \/ ReadBack(w) /\ Raises("other", w, "compensate") /\ UNCHANGED copy
    /\ UNCHANGED <<record, reviewable, knowledge, failures, todo, item, overtaken>>

Isolated(w) == served \ {Key(w)}

Compensate(w) ==
    /\ pc[w] = "compensate"
    /\ served' = Isolated(w)
    /\ \/ /\ Hold(w, WithItem(w, "failed", "reconciliation"))
          /\ Returns(w, "save_item")
       \/ ItemFails(w)
    /\ UNCHANGED <<record, reviewable, ingested, broken, failures, todo, item, overtaken>>

\* An ingestion that is broken off leaves its job where it was.
BreaksOff(w) ==
    IF pc[w] = "ingest" /\ Key(w) \notin ingested
      THEN broken' \in {broken, broken \cup {Key(w)}} ELSE UNCHANGED broken

\* A call between the two saves of an item raises without having been applied.
ItemRaises(w) ==
    /\ pc[w] \in {"ingest", "reconcile", "compensate"}
    /\ ItemFails(w)
    /\ BreaksOff(w)
    /\ UNCHANGED <<record, reviewable, ingested, served, failures, todo, item, overtaken>>

SaveItem(w) ==
    /\ pc[w] = "save_item"
    /\ Saves(w, copy[w], IF todo[w] = {} THEN "reconciling" ELSE "next_item")
    /\ UNCHANGED <<reviewable, knowledge, failures, todo, item, overtaken>>

\* Mutant of SomeFailed: failed items are not counted.
NoneFailed(w) == FALSE

SomeFailed(w) == ItemsWith(copy[w], "failed") # {}

\* The RECONCILING event: nothing is read back here.
Reconciling(w) ==
    /\ pc[w] = "reconciling"
    /\ Saves(w, Announced(w, "reconciling"),
             IF SomeFailed(w) THEN "items_failed" ELSE "complete")
    /\ UNCHANGED <<reviewable, knowledge, failures, todo, item, overtaken>>

\* _finish_failed inside the try block: if its save raises, the batch fails for
\* that reason instead.
ItemsFailed(w) ==
    /\ pc[w] = "items_failed"
    /\ Saves(w, With(copy[w], "failed", "items"), "current")
    /\ UNCHANGED <<reviewable, knowledge, failures, todo, item, overtaken>>

\* The COMPLETED event and the last save write the same batch.
Complete(w) ==
    /\ pc[w] = "complete"
    /\ Saves(w, With(copy[w], "completed", "none"), "current")
    /\ UNCHANGED <<reviewable, knowledge, failures, todo, item, overtaken>>

\* _finish_failed in a handler.
Fail(w) ==
    /\ pc[w] = "fail"
    /\ Save(w, copy[w])
    /\ Returns(w, "current")
    /\ UNCHANGED <<reviewable, knowledge, failures, todo, item, overtaken>>

\* A call outside the try block raises and ends the task, or the request.
Breaks(a) ==
    /\ pc[a] \in Retrying \cup {"task_read", "retry_read", "send_read", "claim",
                                "current", "fail", "unsent", "unsent_save"}
    /\ Raises("task", a, IF a \in Workers THEN "idle" ELSE "done")
    /\ UNCHANGED <<records, publicationVars>>

PublicationLosesWorker(w) ==
    /\ LoseWorker(w)
    /\ BreaksOff(w)
    /\ UNCHANGED <<reviewable, ingested, served, publicationLocals, overtaken>>

PublicationClientStep(c) ==
    \/ RetryRead(c) \/ RetryRequeue(c) \/ RetryGet(c) \/ RetrySave(c)
    \/ (SendRead(c) \/ Send(c) \/ MarkUnsent(c)) /\ UNCHANGED publicationVars

PublicationWorkerStep(w) ==
    \/ (Resend(w) \/ \E m \in waiting : Take(w, m)) /\ UNCHANGED publicationVars
    \/ TaskRead(w) \/ RetryRead(w) \/ RetryRequeue(w) \/ RetryGet(w) \/ RetrySave(w)
    \/ Claim(w) \/ Current(w) \/ Preflight(w) \/ StartPublishing(w) \/ NextItem(w)
    \/ Ingest(w) \/ Reconcile(w) \/ Compensate(w) \/ ItemRaises(w) \/ SaveItem(w)
    \/ Reconciling(w) \/ ItemsFailed(w) \/ Complete(w) \/ Fail(w)

PublicationNext ==
    \/ \E c \in Clients :
         \/ \E b \in Batches : Submit(c, b) \/ Retry(c, b)
         \/ PublicationClientStep(c)
         \/ LoseRequest(c) /\ UNCHANGED publicationVars
    \/ \E w \in Workers : PublicationWorkerStep(w) \/ PublicationLosesWorker(w)
    \/ \E a \in Actors : Breaks(a)
    \/ Rereview

\* A request that has arrived is served to its end, a worker goes on with its
\* task and takes the next one.
PublicationFairness ==
    /\ \A c \in Clients : WF_<<publicationVars, queueVars>>(PublicationClientStep(c))
    /\ \A w \in Workers : WF_<<publicationVars, queueVars>>(PublicationWorkerStep(w))

PublicationSpec ==
    PublicationInit /\ [][PublicationNext]_<<publicationVars, queueVars>>

-----------------------------------------------------------------------------
(* Properties *)

Has(b, s) == service = "publication" /\ record[b].status \in s

Published(b) ==
    \A f \in Selected[b] :
        /\ record[b].items[f].status = "published"
        /\ <<f, record[b].items[f].revision>> \in served

Shared(b) ==
    \E o \in Batches \ {b} :
        record[o].status # "absent" /\ Selected[o] \cap Selected[b] # {}

\* A batch marked as unsent though its message arrived may be run twice, and so may one
\* whose save raised although it was applied.
Hurried == faults["broker"] > 0 \/ faults["answer"] > 0

\* A batch recorded as completed has every one of its files published at the
\* revision it names and served, whatever failed, was isolated, renamed and
\* retried before: unless it may have been run twice or changed under a retry, or another
\* batch holds the same document and has isolated it.
CompletedIsServed ==
    ~Hurried =>
        \A b \in Batches :
            Has(b, {"completed"}) /\ b \notin overtaken /\ ~Shared(b) => Published(b)

\* A revision that failed its read-back is out of retrieval as long as a failed batch
\* says so, also if another batch holds the same document: an isolated revision is never
\* ingested again, as its retry has a new one.  A retry that reads a batch at work may
\* rename its items before they are tried again, so that its record is wrong until the
\* run saves it.
IsolatedIsHidden ==
    faults["broker"] = 0 =>
        \A b \in Batches \ overtaken : \A f \in Selected[b] :
            LET i == record[b].items[f] IN
            Has(b, {"failed"}) /\ i.status = "failed" /\ i.error = "reconciliation" =>
                <<f, i.revision>> \notin served

Running(w) == service = "publication" /\ pc[w] \in PublicationTry \cup {"fail"}

\* One worker at a time runs a batch, through retries, redelivery and repeated
\* requests, for no run is begun before the last one has saved its end, unless the
\* batch changed under a retry.
OneRun ==
    ~Hurried =>
        \A v, w \in Workers :
            Running(v) /\ Running(w) /\ Subject(v) = Subject(w) =>
                v = w \/ Subject(v) \in overtaken

\* Two runs of the batch may be on their way, or a retry that has been overtaken.
BatchDisturbed == overtaken # {} \/ Hurried

BatchPhase(b) ==
    IF service # "publication" THEN "absent"
    ELSE CASE record[b].status = "absent" -> "absent"
           [] record[b].status = "queued" -> "waiting"
           [] record[b].status = "completed" -> "succeeded"
           [] record[b].status = "failed" -> "failed"
           [] OTHER -> "running"

BatchesJob == INSTANCE BackgroundJob WITH
    Ids <- Batches, phase <- [b \in Batches |-> BatchPhase(b)], disturbed <- BatchDisturbed

\* A batch is a job: it starts over only after it has failed, and a completed batch is
\* left alone by retries, repeated requests and tasks sent again.
BatchIsAJob == BatchesJob!Spec

BatchUnderWay(b) == Has(b, {"queued", "preflight", "publishing", "reconciling"})

\* Where a batch at work comes, though calls of its run raise and its task is sent
\* again.  A lost worker leaves it where it was, for no task claims it again.
BatchAtEnd(b) ==
    /\ service = "publication"
    /\ \/ Has(b, {"completed", "failed"})
       \/ b \in overtaken
       \/ \E k \in {"task", "broker", "worker", "request"} : faults[k] > 0

=============================================================================
