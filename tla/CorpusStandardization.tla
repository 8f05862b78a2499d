------------------------ MODULE CorpusStandardization ------------------------
(***************************************************************************)
(* Standardization jobs: an uploaded snapshot of a corpus is expanded,     *)
(* inventoried and standardized into a report for human review.            *)
(*                                                                         *)
(* No job is claimed: whoever runs its task goes through all the stages    *)
(* again and saves the whole job at each, until the report is there or the *)
(* job has failed.  Nor is a retry one update: it is a read and a save.    *)
(***************************************************************************)
EXTENDS TaskQueue

CONSTANT Jobs  \* ids of corpus_standardization_jobs, one per corpus and version

ASSUME JobsAssumption == Jobs \subseteq Records

VARIABLE outrun  \* jobs changed under a retry or run by two (history only)

Stages == <<"validating", "snapshotting", "inventorying", "standardizing">>
NoJob == [status |-> "absent", error |-> "none", report |-> FALSE]

\* Inside the try block of process.
StandardizationTry == {Stages[i] : i \in 1 .. 4} \cup {"finish"}

NothingStandardized == outrun = {}

StandardizationInit == QueueInit("standardization", NoJob) /\ NothingStandardized

-----------------------------------------------------------------------------
(* prepare_retry, of the service: by the retry endpoint and by the task *)

AfterRequeue(a) ==
    CASE a \in Clients -> "send_read"
      [] a \in Workers -> IF ended[a] THEN "resend" ELSE "process"

RequeueRead(a) ==
    /\ pc[a] = "requeue_read"
    /\ Hold(a, Own(a))
    /\ Returns(a, IF Own(a).status = "failed" THEN "requeue_save" ELSE AfterRequeue(a))
    /\ UNCHANGED <<record, outrun>>

JobRequeued(job) == [job EXCEPT !.status = "queued", !.error = "none", !.report = FALSE]

RequeueSave(a) ==
    /\ pc[a] = "requeue_save"
    /\ Save(a, JobRequeued(copy[a]))
    /\ outrun' = IF Own(a) # copy[a] THEN outrun \cup {Subject(a)} ELSE outrun
    /\ Returns(a, AfterRequeue(a))

-----------------------------------------------------------------------------
(* Clients: POST /corpus-standardization-jobs/upload and .../{id}/retry *)

\* create_or_get: one job for each corpus and version ...
CreateOrGet(j) == record' = [record EXCEPT ![j].status = IF @ = "absent" THEN "queued" ELSE @]

\* ... the same version with other files or other metadata is refused, after the files
\* have been stored under their own hash.
Upload(c, j) ==
    /\ \/ Arrives(c, j, "send_read") /\ CreateOrGet(j)
       \/ /\ record[j].status # "absent"
          /\ Arrives(c, j, "done")
          /\ UNCHANGED record
    /\ UNCHANGED <<copy, outrun>>

RetryJob(c, j) ==
    /\ record[j].status # "absent"
    /\ Arrives(c, j, "requeue_read")
    /\ UNCHANGED <<records, outrun>>

-----------------------------------------------------------------------------
(* Workers: process_corpus_standardization *)

JobTaskRead(w) ==
    /\ pc[w] = "task_read"
    /\ Returns(w, IF Transient(Own(w)) THEN "requeue_read" ELSE "process")
    /\ UNCHANGED <<records, outrun>>

\* Mutant of HasEnded: a job that is ready for review is standardized once more.
OnlyFailedHasEnded(job) == job.status = "failed"

HasEnded(job) == job.status \in {"review", "failed"}

AtWork(w) == pc[w] \in StandardizationTry \cup {"fail"}

\* process: a job that has ended is given back, any other is run from the start.
Process(w) ==
    /\ pc[w] = "process"
    /\ Hold(w, Own(w))
    /\ outrun' = IF ~HasEnded(Own(w)) /\ \E v \in Workers : AtWork(v) /\ Subject(v) = Subject(w)
                   THEN outrun \cup {Subject(w)} ELSE outrun
    /\ Returns(w, IF HasEnded(Own(w)) THEN "outcome" ELSE Stages[1])
    /\ UNCHANGED record

\* _advance saves the job at its next stage.  A stage refuses a file, a path or an
\* archive for good.
Advance(w) ==
    /\ \E i \in 1 .. 4 :
         LET announced == [copy[w] EXCEPT !.status = Stages[i]]
         IN  /\ pc[w] = Stages[i]
             /\ \/ Saves(w, announced, IF i = 4 THEN "finish" ELSE Stages[i + 1])
                \/ /\ record' = [record EXCEPT ![Subject(w)] = announced]
                   /\ Hold(w, With(announced, "failed", "permanent"))
                   /\ Returns(w, "fail")
    /\ UNCHANGED outrun

\* The report is ready for review; if the last save raises, the failed job keeps it.
Finish(w) ==
    /\ pc[w] = "finish"
    /\ Saves(w, [copy[w] EXCEPT !.status = "review", !.report = TRUE], "outcome")
    /\ UNCHANGED outrun

\* _fail in a handler.
JobFails(w) ==
    /\ pc[w] = "fail"
    /\ Save(w, copy[w])
    /\ Returns(w, "outcome")
    /\ UNCHANGED outrun

\* The task goes by the job as process returned it.
Outcome(w) ==
    /\ pc[w] = "outcome"
    /\ Ends(w, copy[w], "requeue_read")
    /\ UNCHANGED <<records, outrun>>

\* A call outside the try block raises and ends the task, or the request.
JobBreaks(a) ==
    /\ pc[a] \in {"task_read", "requeue_read", "requeue_save", "send_read", "process",
                  "fail", "unsent", "unsent_save"}
    /\ Raises("task", a, IF a \in Workers THEN "idle" ELSE "done")
    /\ UNCHANGED <<records, outrun>>

StandardizationClientStep(c) ==
    \/ RequeueRead(c) \/ RequeueSave(c)
    \/ (SendRead(c) \/ Send(c) \/ MarkUnsent(c)) /\ UNCHANGED outrun

StandardizationWorkerStep(w) ==
    \/ (Resend(w) \/ \E m \in waiting : Take(w, m)) /\ UNCHANGED outrun
    \/ JobTaskRead(w) \/ RequeueRead(w) \/ RequeueSave(w) \/ Process(w)
    \/ Advance(w) \/ Finish(w) \/ JobFails(w) \/ Outcome(w)

StandardizationNext ==
    \/ \E c \in Clients :
         \/ \E j \in Jobs : Upload(c, j) \/ RetryJob(c, j)
         \/ StandardizationClientStep(c)
         \/ LoseRequest(c) /\ UNCHANGED outrun
    \/ \E w \in Workers :
         StandardizationWorkerStep(w) \/ (LoseWorker(w) /\ UNCHANGED outrun)
    \/ \E a \in Actors : JobBreaks(a)

StandardizationFairness ==
    /\ \A c \in Clients : WF_<<outrun, queueVars>>(StandardizationClientStep(c))
    /\ \A w \in Workers : WF_<<outrun, queueVars>>(StandardizationWorkerStep(w))

StandardizationSpec ==
    StandardizationInit /\ [][StandardizationNext]_<<outrun, queueVars>>

-----------------------------------------------------------------------------
(* Properties *)

\* Two retries meet, two workers run one job, it is marked as unsent, or its last save
\* raises although it was applied.
JobDisturbed == outrun # {} \/ faults["broker"] > 0 \/ faults["answer"] > 0

JobPhase(j) ==
    IF service # "standardization" THEN "absent"
    ELSE CASE record[j].status = "absent" -> "absent"
           [] record[j].status = "queued" -> "waiting"
           [] record[j].status = "review" -> "succeeded"
           [] record[j].status = "failed" -> "failed"
           [] OTHER -> "running"

StandardizationJob == INSTANCE BackgroundJob WITH
    Ids <- Jobs, phase <- [j \in Jobs |-> JobPhase(j)], disturbed <- JobDisturbed

\* A standardization is a job: a report that is ready for review is not taken back, by
\* a task sent twice, by a retry of its worker or by one of a client.
StandardizationIsAJob == StandardizationJob!Spec

JobUnderWay(j) ==
    service = "standardization" /\ record[j].status \notin {"absent", "review", "failed"}

\* Where a job that has been uploaded and sent comes, be it that the worker is lost, that
\* its store fails or that its task is sent again, without anyone asking for it.
JobAtEnd(j) ==
    /\ service = "standardization"
    /\ \/ record[j].status \in {"review", "failed"}
       \/ \E k \in {"task", "broker", "request"} : faults[k] > 0

=============================================================================
