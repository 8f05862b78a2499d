--------------------------- MODULE EvaluationRuns ---------------------------
(***************************************************************************)
(* Evaluation runs: a run is created, claimed by a worker in the name of   *)
(* its Celery task, carried out case by case and saved whole once, as      *)
(* COMPLETED or FAILED.  A claim may be repeated under the same task id,   *)
(* so that a run whose worker was lost is taken up again.                  *)
(***************************************************************************)
EXTENDS TaskQueue

CONSTANT Runs  \* ids of evaluation_runs

ASSUME RunsAssumption == Runs \subseteq Records

NoRun == [status |-> "absent", error |-> "none", owner |-> None]

EvaluationInit == QueueInit("evaluation", NoRun)

-----------------------------------------------------------------------------
(* prepare_evaluation_retry, by the retry endpoint and by the task: one update *)

MayPrepare(run) == run.status = "failed"

Prepare(a) ==
    /\ pc[a] \in {"prepare", "raised"}
    /\ record' = [record EXCEPT ![Subject(a)] =
           IF MayPrepare(@) THEN [NoRun EXCEPT !.status = "queued"] ELSE @]
    /\ Returns(a, IF a \in Clients THEN "send_read" ELSE "resend")
    /\ UNCHANGED copy

-----------------------------------------------------------------------------
(* Clients: POST /evaluation-runs and .../{id}/retry *)

\* create_run: every request makes a run of its own.
CreateRun(c, r) ==
    /\ record[r].status = "absent"
    /\ record' = [record EXCEPT ![r].status = "queued"]
    /\ Arrives(c, r, "send_read")
    /\ UNCHANGED copy

RetryRun(c, r) ==
    /\ record[r].status # "absent"
    /\ Arrives(c, r, "check")
    /\ UNCHANGED records

\* 409: only a failed run can be retried.
Check(c) ==
    /\ pc[c] = "check"
    /\ Returns(c, IF Own(c).status = "failed" THEN "prepare" ELSE "done")
    /\ UNCHANGED records

-----------------------------------------------------------------------------
(* Workers: run_evaluation *)

\* Mutant of MayClaimRun: a run whose worker was lost is not taken up again.
MayClaimQueued(run, t) == run.status = "queued"

MayClaimRun(run, t) == run.status = "queued" \/ (run.status = "running" /\ run.owner = t)

ClaimRun(w) ==
    /\ pc[w] = "task_read"
    /\ \/ /\ MayClaimRun(Own(w), task[w])
          /\ Save(w, [status |-> "running", error |-> "none", owner |-> task[w]])
          /\ Returns(w, "dataset")
       \/ /\ ~MayClaimRun(Own(w), task[w])
          /\ Returns(w, "existing")
          /\ UNCHANGED records

\* Any other run is given back.
Existing(w) ==
    /\ pc[w] = "existing"
    /\ Returns(w, "idle")
    /\ UNCHANGED records

GetDataset(w) ==
    /\ pc[w] = "dataset"
    /\ Returns(w, "cases")
    /\ UNCHANGED records

\* All cases are searched for and compared with the baseline, or the run fails.
Cases(w) ==
    /\ pc[w] = "cases"
    /\ \/ Returns(w, "finish") /\ UNCHANGED copy
       \/ Returns(w, "fail") /\ Hold(w, With(copy[w], "failed", "permanent"))
       \/ TryRaises("store", w, copy[w])
    /\ UNCHANGED record

FinishRun(w) ==
    /\ pc[w] = "finish"
    /\ Saves(w, [copy[w] EXCEPT !.status = "completed"], "idle")

\* The task catches what execute raises: the run is prepared for a retry after a
\* transient failure.
Caught(w, transient) ==
    Goto(w, IF transient /\ MayRetry(w) THEN "raised" ELSE "idle")

\* _fail_and_raise.
FailAndRaise(w) ==
    /\ pc[w] = "fail"
    /\ Save(w, copy[w])
    /\ Caught(w, Transient(copy[w]))
    /\ UNCHANGED <<service, waiting, asked, task, retries, ended, faults>>

\* A call raises that no handler of execute is about, and leaves the run as it is.
ExecuteRaises(w) ==
    /\ pc[w] \in {"task_read", "existing", "dataset", "fail"}
    /\ Fault("other")
    /\ Caught(w, TRUE)
    /\ UNCHANGED <<service, records, waiting, asked, task, retries, ended>>

\* The same for good, or a call of the task or of a request raises.
RunBreaks(a) ==
    /\ pc[a] \in {"check", "prepare", "send_read", "unsent", "unsent_save",
                  "task_read", "existing", "dataset", "fail", "raised"}
    /\ Raises("task", a, IF a \in Workers THEN "idle" ELSE "done")
    /\ UNCHANGED records

EvaluationClientStep(c) ==
    Check(c) \/ Prepare(c) \/ SendRead(c) \/ Send(c) \/ MarkUnsent(c)

EvaluationWorkerStep(w) ==
    \/ \E m \in waiting : Take(w, m)
    \/ ClaimRun(w) \/ Existing(w) \/ GetDataset(w) \/ Cases(w) \/ FinishRun(w)
    \/ FailAndRaise(w) \/ Prepare(w) \/ Resend(w)

EvaluationNext ==
    \/ \E c \in Clients :
         \/ \E r \in Runs : CreateRun(c, r) \/ RetryRun(c, r)
         \/ EvaluationClientStep(c) \/ LoseRequest(c)
    \/ \E w \in Workers : EvaluationWorkerStep(w) \/ ExecuteRaises(w) \/ LoseWorker(w)
    \/ \E a \in Actors : RunBreaks(a)

EvaluationFairness ==
    /\ \A c \in Clients : WF_queueVars(EvaluationClientStep(c))
    /\ \A w \in Workers : WF_queueVars(EvaluationWorkerStep(w))

EvaluationSpec == EvaluationInit /\ [][EvaluationNext]_queueVars

-----------------------------------------------------------------------------
(* Properties *)

\* Two messages of one task wait (a worker lost after self.retry), a run is marked as
\* unsent, or it is saved by a call that raises.
RunDisturbed == \E k \in {"broker", "resent", "answer"} : faults[k] > 0

Executes(w) == service = "evaluation" /\ pc[w] \in {"dataset", "cases", "finish", "fail"}

\* No run is carried out by two workers at once, though one may be claimed again by
\* its own task and is sent again by retries of both the worker and the clients.
OneEvaluation ==
    ~RunDisturbed =>
        \A v, w \in Workers : Executes(v) /\ Executes(w) /\ Subject(v) = Subject(w) => v = w

RunPhase(r) ==
    CASE service # "evaluation" \/ record[r].status = "absent" -> "absent"
      [] OTHER -> [queued |-> "waiting", running |-> "running", completed |-> "succeeded",
                   failed |-> "failed"][record[r].status]

RunsJob == INSTANCE BackgroundJob WITH
    Ids <- Runs, phase <- [r \in Runs |-> RunPhase(r)], disturbed <- RunDisturbed

\* A run is a job: a completed run is a result to compare with, never failed, run or
\* queued again, and a run at work is put back by nobody.
RunIsAJob == RunsJob!Spec

\* More failures of one task than it has retries: the last of them may leave the run
\* as it is.
Exhausted ==
    faults["other"] > 0 /\ faults["other"] + faults["store"] + faults["answer"] > MaxRetries

RunUnderWay(r) == service = "evaluation" /\ record[r].status \in {"queued", "running"}

\* Where a run that has been sent comes, be it that its worker is lost at any point or
\* that calls in or around its execution raise.
RunAtEnd(r) ==
    /\ service = "evaluation"
    /\ \/ record[r].status \in {"completed", "failed"}
       \/ \E k \in {"task", "broker", "request"} : faults[k] > 0
       \/ Exhausted

=============================================================================
