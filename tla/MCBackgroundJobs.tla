-------------------------- MODULE MCBackgroundJobs --------------------------
(* The services that share the task queue, one of them in each behaviour. *)
EXTENDS CorpusPublication, CorpusStandardization, EvaluationRuns, EvaluationHoldout, TLC

CONSTANTS r1, r2, f1, f2, k1, k2, k3, w1, w2

Order == <<k1, k2, k3>>

Select == [b \in Batches |-> IF b = r1 THEN Files ELSE {f2}]

AnyFault == [k \in Kinds |-> 1]

Total == faults["store"] + faults["answer"] + faults["task"] + faults["broker"]
           + faults["worker"] + faults["resent"] + faults["request"] + faults["other"]

Mode(name, next, others) == service = name /\ next /\ UNCHANGED others

Init ==
    /\ NothingPublished /\ NothingStandardized /\ NothingOpened
    /\ \/ QueueInit("publication", NoBatch)
       \/ QueueInit("standardization", NoJob)
       \/ EvaluationInit
       \/ QueueInit("holdout", NoFreeze)

Next ==
    \/ Mode("publication", PublicationNext, <<outrun, holdoutVars>>)
    \/ Mode("standardization", StandardizationNext, <<publicationVars, holdoutVars>>)
    \/ Mode("evaluation", EvaluationNext, <<publicationVars, outrun, holdoutVars>>)
    \/ Mode("holdout", HoldoutNext, <<publicationVars, outrun>>)

vars == <<queueVars, publicationVars, outrun, holdoutVars>>

-----------------------------------------------------------------------------
(* Bounds *)

Present(r) == record[r].status # "absent"

\* Clients come in their order.  Without faults two workers run a standardization or
\* a batch of one file, with up to two faults the first of them alone.  A batch of two
\* files meets a failed read-back and another fault, or a failed read-back and another
\* batch.
Bounded ==
    /\ \A i \in 2 .. Len(Order) : pc[Order[i]] # "idle" => pc[Order[i - 1]] # "idle"
    /\ pc[k3] # "idle" => service = "holdout"
    /\ service = "publication" =>
         /\ Total <= 1 + faults["other"]
         /\ Present(r1) /\ Present(r2) => Total = faults["other"]
         /\ pc[w2] # "idle" => Total = 0 /\ ~Present(r1)
    /\ service = "standardization" => Total <= 2 /\ (pc[w2] # "idle" => Total = 0)
    /\ service = "evaluation" => Total <= 2
    /\ service = "holdout" => Total <= 1

ClientStep(c) ==
    \/ Mode("publication", PublicationClientStep(c), <<outrun, holdoutVars>>)
    \/ Mode("standardization", StandardizationClientStep(c), <<publicationVars, holdoutVars>>)
    \/ Mode("evaluation", EvaluationClientStep(c), <<publicationVars, outrun, holdoutVars>>)

WorkerStep(w) ==
    \/ Mode("publication", PublicationWorkerStep(w), <<outrun, holdoutVars>>)
    \/ Mode("standardization", StandardizationWorkerStep(w), <<publicationVars, holdoutVars>>)
    \/ Mode("evaluation", EvaluationWorkerStep(w), <<publicationVars, outrun, holdoutVars>>)

\* Freezes and holdout runs, which alone need k3, are not waited for.
Spec ==
    /\ Init /\ [][Next /\ Bounded']_vars
    /\ \A c \in {k1, k2} : WF_vars(ClientStep(c) /\ Bounded')
    /\ \A w \in Workers : WF_vars(WorkerStep(w) /\ Bounded')

\* What a batch says of its end is so, and what it has isolated is hidden
\* (corpus_publication.py, process and _compensate).
RecordsMatchServed == CompletedIsServed /\ IsolatedIsHidden

\* Two workers never carry out one batch or one evaluation together, whatever is sent
\* again, delivered again or retried (workers/tasks.py, claim_batch and claim_run).
OneAtATime == OneRun /\ OneEvaluation

\* Batches, standardizations and evaluations are jobs in the sense of BackgroundJob:
\* they start over only after they have failed, and a job that has succeeded is left
\* alone by retries, repeated requests and tasks sent again.
ServicesAreJobs == BatchIsAJob /\ StandardizationIsAJob /\ RunIsAJob

\* Work that has been accepted comes to its end, though calls raise, tasks are sent again
\* and workers are lost, with what each service excuses.
WorkEnds ==
    \A r \in Records :
        \/ r \in Batches /\ BatchUnderWay(r)
        \/ r \in Jobs /\ JobUnderWay(r)
        \/ r \in Runs /\ RunUnderWay(r)
        ~> BatchAtEnd(r) \/ JobAtEnd(r) \/ RunAtEnd(r)

-----------------------------------------------------------------------------
(* What an actor still reads, to tell states apart by. *)

Copies == PublicationTry \cup StandardizationTry \cup
    {"fail", "unsent_save", "requeue_save", "outcome", "cases", "retry_requeue", "retry_get", "retry_save"}

LiveLocals(a) ==
    LET worker == a \in Workers /\ pc[a] # "idle" IN
    [copy |-> IF pc[a] \in Copies /\ (pc[a] \in Retrying => failures[a] # {})
                THEN copy[a] ELSE <<>>,
     failures |-> IF pc[a] \in Retrying THEN failures[a] ELSE {},
     todo |-> IF worker /\ pc[a] \in PublicationTry THEN todo[a] ELSE {},
     item |-> IF pc[a] \in {"ingest", "reconcile", "compensate", "save_item"}
                THEN item[a] ELSE None,
     task |-> IF worker THEN <<task[a], retries[a], ended[a]>> ELSE <<>>]

View == <<service, record, reviewable, knowledge, overtaken, outrun, holdoutVars, waiting,
          pc, asked, faults, [a \in Actors |-> LiveLocals(a)]>>

=============================================================================
