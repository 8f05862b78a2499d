------------------------------ MODULE TaskQueue ------------------------------
(***************************************************************************)
(* What the corpus and the evaluation services have in common.  A request  *)
(* of the API changes a record and sends one Celery task; a worker takes   *)
(* the task, may send it again as itself, and acknowledges it at its end   *)
(* (acks_late, reject_on_worker_lost).  Records are read whole, changed in *)
(* memory and saved whole.  A module that extends this one says what the   *)
(* requests and the tasks of one service do.                               *)
(*                                                                         *)
(* A request sends one task at most, so that a task, and its Celery id, is *)
(* named after the request that has sent it; two equal messages waiting    *)
(* are one.  Fault kinds: a call inside the service's try block raises     *)
(* ("store"), or does so although it has been applied ("answer"), one      *)
(* outside it raises ("task"), the broker refuses a message ("broker"), a  *)
(* worker is lost ("worker"), or lost after it has sent its task again     *)
(* ("resent"), a request is lost ("request").                              *)
(***************************************************************************)
EXTENDS Integers, Sequences

CONSTANTS
    Clients,     \* API calls, each served once
    Workers,     \* Celery processes
    Records,     \* ids of jobs, batches or runs
    None,        \* no record, no request
    MaxRetries,  \* max_retries of the task
    MaxFaults    \* bound on the faults of each kind

Kinds == {"store", "answer", "task", "broker", "worker", "resent", "request", "other"}

ASSUME QueueAssumption ==
    /\ Workers \cap Clients = {} /\ None \notin Clients \cup Records
    /\ MaxRetries \in Nat
    /\ MaxFaults \in [Kinds -> Nat]

VARIABLES
    service,  \* whose tasks are run: the same all along
    record,   \* the stored records
    copy,     \* the record each actor holds
    waiting,  \* messages waiting for a worker: a task and the retries it has made
    pc,       \* the call each actor makes next
    asked,    \* the record each request is about
    task,     \* the task each worker runs
    retries,  \* the retries it has made
    ended,    \* has it come to the end of its run
    faults    \* faults so far, of each kind

records == <<record, copy>>
queueVars == <<service, records, waiting, pc, asked, task, retries, ended, faults>>

Actors == Clients \cup Workers

\* One service at work, and no record yet.
QueueInit(name, absent) ==
    /\ service = name
    /\ record = [r \in Records |-> absent]
    /\ copy = [a \in Actors |-> absent]
    /\ waiting = {}
    /\ pc = [a \in Actors |-> "idle"]
    /\ asked = [c \in Clients |-> None]
    /\ task = [w \in Workers |-> None]
    /\ retries = [w \in Workers |-> 0]
    /\ ended = [w \in Workers |-> FALSE]
    /\ faults = [k \in Kinds |-> 0]

-----------------------------------------------------------------------------
(* Calls *)

Goto(a, label) == pc' = [pc EXCEPT ![a] = label]

\* The record an actor is at work on, and what is stored of it.
Subject(a) == asked[IF a \in Workers THEN task[a] ELSE a]
Own(a) == record[Subject(a)]

Fault(kind) ==
    /\ faults[kind] < MaxFaults[kind]
    /\ faults' = [faults EXCEPT ![kind] = @ + 1]

\* A call returns and the actor goes on ...
Returns(a, label) ==
    /\ Goto(a, label)
    /\ UNCHANGED <<service, waiting, asked, task, retries, ended, faults>>

\* ... or it raises and is handled elsewhere.
Raises(kind, a, label) ==
    /\ Fault(kind)
    /\ Goto(a, label)
    /\ UNCHANGED <<service, waiting, asked, task, retries, ended>>

\* A find_one, or what the actor makes of its copy in memory.
Hold(a, held) == copy' = [copy EXCEPT ![a] = held]

\* save: replace_one by id, whatever the record is by now.
Save(a, saved) ==
    /\ record' = [record EXCEPT ![Subject(a)] = saved]
    /\ Hold(a, saved)

With(r, s, e) == [r EXCEPT !.status = s, !.error = e]

\* A call inside the try block raises, or the soft time limit does: the record in
\* memory fails with the name of the exception.
TryRaises(kind, w, held) ==
    /\ Raises(kind, w, "fail")
    /\ \E e \in {"transient", "permanent"} : Hold(w, With(held, "failed", e))

\* A save inside the try block, applied or not when it raises.
Saves(w, saved, label) ==
    \/ Save(w, saved) /\ Returns(w, label)
    \/ record' = [record EXCEPT ![Subject(w)] = saved] /\ TryRaises("answer", w, saved)
    \/ UNCHANGED record /\ TryRaises("store", w, saved)

Transient(r) == r.status = "failed" /\ r.error = "transient"

-----------------------------------------------------------------------------
(* Clients *)

\* A request arrives.
Arrives(c, r, label) ==
    /\ pc[c] = "idle"
    /\ asked' = [asked EXCEPT ![c] = r]
    /\ Goto(c, label)
    /\ UNCHANGED <<service, waiting, task, retries, ended, faults>>

\* _enqueue_...: only a record read as QUEUED is sent.
SendRead(c) ==
    /\ pc[c] = "send_read"
    /\ Returns(c, IF Own(c).status = "queued" THEN "send" ELSE "done")
    /\ UNCHANGED records

\* delay: a call that raises may have reached the broker all the same.
Send(c) ==
    /\ pc[c] = "send"
    /\ \/ waiting' = waiting \cup {<<c, 0>>} /\ Goto(c, "done") /\ UNCHANGED faults
       \/ /\ waiting' \in {waiting, waiting \cup {<<c, 0>>}}
          /\ Fault("broker")
          /\ Goto(c, "unsent")
    /\ UNCHANGED <<service, records, asked, task, retries, ended>>

\* mark_queue_submission_failed reads the record, and saves it as FAILED.
MarkUnsent(c) ==
    \/ /\ pc[c] = "unsent"
       /\ Hold(c, Own(c))
       /\ Returns(c, "unsent_save")
       /\ UNCHANGED record
    \/ /\ pc[c] = "unsent_save"
       /\ Save(c, With(copy[c], "failed", "queue"))
       /\ Returns(c, "done")

LoseRequest(c) ==
    /\ pc[c] \notin {"idle", "done"}
    /\ Raises("request", c, "done")
    /\ UNCHANGED records

-----------------------------------------------------------------------------
(* Workers *)

Take(w, m) ==
    /\ pc[w] = "idle"
    /\ waiting' = waiting \ {m}
    /\ task' = [task EXCEPT ![w] = m[1]]
    /\ retries' = [retries EXCEPT ![w] = m[2]]
    /\ ended' = [ended EXCEPT ![w] = FALSE]
    /\ Goto(w, "task_read")
    /\ UNCHANGED <<service, records, asked, faults>>

MayRetry(w) == retries[w] < MaxRetries

\* The run of its task has come to an end with r: after a transient failure the
\* record is prepared for a retry, and the task sent again.
Ends(w, r, retry) ==
    /\ ended' = [ended EXCEPT ![w] = TRUE]
    /\ Goto(w, IF Transient(r) /\ MayRetry(w) THEN retry ELSE "idle")
    /\ UNCHANGED <<service, waiting, asked, task, retries, faults>>

\* self.retry sends the task again, as itself, and then its message is
\* acknowledged.
Resend(w) ==
    /\ \/ /\ pc[w] = "resend"
          /\ waiting' = waiting \cup {<<task[w], retries[w] + 1>>}
          /\ Goto(w, "acknowledge")
          /\ UNCHANGED <<service, asked, task, retries, ended, faults>>
       \/ pc[w] = "resend" /\ Raises("broker", w, "idle")
       \/ pc[w] = "acknowledge" /\ Returns(w, "idle")
    /\ UNCHANGED records

\* The task of a lost worker is delivered again.
LoseWorker(w) ==
    /\ pc[w] # "idle"
    /\ waiting' = waiting \cup {<<task[w], retries[w]>>}
    /\ Fault(IF pc[w] = "acknowledge" THEN "resent" ELSE "worker")
    /\ Goto(w, "idle")
    /\ UNCHANGED <<service, records, asked, task, retries, ended>>

=============================================================================
