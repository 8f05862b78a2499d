---------------------- MODULE IngestionPublicationProofs ----------------------
(***************************************************************************)
(* Proofs about IngestionPublication: its types for any number of workers, *)
(* and what holds of it with one worker process, which is how the          *)
(* production deployment runs (celery --concurrency=1).                    *)
(***************************************************************************)
EXTENDS IngestionPublication, TLAPS

Serial == \A v, w \in Workers : v = w

-----------------------------------------------------------------------------
(* Types *)

\* An actor that has something to do knows its job.
Busy == \A a \in Actors : pc[a] # "idle" => job[a] \in Jobs

IType == TypeOK /\ Busy

\* What any step of a worker's run keeps to in those variables.
RunTyped(w) ==
    /\ pc' \in [Actors -> WorkerPC \cup ClientPC]
    /\ \A a \in Actors : a # w => pc'[a] = pc[a]
    /\ sweep' \in [Workers -> Sweeps]
    /\ inner' \in [Workers -> BOOLEAN]
    /\ reason' \in [Workers -> Kind]
    /\ spoilt' \subseteq Jobs
    /\ mishaps' \in Nat

LEMMA GotoTyped ==
    ASSUME TypeOK, NEW a \in Actors, NEW label \in WorkerPC \cup ClientPC, Goto(a, label)
    PROVE  /\ pc' \in [Actors -> WorkerPC \cup ClientPC]
           /\ pc'[a] = label
           /\ \A x \in Actors : x # a => pc'[x] = pc[x]
  BY DEF TypeOK, LocalTypeOK, Goto

LEMMA SweepingTyped ==
    ASSUME TypeOK, NEW w \in Workers, NEW s \in Sweeps, Sweeping(w, s)
    PROVE  /\ pc' \in [Actors -> WorkerPC \cup ClientPC]
           /\ pc'[w] = "sweep_documents"
           /\ \A x \in Actors : x # w => pc'[x] = pc[x]
           /\ sweep' \in [Workers -> Sweeps]
  <1>1. w \in Actors /\ "sweep_documents" \in WorkerPC \cup ClientPC
    BY DEF Actors, WorkerPC
  <1>2. Goto(w, "sweep_documents")
    BY DEF Sweeping
  <1>3. sweep' \in [Workers -> Sweeps]
    BY DEF Sweeping, TypeOK, LocalTypeOK
  <1> QED
    BY <1>1, <1>2, <1>3, GotoTyped

LEMMA ThrowTyped ==
    ASSUME IType, NEW w \in Workers, NEW k \in Kind, Throw(w, k)
    PROVE  /\ pc' \in [Actors -> WorkerPC \cup ClientPC]
           /\ pc'[w] = "sweep_documents"
           /\ \A x \in Actors : x # w => pc'[x] = pc[x]
           /\ sweep' \in [Workers -> Sweeps]
           /\ inner' \in [Workers -> BOOLEAN]
           /\ reason' \in [Workers -> Kind]
  <1> DEFINE s == IF InStoreTry(w) /\ retired[w] THEN "restore" ELSE "quarantine"
  <1>1. s \in Sweeps /\ Sweeping(w, s) /\ TypeOK
    BY DEF Sweeps, Throw, IType
  <1>2. InStoreTry(w) \in BOOLEAN
    BY DEF InStoreTry
  <1>3. inner' \in [Workers -> BOOLEAN]
    BY <1>1, <1>2 DEF Throw, TypeOK, LocalTypeOK
  <1>4. reason' \in [Workers -> Kind]
    BY <1>1 DEF Throw, TypeOK, LocalTypeOK
  <1> HIDE DEF s
  <1> QED
    BY <1>1, <1>3, <1>4, SweepingTyped

LEMMA FailsTyped ==
    ASSUME IType, NEW w \in Workers, pc[w] # "idle", Fails(w)
    PROVE  RunTyped(w) /\ pc'[w] \in {"sweep_documents", "mark_failed"}
  <1> USE DEF IType
  <1>1. mishaps' \in Nat
    BY DEF Fails, Raises, TypeOK, JobTypeOK
  <1>2. w \in Actors /\ job[w] \in Jobs /\ "mark_failed" \in WorkerPC \cup ClientPC
    BY DEF Actors, WorkerPC, Busy
  <1>3. CASE /\ Goto(w, "mark_failed")
             /\ spoilt' = spoilt \cup {job[w]}
             /\ UNCHANGED <<sweep, inner, reason>>
    BY <1>1, <1>2, <1>3, GotoTyped DEF RunTyped, TypeOK, LocalTypeOK, JobTypeOK
  <1>4. CASE (\E k \in Kind : Throw(w, k)) /\ UNCHANGED spoilt
    BY <1>1, <1>4, ThrowTyped DEF RunTyped, TypeOK, JobTypeOK
  <1> QED
    BY <1>3, <1>4 DEF Fails

LEMMA ProceedTyped ==
    ASSUME IType, NEW w \in Workers, NEW label \in WorkerPC, Proceed(w, label)
    PROVE  RunTyped(w) /\ pc'[w] = label
  <1>1. TypeOK /\ w \in Actors /\ label \in WorkerPC \cup ClientPC
    BY DEF Actors, IType
  <1>2. Goto(w, label)
    BY DEF Proceed
  <1> QED
    BY <1>1, <1>2, GotoTyped DEF Proceed, RunTyped, TypeOK, LocalTypeOK, JobTypeOK

\* The parts of the state a run step has to keep, besides those of RunTyped.
LEMMA RunStepTyped ==
    ASSUME IType, NEW w \in Workers, pc[w] # "idle", RunTyped(w),
           status' \in [Jobs -> Status], StoreTypeOK',
           error' = error, replay' = replay, queue' = queue,
           job' = job, retries' = retries,
           found' \in [Workers -> BOOLEAN], retired' \in [Workers -> BOOLEAN]
    PROVE  IType'
  BY DEF IType, RunTyped, TypeOK, JobTypeOK, LocalTypeOK, Busy

LEMMA WrittenTyped ==
    ASSUME IType, NEW w \in Workers, pc[w] # "idle", NEW l,
           l \in {"absent", "staged", "published", "superseded", "quarantined"},
           NEW store \in [Revisions -> Copy]
    PROVE  Written(store, w, l) \in [Revisions -> Copy]
  <1>1. job[w] \in Jobs
    BY DEF IType, Busy, Actors
  <1> QED
    BY <1>1 DEF Written, Copy

LEMMA MarkedTyped ==
    ASSUME NEW store \in [Revisions -> Copy], NEW r, NEW l,
           l \in {"absent", "staged", "published", "superseded", "quarantined"}
    PROVE  Marked(store, r, l) \in [Revisions -> Copy]
  BY DEF Marked, Copy

LEMMA DeletedTyped ==
    ASSUME NEW store \in [Revisions -> Copy], NEW r
    PROVE  Deleted(store, r) \in [Revisions -> Copy]
  BY DEF Deleted, Copy, Absent

LEMMA StatusTyped ==
    ASSUME TypeOK, NEW j \in Jobs, NEW s \in Status, SetStatus(j, s)
    PROVE  status' \in [Jobs -> Status]
  BY DEF TypeOK, JobTypeOK, SetStatus

LEMMA SweepToTyped ==
    ASSUME IType, NEW w \in Workers, pc[w] # "idle"
    PROVE  SweepTo(w) \in {"absent", "staged", "published", "superseded", "quarantined"}
  <1>1. job[w] \in Jobs /\ sweep[w] \in Sweeps
    BY DEF IType, Busy, Actors, TypeOK, LocalTypeOK
  <1>2. Target[job[w]] \in {"staged", "published"}
    BY <1>1, JobsAssumption
  <1> QED
    BY <1>1, <1>2 DEF SweepTo, Sweeps

LEMMA TypeInit ==
    Init => IType
  BY JobsAssumption, RetriesAssumption
     DEF Init, IType, Busy, TypeOK, JobTypeOK, StoreTypeOK, LocalTypeOK, Status, Kind,
         Copy, Absent, WorkerPC, ClientPC, Sweeps, Actors

LEMMA ClientTyped ==
    ASSUME IType, NEW a \in Actors, NEW j \in Jobs, NEW label \in WorkerPC \cup ClientPC,
           Goto(a, label), job' = job \/ job' = [job EXCEPT ![a] = j],
           job'[a] \in Jobs \/ label = "idle",
           status' \in [Jobs -> Status], error' \in [Jobs -> Kind \cup {"none", "queue"}],
           replay' \in [Jobs -> BOOLEAN], queue' \in [Jobs -> [0 .. MaxRetries -> Nat]],
           mishaps' \in Nat, spoilt' = spoilt,
           UNCHANGED <<stores, sweep, inner, found, reason>>,
           retries' \in [Workers -> 0 .. MaxRetries], retired' \in [Workers -> BOOLEAN]
    PROVE  IType'
  <1>1. /\ pc' \in [Actors -> WorkerPC \cup ClientPC]
        /\ pc'[a] = label
        /\ \A x \in Actors : x # a => pc'[x] = pc[x]
    BY GotoTyped DEF IType
  <1>2. TypeOK'
    BY <1>1 DEF IType, TypeOK, JobTypeOK, StoreTypeOK, LocalTypeOK, stores
  <1>3. Busy'
    BY <1>1 DEF IType, Busy, TypeOK, LocalTypeOK
  <1> QED
    BY <1>2, <1>3 DEF IType

LEMMA SentTyped ==
    ASSUME TypeOK, NEW j \in Jobs, NEW n \in 0 .. MaxRetries, Sent(j, n)
    PROVE  queue' \in [Jobs -> [0 .. MaxRetries -> Nat]]
  <1>1. queue \in [Jobs -> [0 .. MaxRetries -> Nat]]
    BY DEF TypeOK, JobTypeOK
  <1>q. queue[j] \in [0 .. MaxRetries -> Nat]
    BY <1>1
  <1>n. queue[j][n] \in Nat
    BY <1>q
  <1>2. queue[j] \in [0 .. MaxRetries -> Nat] /\ queue[j][n] + 1 \in Nat
    BY <1>q, <1>n
  <1>3. [queue[j] EXCEPT ![n] = queue[j][n] + 1] \in [0 .. MaxRetries -> Nat]
    BY <1>2
  <1>4. queue' = [queue EXCEPT ![j] = [queue[j] EXCEPT ![n] = queue[j][n] + 1]]
    BY <1>1, <1>2 DEF Sent
  <1> QED
    BY <1>1, <1>3, <1>4

\* Every action of a client, and those a worker shares with it.
LEMMA ClientStepTyped ==
    ASSUME IType, NEW a \in Actors, NEW j \in Jobs,
           \/ a \in Clients /\ (Submit(a, j) \/ Retry(a, j) \/ ClientStep(a))
           \/ RequeueRead(a) \/ RequeueWrite(a) \/ Lose(a)
    PROVE  IType'
  <1> USE DEF IType
  <1>a. {"save_replay", "requeue_read", "requeue_write", "enqueue_read", "enqueue",
         "mark_unqueued", "done", "process_read", "idle"} \subseteq WorkerPC \cup ClientPC
    BY DEF WorkerPC, ClientPC
  <1>b. {"queued", "failed"} \subseteq Status
    BY DEF Status, Final
  <1>c. AfterRequeue(a) \in {"enqueue_read", "process_read"}
    BY DEF AfterRequeue
  <1>0. AfterRequeue(a) \in WorkerPC \cup ClientPC
    BY <1>a, <1>c
  <1>1. pc[a] # "idle" => job[a] \in Jobs
    BY DEF Busy
  <1>2. CASE Submit(a, j)
    <2>1. status' \in [Jobs -> Status]
      BY <1>2, <1>b DEF Submit, CreateOrGetJob, SetStatus, TypeOK, JobTypeOK
    <2>2. job' = [job EXCEPT ![a] = j] /\ job'[a] \in Jobs
      BY <1>2 DEF Submit, TypeOK, LocalTypeOK
    <2> QED
      BY <1>a, <1>2, <2>1, <2>2, ClientTyped
         DEF Submit, TypeOK, JobTypeOK, LocalTypeOK, stores
  <1>3. CASE Retry(a, j)
    BY <1>a, <1>3, ClientTyped DEF Retry, TypeOK, JobTypeOK, LocalTypeOK, jobVars, stores
  <1>4. CASE SaveReplay(a)
    BY <1>a, <1>b, <1>0, <1>1, <1>4, ClientTyped
       DEF SaveReplay, TypeOK, JobTypeOK, LocalTypeOK, jobVars, stores, locals
  <1>5. CASE RequeueRead(a)
    BY <1>a, <1>b, <1>0, <1>1, <1>5, ClientTyped
       DEF RequeueRead, TypeOK, JobTypeOK, LocalTypeOK, jobVars, stores, locals
  <1>6. CASE RequeueWrite(a)
    BY <1>a, <1>b, <1>0, <1>1, <1>6, ClientTyped
       DEF RequeueWrite, SetStatus, TypeOK, JobTypeOK, LocalTypeOK, stores, locals
  <1>7. CASE EnqueueRead(a)
    BY <1>a, <1>b, <1>0, <1>1, <1>7, ClientTyped
       DEF EnqueueRead, TypeOK, JobTypeOK, LocalTypeOK, jobVars, stores, locals
  <1>8. CASE Enqueue(a)
    <2>1. 0 \in 0 .. MaxRetries
      BY RetriesAssumption
    <2>2. queue' \in [Jobs -> [0 .. MaxRetries -> Nat]]
      BY <1>1, <1>8, <2>1, SentTyped DEF Enqueue, TypeOK, JobTypeOK
    <2>3. mishaps' \in Nat
      BY <1>8 DEF Enqueue, Raises, TypeOK, JobTypeOK
    <2>4. /\ Goto(a, "done") \/ Goto(a, "mark_unqueued")
          /\ job[a] \in Jobs
          /\ UNCHANGED <<jobVars, stores, locals, spoilt>>
      BY <1>1, <1>8 DEF Enqueue
    <2> QED
      BY <1>a, <2>2, <2>3, <2>4, ClientTyped
         DEF TypeOK, JobTypeOK, LocalTypeOK, jobVars, stores, locals
  <1>9. CASE MarkUnqueued(a)
    BY <1>a, <1>b, <1>0, <1>1, <1>9, ClientTyped
       DEF MarkUnqueued, SetFailed, SetStatus, TypeOK, JobTypeOK, LocalTypeOK, stores, locals
  <1>10. CASE Lose(a)
    <2>1. \E label \in {"idle", "done"} : Goto(a, label)
      BY <1>10 DEF Lose
    <2>2. /\ mishaps' \in Nat /\ job[a] \in Jobs
          /\ UNCHANGED <<jobVars, stores, queue, locals, spoilt>>
      BY <1>1, <1>10 DEF Lose, Raises, TypeOK, JobTypeOK
    <2> QED
      BY <1>a, <2>1, <2>2, ClientTyped
         DEF TypeOK, JobTypeOK, LocalTypeOK, jobVars, stores, locals
  <1> QED
    BY <1>2, <1>3, <1>4, <1>5, <1>6, <1>7, <1>8, <1>9, <1>10 DEF ClientStep

LEMMA RunTypedKept ==
    ASSUME IType, NEW w \in Workers, pc[w] # "idle", RunTyped(w),
           UNCHANGED <<jobVars, stores, queue, job, retries, found, retired>>
    PROVE  IType'
  BY RunStepTyped DEF IType, TypeOK, JobTypeOK, StoreTypeOK, LocalTypeOK, jobVars, stores

\* The actions of a run that leave the stores alone.
LEMMA StatusStepTyped ==
    ASSUME IType, NEW w \in Workers,
           \/ ProcessRead(w) \/ TaskRead(w) \/ Advance(w) \/ RejectSource(w)
           \/ StageCheck(w) \/ MarkStaged(w) \/ Finish(w) \/ MarkFailed(w)
           \/ NotApplied(w)
    PROVE  IType'
  <1> USE DEF IType
  <1>w. w \in Actors /\ pc[w] \in WorkerPC \cup ClientPC
    BY DEF Actors, TypeOK, LocalTypeOK
  <1>j. pc[w] # "idle" => job[w] \in Jobs
    BY <1>w DEF Busy
  <1>a. {"validating", "mark_failed", "again", "idle", "requeue_read", "process_read",
         "stage_document", "finish"} \subseteq WorkerPC
    BY DEF WorkerPC, Pipeline
  <1>t. job[w] \in Jobs => Target[job[w]] \in Status
    BY JobsAssumption DEF Status, Final
  <1>k. Kind \subseteq Kind \cup {"none", "queue"} /\ "permanent" \in Kind
    BY DEF Kind
  <1>1. CASE TaskRead(w)
    BY <1>w, <1>j, <1>a, <1>1, ClientTyped
       DEF TaskRead, TypeOK, JobTypeOK, LocalTypeOK, jobVars, stores, locals
  <1>2. CASE ProcessRead(w)
    <2>1. pc[w] # "idle" /\ (\E label \in WorkerPC : Goto(w, label))
      BY <1>a, <1>2 DEF ProcessRead
    <2>2. reason' \in [Workers -> Kind]
      BY <1>2, <1>k DEF ProcessRead, TypeOK, LocalTypeOK
    <2>3. UNCHANGED <<jobVars, stores, queue, job, retries, sweep, inner, found,
                      retired, spoilt, mishaps>>
      BY <1>2 DEF ProcessRead
    <2>4. RunTyped(w)
      BY <1>w, <2>1, <2>2, <2>3, GotoTyped DEF RunTyped, TypeOK, LocalTypeOK, JobTypeOK
    <2> QED
      BY <2>1, <2>3, <2>4, RunTypedKept
  <1>3. CASE Advance(w)
    <2>1. pc[w] \in Pipeline /\ pc[w] # "idle" /\ pc[w] \in Status
      BY <1>3 DEF Advance, Pipeline, Status
    <2>2. NextStage[pc[w]] \in WorkerPC
      BY <2>1 DEF NextStage, Pipeline, WorkerPC
    <2>3. RunTyped(w)
      BY <1>3, <2>1, <2>2, ProceedTyped, FailsTyped DEF Advance
    <2>4. status' \in [Jobs -> Status]
      BY <1>3, <1>j, <2>1, StatusTyped DEF Advance
    <2> QED
      BY <1>3, <2>1, <2>3, <2>4, RunStepTyped
         DEF Advance, TypeOK, StoreTypeOK, LocalTypeOK, stores
  <1>4. CASE RejectSource(w)
    <2>1. pc[w] # "idle" /\ (\E k \in Kind : Throw(w, k))
      BY <1>4 DEF RejectSource
    <2>2. RunTyped(w)
      BY <1>4, <2>1, ThrowTyped DEF RejectSource, RunTyped, TypeOK, JobTypeOK
    <2> QED
      BY <1>4, <2>1, <2>2, RunTypedKept DEF RejectSource
  <1>5. CASE StageCheck(w)
    <2>1. pc[w] # "idle"
      BY <1>5 DEF StageCheck
    <2>2. CASE Proceed(w, "stage_document")
      BY <1>5, <1>a, <2>1, <2>2, ProceedTyped, RunTypedKept DEF StageCheck
    <2>3. CASE Throw(w, "permanent") /\ UNCHANGED <<spoilt, mishaps>>
      <3>1. RunTyped(w)
        BY <1>k, <2>3, ThrowTyped DEF RunTyped, TypeOK, JobTypeOK
      <3> QED
        BY <1>5, <2>1, <3>1, RunTypedKept DEF StageCheck
    <2> QED
      BY <1>5, <2>2, <2>3 DEF StageCheck
  <1>6. CASE MarkStaged(w)
    <2>1. pc[w] # "idle" /\ "staged" \in Status
      BY <1>6 DEF MarkStaged, Status
    <2>2. status' \in [Jobs -> Status]
      BY <1>6, <1>j, <2>1, StatusTyped DEF MarkStaged
    <2>3. CASE /\ \E s \in Sweeps : Sweeping(w, s)
               /\ UNCHANGED <<inner, reason, spoilt, mishaps>>
      <3>1. RunTyped(w)
        BY <2>3, SweepingTyped DEF RunTyped, TypeOK, JobTypeOK, LocalTypeOK
      <3> QED
        BY <1>6, <2>1, <2>2, <3>1, RunStepTyped
           DEF MarkStaged, TypeOK, StoreTypeOK, LocalTypeOK, stores
    <2>4. CASE Fails(w)
      BY <1>6, <2>1, <2>2, <2>4, FailsTyped, RunStepTyped
         DEF MarkStaged, TypeOK, StoreTypeOK, LocalTypeOK, stores
    <2>5. {"publish", "finalize"} \subseteq Sweeps
      BY DEF Sweeps
    <2> QED
      BY <1>6, <2>3, <2>4, <2>5 DEF MarkStaged
  <1>7. CASE Finish(w)
    <2>1. pc[w] # "idle"
      BY <1>7 DEF Finish
    <2>2. status' \in [Jobs -> Status]
      BY <1>7, <1>j, <1>t, <2>1, StatusTyped DEF Finish
    <2>3. RunTyped(w)
      BY <1>7, <1>a, <2>1, ProceedTyped, FailsTyped DEF Finish
    <2> QED
      BY <1>7, <2>1, <2>2, <2>3, RunStepTyped
         DEF Finish, TypeOK, StoreTypeOK, LocalTypeOK, stores
  <1>8. CASE MarkFailed(w)
    <2>1. job[w] \in Jobs /\ "failed" \in Status /\ reason[w] \in Kind
      BY <1>8, <1>j DEF MarkFailed, Status, Final, TypeOK, LocalTypeOK
    <2>2. status' \in [Jobs -> Status] /\ error' \in [Jobs -> Kind \cup {"none", "queue"}]
      BY <1>8, <2>1 DEF MarkFailed, SetFailed, SetStatus, TypeOK, JobTypeOK
    <2>3. \E label \in WorkerPC \cup ClientPC : Goto(w, label)
      BY <1>8, <1>a DEF MarkFailed
    <2> QED
      BY <1>8, <1>w, <2>1, <2>2, <2>3, ClientTyped
         DEF MarkFailed, TypeOK, JobTypeOK, LocalTypeOK, stores, locals
  <1>9. CASE NotApplied(w)
    BY <1>9, FailsTyped, RunTypedKept DEF NotApplied
  <1> QED
    BY <1>1, <1>2, <1>3, <1>4, <1>5, <1>6, <1>7, <1>8, <1>9

\* The actions of a run that write the catalogs or the rows.
LEMMA StoreStepTyped ==
    ASSUME IType, NEW w \in Workers,
           \/ StageDocument(w) \/ StageChunks(w) \/ StageVectors(w)
           \/ SweepDocuments(w) \/ SweepChunks(w) \/ PublishVectors(w)
           \/ DeletePrevious(w) \/ DeleteOwn(w)
    PROVE  IType'
  <1> USE DEF IType
  <1>s. /\ documents \in [Revisions -> Copy]
        /\ chunks \in [Revisions -> Copy]
        /\ vectors \in [Revisions -> Copy]
    BY DEF TypeOK, StoreTypeOK
  <1>a. {"stage_chunks", "write_chunks", "stage_vectors", "mark_staged", "sweep_chunks",
         "publish_vectors", "delete_previous", "delete_own", "finish", "mark_failed"}
            \subseteq WorkerPC
    BY DEF WorkerPC
  <1>b. {"supersede", "quarantine", "restore", "publish"} \subseteq Sweeps
    BY DEF Sweeps
  <1>c. ASSUME NEW s \in Sweeps, Sweeping(w, s), UNCHANGED <<inner, reason, spoilt, mishaps>>
        PROVE  RunTyped(w)
    BY <1>c, SweepingTyped DEF RunTyped, TypeOK, JobTypeOK, LocalTypeOK
  <1>d. ASSUME NEW label \in WorkerPC, Goto(w, label),
               UNCHANGED <<sweep, inner, reason, spoilt, mishaps>>
        PROVE  RunTyped(w)
    BY <1>d, ProceedTyped DEF Proceed
  <1>e. ASSUME Fails(w), pc[w] # "idle"
        PROVE  RunTyped(w)
    BY <1>e, FailsTyped
  <1>f. ASSUME pc[w] # "idle", RunTyped(w), StoreTypeOK',
               UNCHANGED <<jobVars, queue, job, retries>>,
               found' \in [Workers -> BOOLEAN], retired' \in [Workers -> BOOLEAN]
        PROVE  IType'
    BY <1>f, RunStepTyped DEF TypeOK, JobTypeOK, jobVars
  <1>g. found \in [Workers -> BOOLEAN] /\ retired \in [Workers -> BOOLEAN]
    BY DEF TypeOK, LocalTypeOK
  <1>h. ASSUME NEW r, vectors' = vectors \/ DeleteRows(w, r)
        PROVE  vectors' \in [Revisions -> Copy]
    BY <1>h, <1>s, DeletedTyped DEF DeleteRows
  <1>1. CASE StageDocument(w)
    <2>1. pc[w] # "idle" /\ documents' \in [Revisions -> Copy]
      BY <1>1, <1>s, WrittenTyped DEF StageDocument
    <2>2. RunTyped(w)
      BY <1>1, <1>a, <1>e, <2>1, ProceedTyped DEF StageDocument
    <2> QED
      BY <1>1, <1>f, <1>g, <1>s, <2>1, <2>2 DEF StageDocument, StoreTypeOK
  <1>2. CASE StageChunks(w)
    <2>1. pc[w] # "idle"
      BY <1>2 DEF StageChunks
    <2>2. chunks' \in [Revisions -> Copy]
      BY <1>2, <1>s, <2>1, WrittenTyped, DeletedTyped DEF StageChunks
    <2>3. RunTyped(w)
      BY <1>2, <1>a, <1>e, <2>1, ProceedTyped DEF StageChunks
    <2> QED
      BY <1>2, <1>f, <1>g, <1>s, <2>1, <2>2, <2>3 DEF StageChunks, StoreTypeOK
  <1>3. CASE StageVectors(w)
    <2>1. pc[w] # "idle" /\ vectors' \in [Revisions -> Copy]
      BY <1>3, <1>s, WrittenTyped DEF StageVectors
    <2>2. RunTyped(w)
      BY <1>3, <1>a, <1>e, <2>1, ProceedTyped DEF StageVectors
    <2> QED
      BY <1>3, <1>f, <1>g, <1>s, <2>1, <2>2 DEF StageVectors, StoreTypeOK
  <1>4. CASE SweepDocuments(w)
    <2>1. pc[w] # "idle"
      BY <1>4 DEF SweepDocuments
    <2>2. documents' \in [Revisions -> Copy]
      BY <1>4, <1>s, <2>1, SweepToTyped, MarkedTyped DEF SweepDocuments
    <2>3. found' \in [Workers -> BOOLEAN]
      BY <1>4, <1>g DEF SweepDocuments
    <2>4. RunTyped(w)
      BY <1>4, <1>a, <1>e, <2>1, ProceedTyped DEF SweepDocuments
    <2> QED
      BY <1>4, <1>f, <1>g, <1>s, <2>1, <2>2, <2>3, <2>4 DEF SweepDocuments, StoreTypeOK
  <1>5. CASE SweepChunks(w)
    <2>1. pc[w] # "idle"
      BY <1>5 DEF SweepChunks
    <2>2. chunks' \in [Revisions -> Copy]
      BY <1>5, <1>s, <2>1, SweepToTyped, MarkedTyped DEF SweepChunks
    <2>3. retired' \in [Workers -> BOOLEAN]
      BY <1>5, <1>g DEF SweepChunks
    <2>4. RunTyped(w)
      <3>1. CASE AfterSweep(w) /\ UNCHANGED <<inner, reason, spoilt, mishaps>>
        <4>1. sweep[w] \in Sweeps
          BY DEF TypeOK, LocalTypeOK
        <4> QED
          BY <1>a, <1>b, <1>c, <1>d, <3>1, <4>1 DEF AfterSweep, AfterPublish, Sweeps
      <3>2. CASE Fails(w)
        BY <1>e, <2>1, <3>2
      <3> QED
        BY <1>5, <3>1, <3>2 DEF SweepChunks
    <2> QED
      BY <1>5, <1>f, <1>g, <1>s, <2>1, <2>2, <2>3, <2>4 DEF SweepChunks, StoreTypeOK
  <1>6. CASE PublishVectors(w)
    <2>1. pc[w] # "idle" /\ vectors' \in [Revisions -> Copy]
      BY <1>6, <1>s, WrittenTyped DEF PublishVectors
    <2>2. RunTyped(w)
      BY <1>6, <1>a, <1>b, <1>c, <1>e, <2>1, ProceedTyped DEF PublishVectors
    <2> QED
      BY <1>6, <1>f, <1>g, <1>s, <2>1, <2>2 DEF PublishVectors, StoreTypeOK
  <1>7. CASE DeletePrevious(w)
    <2>1. pc[w] # "idle" /\ vectors' \in [Revisions -> Copy]
      BY <1>7, <1>h DEF DeletePrevious
    <2>2. RunTyped(w)
      BY <1>7, <1>a, <1>e, <2>1, ProceedTyped DEF DeletePrevious
    <2> QED
      BY <1>7, <1>f, <1>g, <1>s, <2>1, <2>2 DEF DeletePrevious, StoreTypeOK
  <1>8. CASE DeleteOwn(w)
    <2>1. pc[w] # "idle" /\ vectors' \in [Revisions -> Copy]
      BY <1>8, <1>h DEF DeleteOwn
    <2>2. RunTyped(w)
      <3>1. CASE Throw(w, reason[w]) /\ UNCHANGED <<spoilt, mishaps>>
        <4>1. reason[w] \in Kind
          BY DEF TypeOK, LocalTypeOK
        <4> QED
          BY <3>1, <4>1, ThrowTyped DEF RunTyped, TypeOK, JobTypeOK
      <3>2. CASE /\ Goto(w, "mark_failed")
                 /\ spoilt' = spoilt \ {job[w]}
                 /\ UNCHANGED <<sweep, inner, reason, mishaps>>
        BY <1>a, <3>2, GotoTyped DEF RunTyped, TypeOK, JobTypeOK, LocalTypeOK, Actors
      <3> QED
        BY <1>8, <1>a, <1>e, <2>1, <3>1, <3>2, ProceedTyped DEF DeleteOwn
    <2> QED
      BY <1>8, <1>f, <1>g, <1>s, <2>1, <2>2 DEF DeleteOwn, StoreTypeOK
  <1> QED
    BY <1>1, <1>2, <1>3, <1>4, <1>5, <1>6, <1>7, <1>8

\* The two ends of a task: its message is taken, and it may be sent again.
LEMMA TaskStepTyped ==
    ASSUME IType, NEW w \in Workers,
           Again(w) \/ \E j \in Jobs, n \in 0 .. MaxRetries : Take(w, j, n)
    PROVE  IType'
  <1> USE DEF IType
  <1>w. w \in Actors /\ {"idle", "task_read"} \subseteq WorkerPC \cup ClientPC
    BY DEF Actors, WorkerPC
  <1>1. CASE Again(w)
    <2>1. job[w] \in Jobs /\ retries[w] \in 0 .. MaxRetries
      BY <1>1, <1>w DEF Again, Busy, TypeOK, LocalTypeOK
    <2>2. queue' \in [Jobs -> [0 .. MaxRetries -> Nat]]
      <3>1. CASE retries[w] < MaxRetries
        <4>1. retries[w] + 1 \in 0 .. MaxRetries
          BY <2>1, <3>1, RetriesAssumption
        <4>2. Sent(job[w], retries[w] + 1)
          BY <1>1, <3>1 DEF Again
        <4> QED
          BY <2>1, <4>1, <4>2, SentTyped
      <3>2. CASE ~(retries[w] < MaxRetries)
        BY <1>1, <3>2 DEF Again, TypeOK, JobTypeOK
      <3> QED
        BY <3>1, <3>2
    <2>3. Goto(w, "idle") /\ UNCHANGED <<jobVars, stores, locals, spoilt, mishaps>>
      BY <1>1 DEF Again
    <2> QED
      BY <1>w, <2>1, <2>2, <2>3, ClientTyped
         DEF TypeOK, JobTypeOK, LocalTypeOK, jobVars, stores, locals
  <1>2. ASSUME NEW j \in Jobs, NEW n \in 0 .. MaxRetries, Take(w, j, n)
        PROVE  IType'
    <2>1. queue \in [Jobs -> [0 .. MaxRetries -> Nat]]
      BY DEF TypeOK, JobTypeOK
    <2>2. queue[j] \in [0 .. MaxRetries -> Nat]
      BY <2>1
    <2>3. queue[j][n] \in Nat
      BY <2>2
    <2>4. queue[j][n] - 1 \in Nat
      BY <1>2, <2>3 DEF Take, Waiting
    <2>5. [queue[j] EXCEPT ![n] = queue[j][n] - 1] \in [0 .. MaxRetries -> Nat]
      BY <2>2, <2>4
    <2>6. queue' = [queue EXCEPT ![j] = [queue[j] EXCEPT ![n] = queue[j][n] - 1]]
      BY <1>2, <2>1, <2>2 DEF Take
    <2>7. queue' \in [Jobs -> [0 .. MaxRetries -> Nat]]
      BY <2>1, <2>5, <2>6
    <2>8. /\ Goto(w, "task_read")
          /\ job' = [job EXCEPT ![w] = j]
          /\ UNCHANGED <<jobVars, stores, sweep, inner, found, reason, spoilt, mishaps>>
      BY <1>2 DEF Take
    <2>9. /\ job'[w] \in Jobs
          /\ retries' \in [Workers -> 0 .. MaxRetries]
          /\ retired' \in [Workers -> BOOLEAN]
      BY <1>2, <1>w DEF Take, TypeOK, LocalTypeOK
    <2> QED
      BY <1>w, <2>7, <2>8, <2>9, ClientTyped
         DEF TypeOK, JobTypeOK, LocalTypeOK, jobVars, stores
  <1> QED
    BY <1>1, <1>2

LEMMA TypeStep ==
    IType /\ [Next]_vars => IType'
  <1> SUFFICES ASSUME IType, [Next]_vars
               PROVE  IType'
    OBVIOUS
  <1>1. CASE UNCHANGED vars
    BY <1>1 DEF IType, Busy, TypeOK, JobTypeOK, StoreTypeOK, LocalTypeOK,
                vars, jobVars, stores, locals
  <1>2. ASSUME NEW k \in Clients, NEW j \in Jobs, Submit(k, j) \/ Retry(k, j)
        PROVE  IType'
    BY <1>2, ClientStepTyped DEF Actors
  <1>3. ASSUME NEW a \in Actors,
               \/ a \in Clients /\ ClientStep(a)
               \/ RequeueRead(a) \/ RequeueWrite(a) \/ Lose(a)
        PROVE  IType'
    <2>1. pc[a] # "idle"
      BY <1>3 DEF ClientStep, SaveReplay, RequeueRead, RequeueWrite, EnqueueRead,
                  Enqueue, MarkUnqueued, Lose
    <2>2. job[a] \in Jobs
      BY <2>1 DEF IType, Busy
    <2> QED
      BY <1>3, <2>2, ClientStepTyped
  <1>4. ASSUME NEW w \in Workers, WorkerStep(w)
        PROVE  IType'
    <2>1. w \in Actors
      BY DEF Actors
    <2> QED
      BY <1>3, <1>4, <2>1, StatusStepTyped, StoreStepTyped, TaskStepTyped DEF WorkerStep
  <1>5. Clients \subseteq Actors
    BY DEF Actors
  <1> QED
    BY <1>1, <1>2, <1>3, <1>4, <1>5 DEF Next

\* Every variable keeps its type, with any number of workers and clients, and an
\* actor that is at work knows the job it works on.
THEOREM IngestionTypes == Spec => []TypeOK
  <1>1. IType => TypeOK
    BY DEF IType
  <1> QED
    BY <1>1, TypeInit, TypeStep, PTL DEF Spec

-----------------------------------------------------------------------------
(* One worker process: the check of source_hash still holds when the record  *)
(* is replaced                                                               *)

\* A worker about to replace the revision's record has found none, or its own.
Checked ==
    \A w \in Workers :
        pc[w] = "stage_document" => documents[Own(w)].source \in {None, job[w]}

SourcesKept == \A r \in Revisions : documents'[r].source = documents[r].source

LEMMA MarkedKeepsSource ==
    ASSUME NEW r, NEW l, documents \in [Revisions -> Copy],
           documents' = Marked(documents, r, l)
    PROVE  SourcesKept
  BY DEF Marked, Absent, SourcesKept

\* Actions of clients, and the ones a worker shares with them, leave the catalog
\* alone and bring no worker to the replacement.
LEMMA ClientKeepsChecked ==
    ASSUME IType, Checked, NEW a \in Actors, NEW j \in Jobs,
           \/ a \in Clients /\ (Submit(a, j) \/ Retry(a, j) \/ ClientStep(a))
           \/ RequeueRead(a) \/ RequeueWrite(a) \/ Lose(a)
    PROVE  Checked' /\ SourcesKept
  <1>1. documents' = documents
    BY DEF Submit, Retry, ClientStep, SaveReplay, RequeueRead, RequeueWrite, EnqueueRead,
           Enqueue, MarkUnqueued, Lose, stores
  <1>2. \E label \in (WorkerPC \cup ClientPC) \ {"stage_document"} : Goto(a, label)
    BY DEF Submit, Retry, ClientStep, SaveReplay, RequeueRead, RequeueWrite, EnqueueRead,
           Enqueue, MarkUnqueued, Lose, AfterRequeue, WorkerPC, ClientPC
  <1>3. pc'[a] # "stage_document" /\ \A x \in Actors : x # a => pc'[x] = pc[x]
    BY <1>2, GotoTyped DEF IType
  <1>4. \A w \in Workers : w # a => job'[w] = job[w]
    BY DEF Submit, Retry, ClientStep, SaveReplay, RequeueRead, RequeueWrite, EnqueueRead,
           Enqueue, MarkUnqueued, Lose, locals, IType, TypeOK, LocalTypeOK, Actors
  <1> QED
    BY <1>1, <1>3, <1>4 DEF Checked, SourcesKept, Own, Actors

\* So do the actions of a worker but the check and the replacement themselves.
LEMMA WorkerKeepsSources ==
    ASSUME IType, NEW w \in Workers, WorkerStep(w), ~StageDocument(w)
    PROVE  SourcesKept
  <1>1. documents \in [Revisions -> Copy]
    BY DEF IType, TypeOK, StoreTypeOK
  <1>2. CASE SweepDocuments(w)
    BY <1>1, <1>2, MarkedKeepsSource DEF SweepDocuments
  <1>3. CASE UNCHANGED documents
    BY <1>3 DEF SourcesKept
  <1>4. SweepDocuments(w) \/ UNCHANGED documents
    BY DEF WorkerStep, Take, TaskRead, RequeueRead, RequeueWrite, ProcessRead, Advance,
           RejectSource, StageCheck, StageChunks, StageVectors, MarkStaged, SweepChunks,
           PublishVectors, DeletePrevious, DeleteOwn, Finish, MarkFailed, Again,
           NotApplied, stores
  <1> QED
    BY <1>2, <1>3, <1>4

LEMMA WorkerStaging ==
    ASSUME IType, NEW w \in Workers, WorkerStep(w), ~StageCheck(w)
    PROVE  pc'[w] # "stage_document"
  <1>w. w \in Actors /\ TypeOK
    BY DEF Actors, IType
  <1>l. DEFINE Labels == WorkerPC \ {"stage_document"}
  <1>a. {"task_read", "requeue_read", "requeue_write", "process_read", "stage_chunks",
         "write_chunks", "stage_vectors", "mark_staged", "sweep_chunks",
         "publish_vectors", "delete_previous", "delete_own", "finish", "mark_failed",
         "again", "idle", "validating"} \subseteq Labels
    BY DEF WorkerPC, Pipeline
  <1>1. ASSUME NEW label \in Labels, Goto(w, label) \/ Proceed(w, label)
        PROVE  pc'[w] # "stage_document"
    BY <1>1, <1>w, GotoTyped DEF Proceed
  <1>2. ASSUME pc[w] # "idle", Fails(w)
        PROVE  pc'[w] # "stage_document"
    BY <1>2, FailsTyped
  <1>3. ASSUME NEW k \in Kind, Throw(w, k)
        PROVE  pc'[w] # "stage_document"
    BY <1>3, ThrowTyped
  <1>4. ASSUME NEW s, Sweeping(w, s)
        PROVE  pc'[w] # "stage_document"
    BY <1>4, <1>w, GotoTyped DEF Sweeping, WorkerPC
  <1> HIDE DEF Labels
  <1>5. CASE \E j \in Jobs, n \in 0 .. MaxRetries : Take(w, j, n)
    BY <1>a, <1>1, <1>5 DEF Take
  <1>6. CASE TaskRead(w) \/ RequeueRead(w) \/ RequeueWrite(w)
    <2>1. \E label \in {"requeue_read", "process_read", "requeue_write", "enqueue_read"} :
            Goto(w, label)
      BY <1>6 DEF TaskRead, RequeueRead, RequeueWrite, AfterRequeue
    <2>2. {"requeue_read", "process_read", "requeue_write", "enqueue_read"}
            \subseteq WorkerPC \cup ClientPC
      BY DEF WorkerPC, ClientPC
    <2> QED
      BY <1>w, <2>1, <2>2, GotoTyped
  <1>7. CASE ProcessRead(w)
    BY <1>a, <1>1, <1>7 DEF ProcessRead
  <1>8. CASE Advance(w)
    <2>1. NextStage[pc[w]] \in {"parsing", "quality_check", "embedding", "stage_check"}
      BY <1>8 DEF Advance, NextStage, Pipeline
    <2>2. {"parsing", "quality_check", "embedding", "stage_check"} \subseteq Labels
      BY DEF Labels, WorkerPC, Pipeline
    <2>3. pc[w] # "idle"
      BY <1>8 DEF Advance, Pipeline
    <2> QED
      BY <1>1, <1>2, <1>8, <2>1, <2>2, <2>3 DEF Advance
  <1>9. CASE RejectSource(w)
    BY <1>3, <1>9 DEF RejectSource
  <1>10. CASE StageDocument(w) \/ StageChunks(w) \/ StageVectors(w)
    BY <1>a, <1>1, <1>2, <1>10 DEF StageDocument, StageChunks, StageVectors
  <1>11. CASE MarkStaged(w) \/ PublishVectors(w)
    BY <1>a, <1>1, <1>2, <1>4, <1>11 DEF MarkStaged, PublishVectors
  <1>12. CASE SweepDocuments(w) \/ DeletePrevious(w) \/ Finish(w) \/ NotApplied(w)
    BY <1>a, <1>1, <1>2, <1>12 DEF SweepDocuments, DeletePrevious, Finish, NotApplied
  <1>13. CASE SweepChunks(w)
    <2>1. CASE AfterSweep(w)
      <3>1. sweep[w] \in Sweeps
        BY <1>w DEF TypeOK, LocalTypeOK
      <3> QED
        BY <1>a, <1>1, <1>4, <2>1, <3>1 DEF AfterSweep, AfterPublish, Sweeps
    <2> QED
      BY <1>2, <1>13, <2>1 DEF SweepChunks
  <1>14. CASE DeleteOwn(w)
    <2>1. reason[w] \in Kind /\ pc[w] # "idle"
      BY <1>14, <1>w DEF DeleteOwn, TypeOK, LocalTypeOK
    <2> QED
      BY <1>a, <1>1, <1>2, <1>3, <1>14, <2>1 DEF DeleteOwn
  <1>15. CASE MarkFailed(w) \/ Again(w)
    BY <1>a, <1>1, <1>15 DEF MarkFailed, Again
  <1> QED
    BY <1>5, <1>6, <1>7, <1>8, <1>9, <1>10, <1>11, <1>12, <1>13, <1>14, <1>15
       DEF WorkerStep

\* The one worker's step: what has been checked is still true at the replacement.
LEMMA WorkerKeepsChecked ==
    ASSUME Serial, IType, Checked, NEW w \in Workers, WorkerStep(w)
    PROVE  /\ Checked'
           /\ \A r \in Revisions :
                documents[r].source # None => documents'[r].source = documents[r].source
  <1>1. \A v \in Workers : v = w
    BY DEF Serial
  <1>2. CASE StageCheck(w)
    <2>1. documents' = documents /\ job' = job
      BY <1>2 DEF StageCheck, stores
    <2>2. CASE ~Foreign(w)
      BY <1>1, <2>1, <2>2 DEF Checked, Foreign, Own
    <2>3. CASE Foreign(w) /\ Throw(w, "permanent")
      <3>1. pc'[w] # "stage_document"
        BY <2>3, ThrowTyped DEF Kind
      <3> QED
        BY <1>1, <2>1, <3>1 DEF Checked
    <2> QED
      BY <1>2, <2>1, <2>2, <2>3 DEF StageCheck
  <1>3. CASE StageDocument(w)
    <2>1. ~StageCheck(w)
      BY <1>3 DEF StageDocument, StageCheck
    <2>2. Checked'
      BY <1>1, <2>1, WorkerStaging DEF Checked
    <2>3. documents \in [Revisions -> Copy]
      BY DEF IType, TypeOK, StoreTypeOK
    <2>4. documents[Own(w)].source \in {None, job[w]}
      BY <1>3 DEF StageDocument, Checked
    <2>5. documents' = Written(documents, w, "staged")
      BY <1>3 DEF StageDocument
    <2> QED
      BY <2>2, <2>3, <2>4, <2>5 DEF Written
  <1>4. CASE ~StageCheck(w) /\ ~StageDocument(w)
    BY <1>1, <1>4, WorkerStaging, WorkerKeepsSources DEF Checked, SourcesKept
  <1> QED
    BY <1>2, <1>3, <1>4

\* With one worker process, a revision that is in the catalog keeps its source:
\* neither a redelivery nor a retry, a failure, a crash or a compensation puts
\* another content under its number.
THEOREM RevisionsKeepTheirSource ==
    ASSUME Serial
    PROVE  Spec => RevisionIsImmutable
  <1> DEFINE Kept == \A r \in Revisions :
                documents[r].source # None => documents'[r].source = documents[r].source
  <1>1. Init => Checked
    BY DEF Init, Checked, Actors
  <1>2. IType /\ Checked /\ [Next]_vars => Checked' /\ [Kept]_vars
    <2> SUFFICES ASSUME IType, Checked, [Next]_vars
                 PROVE  Checked' /\ [Kept]_vars
      OBVIOUS
    <2>1. CASE UNCHANGED vars
      BY <2>1 DEF vars, stores, locals, Checked, Own
    <2>2. ASSUME NEW k \in Clients, NEW j \in Jobs, Submit(k, j) \/ Retry(k, j)
          PROVE  Checked' /\ Kept
      BY <2>2, ClientKeepsChecked DEF Actors, SourcesKept
    <2>3. ASSUME NEW a \in Actors, (a \in Clients /\ ClientStep(a)) \/ Lose(a)
          PROVE  Checked' /\ Kept
      <3>1. pc[a] # "idle"
        BY <2>3 DEF ClientStep, SaveReplay, RequeueRead, RequeueWrite, EnqueueRead,
                    Enqueue, MarkUnqueued, Lose
      <3>2. job[a] \in Jobs
        BY <3>1 DEF IType, Busy
      <3> QED
        BY <2>3, <3>2, ClientKeepsChecked DEF SourcesKept
    <2>4. ASSUME NEW w \in Workers, WorkerStep(w)
          PROVE  Checked' /\ Kept
      BY <2>4, WorkerKeepsChecked
    <2>5. Clients \subseteq Actors
      BY DEF Actors
    <2> QED
      BY <2>1, <2>2, <2>3, <2>4, <2>5 DEF Next
  <1> HIDE DEF Kept
  <1>3. [Kept]_vars => [\A r \in Revisions : documents[r].source # None =>
            documents'[r].source = documents[r].source]_vars
    BY DEF Kept
  <1> QED
    BY <1>1, <1>2, <1>3, TypeInit, TypeStep, PTL DEF Spec, RevisionIsImmutable

-----------------------------------------------------------------------------
(* One worker process: a failed run serves nothing, and a revision is retired *)
(* by a successor that is served                                             *)

\* Calls a worker makes outside the runs of jobs.
Resting == {"idle", "task_read", "requeue_read", "requeue_write", "process_read", "again"}

\* The worker is in a run, from its first stage to the mark of a failure.
InRun(w) == pc[w] \notin Resting

\* The two calls of a lifecycle sweep.
AtSweep == {"sweep_documents", "sweep_chunks"}

\* The run has written its records and has yet to publish all of them.
Publishing(w) ==
    \/ pc[w] \in {"stage_vectors", "mark_staged", "publish_vectors"}
    \/ pc[w] \in AtSweep /\ sweep[w] = "publish"

\* A job that is run has not failed in a worker since, and can be replayed.
KnowsJob(w) ==
    /\ InRun(w) /\ status[job[w]] = "failed" => error[job[w]] = "queue"
    /\ InRun(w) /\ pc[w] # "mark_failed" => replay[job[w]]

\* The catalogs hold what the run has written, until it is published or breaks off.
IsStaged(w) ==
    /\ pc[w] = "stage_document" => documents[Own(w)].source \in {None, job[w]}
    /\ pc[w] \in {"stage_chunks", "write_chunks"} \/ Publishing(w) =>
         documents[Own(w)].source = job[w]
    /\ Publishing(w) => chunks[Own(w)].source = job[w]

\* Records are published before the rows, and the rows before the previous revision
\* is retired.
IsPublished(w) ==
    /\ pc[w] = "sweep_chunks" /\ sweep[w] = "publish" => documents[Own(w)].lifecycle = "published"
    /\ pc[w] = "publish_vectors" =>
         documents[Own(w)].lifecycle = "published" /\ chunks[Own(w)].lifecycle = "published"
    /\ pc[w] = "sweep_documents" /\ sweep[w] = "supersede" => Serves(Own(w))

\* The rows of the job have no chunk records.
Cleared(j) == vectors[RevisionOf[j]].source = j => chunks[RevisionOf[j]] = Absent

\* A compensation that deletes no rows has found no chunk records, and one that has
\* returned has left none that go with the job's rows.
IsCleared(w) ==
    /\ pc[w] \in {"sweep_chunks", "delete_own"} /\ sweep[w] = "quarantine" /\ ~found[w] =>
         chunks[Own(w)] = Absent
    /\ pc[w] = "mark_failed" /\ job[w] \notin spoilt => Cleared(job[w])

\* What the call a worker makes next tells of the stores.
AtCall(w) == IsStaged(w) /\ IsPublished(w) /\ IsCleared(w)

\* Rows come from the source of the catalog's record, and from a job with a payload.
StoresAgree ==
    \A r \in Revisions :
        /\ vectors[r].source \in {None, documents[r].source}
        /\ vectors[r].source # None => replay[vectors[r].source]

\* The job has failed in a worker, and its compensation has not raised.
FailedInRun(j) == status[j] = "failed" /\ error[j] # "queue" /\ j \notin spoilt

\* The inductive invariant behind the two theorems.  That a failed job is not
\* served says nothing of the rows it has left, so the invariant follows the
\* records and the rows through every call of the run that may break off.
RunsInv ==
    /\ StoresAgree
    /\ \A w \in Workers : KnowsJob(w) /\ AtCall(w)
    /\ \A j \in Jobs : FailedInRun(j) => Cleared(j)

\* No run has begun.
LEMMA RunsStart == Init => RunsInv
  <1> SUFFICES ASSUME Init PROVE RunsInv
    OBVIOUS
  <1>1. \A w \in Workers : pc[w] = "idle"
    BY DEF Init, Actors
  <1>2. StoresAgree
    BY DEF Init, StoresAgree, Absent
  <1>3. \A w \in Workers : KnowsJob(w) /\ AtCall(w)
    BY <1>1 DEF KnowsJob, AtCall, IsStaged, IsPublished, IsCleared, InRun, Resting,
                Publishing, AtSweep
  <1>4. \A j \in Jobs : ~FailedInRun(j)
    BY DEF Init, FailedInRun
  <1> QED
    BY <1>2, <1>3, <1>4 DEF RunsInv

\* A step out of the runs.
\* A step that leaves the stores alone, and the workers in runs, keeps the invariant.
LEMMA ElsewhereRuns ==
    ASSUME IType, RunsInv, UNCHANGED <<stores, spoilt>>,
           \A j \in Jobs : replay[j] => replay'[j],
           \A j \in Jobs : status'[j] = "failed" =>
               error'[j] = "queue" \/ (status[j] = "failed" /\ error'[j] = error[j]),
           \A w \in Workers :
               \/ pc'[w] \in Resting
               \/ pc'[w] = pc[w] /\ job'[w] = job[w] /\ sweep'[w] = sweep[w] /\ found'[w] = found[w]
    PROVE  RunsInv'
  <1>1. UNCHANGED <<documents, chunks, vectors>>
    BY DEF stores
  <1>2. StoresAgree'
    <2> SUFFICES ASSUME NEW r \in Revisions, vectors[r].source # None
                 PROVE  replay'[vectors[r].source]
      BY <1>1 DEF RunsInv, StoresAgree
    <2>1. vectors[r].source \in Jobs
      BY DEF IType, TypeOK, StoreTypeOK, Copy
    <2> QED
      BY <2>1 DEF RunsInv, StoresAgree
  <1>3. \A j \in Jobs : FailedInRun(j)' => Cleared(j)'
    BY <1>1 DEF RunsInv, FailedInRun, Cleared
  <1>4. ASSUME NEW w \in Workers PROVE KnowsJob(w)' /\ AtCall(w)'
    <2>1. CASE pc'[w] \in Resting
      BY <2>1
         DEF KnowsJob, AtCall, IsStaged, IsPublished, IsCleared, InRun, Resting, Publishing, AtSweep
    <2>2. CASE /\ pc'[w] = pc[w] /\ job'[w] = job[w] /\ sweep'[w] = sweep[w] /\ found'[w] = found[w]
               /\ pc'[w] \notin Resting
      <3>1. job[w] \in Jobs /\ KnowsJob(w) /\ AtCall(w)
        BY <2>2 DEF IType, Busy, Actors, Resting, RunsInv
      <3>2. AtCall(w)'
        BY <1>1, <2>2, <3>1
           DEF AtCall, IsStaged, IsPublished, IsCleared, Publishing, Own, Serves, Cleared
      <3>3. KnowsJob(w)'
        BY <2>2, <3>1 DEF KnowsJob, InRun
      <3> QED
        BY <3>2, <3>3
    <2> QED
      BY <2>1, <2>2
  <1> QED
    BY <1>2, <1>3, <1>4 DEF RunsInv

\* A step of the one worker in a run.
\* A step of the one worker in a run keeps the invariant when its job does not fail
\* and the other jobs' rows stay cleared.
LEMMA RunKeeps ==
    ASSUME Serial, IType, RunsInv, NEW w \in Workers, InRun(w), pc[w] # "mark_failed",
           UNCHANGED <<error, replay, job>>,
           UNCHANGED status \/ (\E s \in Status \ {"failed"} : SetStatus(job[w], s)),
           AtCall(w)', StoresAgree',
           \A j \in Jobs : j # job[w] => (Cleared(j) => Cleared(j)'),
           \A j \in Jobs : j # job[w] => (j \in spoilt <=> j \in spoilt')
    PROVE  RunsInv'
  <1>1. job[w] \in Jobs /\ KnowsJob(w)
    BY DEF IType, Busy, Actors, InRun, Resting, RunsInv
  <1>2. /\ \A j \in Jobs : j # job[w] => status'[j] = status[j]
        /\ status'[job[w]] = status[job[w]] \/ status'[job[w]] # "failed"
    BY <1>1 DEF SetStatus, IType, TypeOK, JobTypeOK
  <1>3. KnowsJob(w)'
    BY <1>1, <1>2 DEF KnowsJob
  <1>4. ASSUME NEW j \in Jobs, FailedInRun(j)' PROVE Cleared(j)'
    <2>1. CASE j = job[w]
      BY <1>1, <1>2, <1>4, <2>1 DEF KnowsJob, FailedInRun
    <2>2. CASE j # job[w]
      BY <1>2, <1>4, <2>2 DEF FailedInRun, RunsInv
    <2> QED
      BY <2>1, <2>2
  <1>5. \A v \in Workers : v = w
    BY DEF Serial
  <1> QED
    BY <1>3, <1>4, <1>5 DEF RunsInv

\* The run breaks off, and is compensated or fails.
\* A run that breaks off begins a sweep of which nothing is told yet, or marks its
\* job with the compensation spoilt.
LEMMA BreakingOff ==
    ASSUME IType, NEW w \in Workers, pc[w] # "idle", UNCHANGED job,
           Fails(w) \/ ((\E k \in Kind : Throw(w, k)) /\ UNCHANGED spoilt)
    PROVE  AtCall(w)' /\ \A j \in Jobs : j # job[w] => (j \in spoilt <=> j \in spoilt')
  <1>1. CASE Goto(w, "mark_failed") /\ spoilt' = spoilt \cup {job[w]}
    <2>1. pc'[w] = "mark_failed" /\ job'[w] \in spoilt'
      BY <1>1, GotoTyped DEF IType, Actors, WorkerPC
    <2> QED
      BY <1>1, <2>1 DEF AtCall, IsStaged, IsPublished, IsCleared, Publishing, AtSweep
  <1>2. CASE (\E k \in Kind : Throw(w, k)) /\ UNCHANGED spoilt
    <2>1. pc'[w] = "sweep_documents" /\ sweep'[w] \in {"restore", "quarantine"}
      BY <1>2, ThrowTyped DEF Throw, Sweeping, IType, TypeOK, LocalTypeOK
    <2> QED
      BY <1>2, <2>1 DEF AtCall, IsStaged, IsPublished, IsCleared, Publishing, AtSweep
  <1> QED
    BY <1>1, <1>2 DEF Fails

\* What a step in the run of w does to the stores tells nothing wrong of other jobs.
Agreeing(w) == StoresAgree' /\ \A j \in Jobs : j # job[w] => (Cleared(j) => Cleared(j)')

\* The invariant at the worker's call.
LEMMA RunKnows ==
    ASSUME IType, RunsInv, NEW w \in Workers, InRun(w)
    PROVE  /\ pc[w] # "idle" /\ job[w] \in Jobs /\ Own(w) \in Revisions /\ job[w] # None
           /\ KnowsJob(w) /\ IsStaged(w) /\ IsPublished(w) /\ IsCleared(w) /\ w \in Actors
           /\ documents \in [Revisions -> Copy] /\ chunks \in [Revisions -> Copy]
           /\ vectors \in [Revisions -> Copy]
  <1>1. pc[w] # "idle" /\ job[w] \in Jobs /\ w \in Actors
    BY DEF IType, Busy, Actors, InRun, Resting
  <1>2. Own(w) \in Revisions /\ job[w] # None
    BY <1>1, JobsAssumption DEF Own
  <1> QED
    BY <1>1, <1>2 DEF RunsInv, AtCall, IType, TypeOK, StoreTypeOK

\* A call that leaves the stores alone.
LEMMA StoresStay ==
    ASSUME RunsInv, NEW w, UNCHANGED <<documents, chunks, vectors, replay>>
    PROVE  Agreeing(w)
  BY DEF Agreeing, RunsInv, StoresAgree, Cleared

\* A document record is marked, or replaced by one of the same source.
LEMMA DocumentsAgree ==
    ASSUME IType, RunsInv, NEW w \in Workers, InRun(w), UNCHANGED <<chunks, vectors, replay>>,
           NEW l,
           \/ \E r : documents' = Marked(documents, r, l)
           \/ documents' = Written(documents, w, l) /\ documents[Own(w)].source \in {None, job[w]}
    PROVE  Agreeing(w)
  <1>1. \A j : Cleared(j)' <=> Cleared(j)
    BY DEF Cleared
  <1>2. CASE \E r : documents' = Marked(documents, r, l)
    <2>1. \A r \in Revisions : documents'[r].source = documents[r].source
      BY <1>2, MarkedKeepsSource, RunKnows DEF SourcesKept
    <2> QED
      BY <1>1, <2>1 DEF Agreeing, RunsInv, StoresAgree
  <1>3. CASE documents' = Written(documents, w, l) /\ documents[Own(w)].source \in {None, job[w]}
    <2>1. /\ \A r \in Revisions : r # Own(w) => documents'[r] = documents[r]
          /\ documents'[Own(w)].source = job[w]
      BY <1>3, RunKnows DEF Written
    <2> QED
      BY <1>1, <1>3, <2>1, RunKnows DEF Agreeing, RunsInv, StoresAgree
  <1> QED
    BY <1>2, <1>3

\* Chunk records are marked or deleted, or written beside the job's own document.
LEMMA ChunksAgree ==
    ASSUME IType, RunsInv, NEW w \in Workers, InRun(w), UNCHANGED <<documents, vectors, replay>>,
           NEW l,
           \/ \E r : chunks' = Marked(chunks, r, l) \/ chunks' = Deleted(chunks, r)
           \/ chunks' = Written(chunks, w, l) /\ documents[Own(w)].source = job[w]
    PROVE  Agreeing(w)
  <1>1. StoresAgree'
    BY DEF RunsInv, StoresAgree
  <1>2. ASSUME NEW j \in Jobs, j # job[w], Cleared(j), vectors[RevisionOf[j]].source = j
        PROVE  chunks'[RevisionOf[j]] = Absent
    <2>1. RevisionOf[j] \in Revisions /\ chunks[RevisionOf[j]] = Absent /\ j # None
      BY <1>2, JobsAssumption DEF Cleared
    <2>2. CASE \E r : chunks' = Marked(chunks, r, l) \/ chunks' = Deleted(chunks, r)
      BY <2>1, <2>2, RunKnows DEF Marked, Deleted
    <2>3. CASE chunks' = Written(chunks, w, l) /\ documents[Own(w)].source = job[w]
      <3>1. RevisionOf[j] # Own(w)
        BY <1>2, <2>1, <2>3 DEF RunsInv, StoresAgree
      <3> QED
        BY <2>1, <2>3, <3>1, RunKnows DEF Written
    <2> QED
      BY <2>2, <2>3
  <1> QED
    BY <1>1, <1>2 DEF Agreeing, Cleared

\* Rows are deleted, or written beside the job's own document.
LEMMA VectorsAgree ==
    ASSUME IType, RunsInv, NEW w \in Workers, InRun(w), pc[w] # "mark_failed",
           UNCHANGED <<documents, chunks, replay>>, NEW l,
           \/ \E r : DeleteRows(w, r)
           \/ vectors' = Written(vectors, w, l) /\ documents[Own(w)].source = job[w]
    PROVE  Agreeing(w)
  <1>1. replay[job[w]]
    BY RunKnows DEF KnowsJob
  <1>2. \A r \in Revisions : \/ vectors'[r] = vectors[r] \/ vectors'[r].source = None
                             \/ vectors'[r].source = job[w] /\ documents[r].source = job[w]
    <2>1. CASE \E r : DeleteRows(w, r)
      BY <2>1, RunKnows DEF DeleteRows, Deleted, Absent
    <2>2. CASE vectors' = Written(vectors, w, l) /\ documents[Own(w)].source = job[w]
      BY <2>2, RunKnows DEF Written
    <2> QED
      BY <2>1, <2>2
  <1>3. StoresAgree'
    BY <1>1, <1>2 DEF RunsInv, StoresAgree
  <1>4. ASSUME NEW j \in Jobs, j # job[w], Cleared(j) PROVE Cleared(j)'
    <2>1. RevisionOf[j] \in Revisions /\ j # None
      BY JobsAssumption
    <2> QED
      BY <1>2, <1>4, <2>1 DEF Cleared
  <1> QED
    BY <1>3, <1>4 DEF Agreeing

\* Where a step of a run goes on to.
LEMMA GoingOn ==
    ASSUME IType, NEW w \in Workers
    PROVE  /\ \A label \in WorkerPC : Proceed(w, label) =>
                  pc'[w] = label /\ sweep'[w] = sweep[w] /\ UNCHANGED <<sweep, spoilt>>
           /\ \A label \in WorkerPC : Goto(w, label) => pc'[w] = label
           /\ \A s : Sweeping(w, s) => pc'[w] = "sweep_documents" /\ sweep'[w] = s
  <1>1. \A label \in WorkerPC : Goto(w, label) => pc'[w] = label
    BY GotoTyped DEF IType, Actors
  <1>2. "sweep_documents" \in WorkerPC
    BY DEF WorkerPC
  <1>3. \A s : Sweeping(w, s) => sweep'[w] = s
    BY DEF Sweeping, IType, TypeOK, LocalTypeOK
  <1> QED
    BY <1>1, <1>2, <1>3 DEF Proceed, Sweeping

\* Labels of which nothing is told.
LEMMA Elsewhere ==
    ASSUME NEW w, pc'[w] \notin AtSweep \cup {"stage_document", "stage_chunks", "write_chunks",
                "stage_vectors", "mark_staged", "publish_vectors", "delete_own", "mark_failed"}
    PROVE  AtCall(w)'
  BY DEF AtCall, IsStaged, IsPublished, IsCleared, Publishing, AtSweep

\* The two together: a step of a run that goes on as AtCall says or breaks off.
LEMMA RunGoesOn ==
    ASSUME Serial, IType, RunsInv, NEW w \in Workers, InRun(w), pc[w] # "mark_failed",
           UNCHANGED <<error, replay, job>>,
           UNCHANGED status \/ (\E s \in Status \ {"failed"} : SetStatus(job[w], s)),
           Agreeing(w),
           \/ AtCall(w)' /\ UNCHANGED spoilt
           \/ AtCall(w)' /\ spoilt' = spoilt \ {job[w]}
           \/ Fails(w)
           \/ (\E k \in Kind : Throw(w, k)) /\ UNCHANGED spoilt
    PROVE  RunsInv'
  <1>1. StoresAgree' /\ \A j \in Jobs : j # job[w] => (Cleared(j) => Cleared(j)')
    BY DEF Agreeing
  <1>2. AtCall(w)' /\ \A j \in Jobs : j # job[w] => (j \in spoilt <=> j \in spoilt')
    BY RunKnows, BreakingOff
  <1> QED
    BY <1>1, <1>2, RunKeeps

\* A job is run only with a payload; without one it has no rows, and fails.
LEMMA ProcessReadRuns ==
    ASSUME Serial, IType, RunsInv, NEW w \in Workers, ProcessRead(w)
    PROVE  RunsInv'
  <1>1. /\ UNCHANGED <<status, error, replay, documents, chunks, vectors, job, sweep,
                      found, spoilt>>
        /\ UNCHANGED stores
        /\ pc[w] = "process_read"
        /\ \A v \in Workers : v = w
    BY DEF ProcessRead, jobVars, stores, Serial
  <1>2. CASE pc'[w] \in Resting
    BY <1>1, <1>2, ElsewhereRuns
  <1>3. CASE pc'[w] \notin Resting
    <2>1. /\ status[job[w]] = "queued"
          /\ \/ replay[job[w]] /\ pc'[w] = "validating"
             \/ ~replay[job[w]] /\ pc'[w] = "mark_failed"
      BY <1>3, GotoTyped DEF ProcessRead, IType, Actors, WorkerPC, Pipeline, Resting
    <2>2. KnowsJob(w)'
      BY <1>1, <2>1 DEF KnowsJob
    <2>3. job[w] \in Jobs /\ RevisionOf[job[w]] \in Revisions /\ job[w] # None
      BY <1>1, JobsAssumption DEF IType, Busy, Actors
    <2>4. ~replay[job[w]] => Cleared(job[w])
      BY <2>3 DEF RunsInv, StoresAgree, Cleared
    <2>5. AtCall(w)'
      BY <1>1, <2>1, <2>4
         DEF AtCall, IsStaged, IsPublished, IsCleared, Publishing, AtSweep, Cleared
    <2>6. StoresAgree' /\ \A j \in Jobs : FailedInRun(j)' => Cleared(j)'
      BY <1>1 DEF RunsInv, StoresAgree, FailedInRun, Cleared
    <2> QED
      BY <1>1, <2>2, <2>5, <2>6 DEF RunsInv
  <1> QED
    BY <1>2, <1>3

\* The stages of the pipeline, a source that is rejected, a call that is not applied.
LEMMA StagesRun ==
    ASSUME Serial, IType, RunsInv, NEW w \in Workers,
           Advance(w) \/ RejectSource(w) \/ NotApplied(w) \/ StageCheck(w)
    PROVE  RunsInv'
  <1>1. /\ InRun(w) /\ pc[w] # "mark_failed"
        /\ UNCHANGED <<error, replay, job, documents, chunks, vectors>>
    BY DEF Advance, RejectSource, NotApplied, StageCheck, InRun, Resting, Pipeline, WorkerPC,
           jobVars, stores
  <1>2. Agreeing(w)
    BY <1>1, StoresStay
  <1>3. UNCHANGED status \/ \E s \in Status \ {"failed"} : SetStatus(job[w], s)
    BY DEF Advance, RejectSource, NotApplied, StageCheck, jobVars, Pipeline, Status
  <1>4. \/ AtCall(w)' /\ UNCHANGED spoilt
        \/ Fails(w)
        \/ (\E k \in Kind : Throw(w, k)) /\ UNCHANGED spoilt
    <2>1. CASE Advance(w)
      <3> SUFFICES ASSUME Proceed(w, NextStage[pc[w]]) PROVE AtCall(w)' /\ UNCHANGED spoilt
        BY <2>1 DEF Advance
      <3>1. NextStage[pc[w]] \in {"parsing", "quality_check", "embedding", "stage_check"}
        BY <2>1 DEF Advance, NextStage, Pipeline
      <3>2. pc'[w] = NextStage[pc[w]] /\ UNCHANGED spoilt
        BY <3>1, GoingOn DEF WorkerPC, Pipeline
      <3> QED
        BY <3>1, <3>2, Elsewhere DEF AtSweep
    <2>2. CASE RejectSource(w) \/ NotApplied(w)
      BY <2>2 DEF RejectSource, NotApplied
    <2>3. CASE StageCheck(w)
      <3>1. CASE Foreign(w)
        BY <2>3, <3>1 DEF StageCheck, Kind
      <3>2. CASE ~Foreign(w) /\ Proceed(w, "stage_document")
        <4>1. pc'[w] = "stage_document" /\ UNCHANGED spoilt
          BY <3>2, GoingOn DEF WorkerPC
        <4> QED
          BY <1>1, <3>2, <4>1
             DEF Foreign, AtCall, IsStaged, IsPublished, IsCleared, Publishing, AtSweep, Own
      <3> QED
        BY <2>3, <3>1, <3>2 DEF StageCheck
    <2> QED
      BY <2>1, <2>2, <2>3
  <1> QED
    BY <1>1, <1>2, <1>3, <1>4, RunGoesOn

\* The record is replaced once its source is known to be the job's.
LEMMA StageDocumentRuns ==
    ASSUME Serial, IType, RunsInv, NEW w \in Workers, StageDocument(w)
    PROVE  RunsInv'
  <1>1. /\ InRun(w) /\ pc[w] # "mark_failed" /\ pc[w] = "stage_document"
        /\ UNCHANGED <<status, error, replay, job, chunks, vectors>>
        /\ documents' = Written(documents, w, "staged")
    BY DEF StageDocument, InRun, Resting, jobVars
  <1>2. documents[Own(w)].source \in {None, job[w]}
    BY <1>1, RunKnows DEF IsStaged
  <1>3. Agreeing(w)
    BY <1>1, <1>2, DocumentsAgree
  <1>4. ASSUME Proceed(w, "stage_chunks") PROVE AtCall(w)' /\ UNCHANGED spoilt
    <2>1. pc'[w] = "stage_chunks" /\ UNCHANGED spoilt
      BY <1>4, GoingOn DEF WorkerPC
    <2>2. documents'[Own(w)].source = job[w]
      BY <1>1, RunKnows DEF Written
    <2> QED
      BY <1>1, <2>1, <2>2
         DEF AtCall, IsStaged, IsPublished, IsCleared, Publishing, AtSweep, Own
  <1> QED
    BY <1>1, <1>3, <1>4, RunGoesOn DEF StageDocument

\* Chunk records are deleted and written anew.
LEMMA StageChunksRuns ==
    ASSUME Serial, IType, RunsInv, NEW w \in Workers, StageChunks(w)
    PROVE  RunsInv'
  <1>1. /\ InRun(w) /\ pc[w] # "mark_failed" /\ pc[w] \in {"stage_chunks", "write_chunks"}
        /\ UNCHANGED <<status, error, replay, job, documents, vectors>>
    BY DEF StageChunks, InRun, Resting, jobVars
  <1>2. documents[Own(w)].source = job[w]
    BY <1>1, RunKnows DEF IsStaged
  <1>3. Agreeing(w)
    BY <1>1, <1>2, ChunksAgree DEF StageChunks
  <1>4. ASSUME chunks' = Deleted(chunks, Own(w)), Proceed(w, "write_chunks")
        PROVE  AtCall(w)' /\ UNCHANGED spoilt
    <2>1. pc'[w] = "write_chunks" /\ UNCHANGED spoilt
      BY <1>4, GoingOn DEF WorkerPC
    <2> QED
      BY <1>1, <1>2, <2>1
         DEF AtCall, IsStaged, IsPublished, IsCleared, Publishing, AtSweep, Own
  <1>5. ASSUME chunks' = Written(chunks, w, "staged"), Proceed(w, "stage_vectors")
        PROVE  AtCall(w)' /\ UNCHANGED spoilt
    <2>1. pc'[w] = "stage_vectors" /\ UNCHANGED spoilt
      BY <1>5, GoingOn DEF WorkerPC
    <2>2. chunks'[Own(w)].source = job[w]
      BY <1>1, <1>5, RunKnows DEF Written
    <2> QED
      BY <1>1, <1>2, <2>1, <2>2
         DEF AtCall, IsStaged, IsPublished, IsCleared, Publishing, AtSweep, Own
  <1>6. \/ AtCall(w)' /\ UNCHANGED spoilt
        \/ Fails(w)
    BY <1>4, <1>5 DEF StageChunks
  <1> QED
    BY <1>1, <1>3, <1>6, RunGoesOn

\* Rows are staged.
LEMMA StageVectorsRuns ==
    ASSUME Serial, IType, RunsInv, NEW w \in Workers, StageVectors(w)
    PROVE  RunsInv'
  <1>1. /\ InRun(w) /\ pc[w] # "mark_failed" /\ pc[w] = "stage_vectors"
        /\ UNCHANGED <<status, error, replay, job, documents, chunks>>
        /\ vectors' = Written(vectors, w, "staged")
    BY DEF StageVectors, InRun, Resting, jobVars
  <1>2. documents[Own(w)].source = job[w] /\ chunks[Own(w)].source = job[w]
    BY <1>1, RunKnows DEF IsStaged, Publishing
  <1>3. Agreeing(w)
    BY <1>1, <1>2, VectorsAgree
  <1>4. ASSUME Proceed(w, "mark_staged") PROVE AtCall(w)' /\ UNCHANGED spoilt
    <2>1. pc'[w] = "mark_staged" /\ UNCHANGED spoilt
      BY <1>4, GoingOn DEF WorkerPC
    <2> QED
      BY <1>1, <1>2, <2>1
         DEF AtCall, IsStaged, IsPublished, IsCleared, Publishing, AtSweep, Own
  <1> QED
    BY <1>1, <1>3, <1>4, RunGoesOn DEF StageVectors

\* The run goes on to publish, or to finalize an inactive revision.
LEMMA MarkStagedRuns ==
    ASSUME Serial, IType, RunsInv, NEW w \in Workers, MarkStaged(w)
    PROVE  RunsInv'
  <1>1. /\ InRun(w) /\ pc[w] # "mark_failed" /\ pc[w] = "mark_staged"
        /\ UNCHANGED <<error, replay, job, documents, chunks, vectors>>
    BY DEF MarkStaged, InRun, Resting, jobVars, stores
  <1>2. documents[Own(w)].source = job[w] /\ chunks[Own(w)].source = job[w]
    BY <1>1, RunKnows DEF IsStaged, Publishing
  <1>3. Agreeing(w)
    BY <1>1, StoresStay
  <1>4. \E s \in Status \ {"failed"} : SetStatus(job[w], s)
    BY DEF MarkStaged, Status
  <1>5. ASSUME NEW s \in {"publish", "finalize"}, Sweeping(w, s) PROVE AtCall(w)'
    <2>1. pc'[w] = "sweep_documents" /\ sweep'[w] = s
      BY <1>5, GoingOn
    <2> QED
      BY <1>1, <1>2, <2>1
         DEF AtCall, IsStaged, IsPublished, IsCleared, Publishing, AtSweep, Own
  <1>6. \/ AtCall(w)' /\ UNCHANGED spoilt
        \/ Fails(w)
    BY <1>5 DEF MarkStaged
  <1> QED
    BY <1>1, <1>3, <1>4, <1>6, RunGoesOn

\* A sweep notes whether there are chunk records and marks the document.
LEMMA SweepDocumentsRuns ==
    ASSUME Serial, IType, RunsInv, NEW w \in Workers, SweepDocuments(w)
    PROVE  RunsInv'
  <1>1. /\ InRun(w) /\ pc[w] # "mark_failed" /\ pc[w] = "sweep_documents"
        /\ UNCHANGED <<status, error, replay, job, chunks, vectors>>
        /\ documents' = Marked(documents, Subject(w), SweepTo(w))
        /\ found' = [found EXCEPT ![w] = chunks[Subject(w)] # Absent]
    BY DEF SweepDocuments, InRun, Resting, jobVars
  <1>2. Agreeing(w)
    BY <1>1, DocumentsAgree
  <1>3. ASSUME Proceed(w, "sweep_chunks") PROVE AtCall(w)' /\ UNCHANGED spoilt
    <2>1. pc'[w] = "sweep_chunks" /\ sweep'[w] = sweep[w] /\ UNCHANGED spoilt
      BY <1>3, GoingOn DEF WorkerPC
    <2>2. CASE sweep[w] = "publish"
      <3>1. documents[Own(w)].source = job[w] /\ chunks[Own(w)].source = job[w]
        BY <1>1, <2>2, RunKnows DEF IsStaged, Publishing, AtSweep
      <3>2. documents' = Marked(documents, Own(w), "published")
        <4>1. Subject(w) = Own(w) /\ SweepTo(w) = "published"
          BY <2>2 DEF Subject, SweepTo
        <4> QED
          BY <1>1, <4>1
      <3>3. documents'[Own(w)].source = job[w] /\ documents'[Own(w)].lifecycle = "published"
        BY <1>1, <3>1, <3>2, RunKnows DEF Marked, Absent
      <3> QED
        BY <1>1, <2>1, <2>2, <3>1, <3>3
           DEF AtCall, IsStaged, IsPublished, IsCleared, Publishing, AtSweep, Own
    <2>3. CASE sweep[w] = "quarantine"
      <3>1. found'[w] = (chunks[Own(w)] # Absent)
        BY <1>1, <2>3 DEF Subject, IType, TypeOK, LocalTypeOK
      <3> QED
        BY <1>1, <2>1, <2>3, <3>1
           DEF AtCall, IsStaged, IsPublished, IsCleared, Publishing, AtSweep, Own
    <2>4. CASE sweep[w] \notin {"publish", "quarantine"}
      BY <2>1, <2>4 DEF AtCall, IsStaged, IsPublished, IsCleared, Publishing, AtSweep
    <2> QED
      BY <2>2, <2>3, <2>4
  <1>4. \/ AtCall(w)' /\ UNCHANGED spoilt
        \/ Fails(w)
    BY <1>3 DEF SweepDocuments
  <1> QED
    BY <1>1, <1>2, <1>4, RunGoesOn

\* The sweep marks the chunk records, and what follows it begins.
LEMMA SweepChunksRuns ==
    ASSUME Serial, IType, RunsInv, NEW w \in Workers, SweepChunks(w)
    PROVE  RunsInv'
  <1>1. /\ InRun(w) /\ pc[w] # "mark_failed" /\ pc[w] = "sweep_chunks"
        /\ UNCHANGED <<status, error, replay, job, documents, vectors, found>>
        /\ chunks' = Marked(chunks, Subject(w), SweepTo(w))
    BY DEF SweepChunks, InRun, Resting, jobVars
  <1>2. Agreeing(w)
    BY <1>1, ChunksAgree
  <1>3. ASSUME AfterSweep(w) PROVE AtCall(w)'
    <2>1. CASE sweep[w] = "publish"
      <3>1. /\ documents[Own(w)].source = job[w] /\ chunks[Own(w)].source = job[w]
            /\ documents[Own(w)].lifecycle = "published"
        BY <1>1, <2>1, RunKnows DEF IsStaged, IsPublished, Publishing, AtSweep
      <3>2. chunks' = Marked(chunks, Own(w), "published")
        <4>1. Subject(w) = Own(w) /\ SweepTo(w) = "published"
          BY <2>1 DEF Subject, SweepTo
        <4> QED
          BY <1>1, <4>1
      <3>3. chunks'[Own(w)].source = job[w] /\ chunks'[Own(w)].lifecycle = "published"
        BY <1>1, <3>1, <3>2, RunKnows DEF Marked, Absent
      <3>4. AfterPublish(w)
        BY <1>3, <2>1 DEF AfterSweep
      <3>5. pc'[w] = "publish_vectors"
        BY <3>4, GoingOn DEF WorkerPC, AfterPublish
      <3> QED
        BY <1>1, <3>1, <3>3, <3>5
           DEF AtCall, IsStaged, IsPublished, IsCleared, Publishing, AtSweep, Own
    <2>2. CASE sweep[w] = "supersede"
      <3>1. pc'[w] = "delete_previous" /\ sweep'[w] = "supersede"
        BY <1>3, <2>2, GoingOn DEF AfterSweep, WorkerPC
      <3> QED
        BY <3>1, Elsewhere DEF AtSweep
    <2>3. CASE sweep[w] = "restore"
      <3>1. pc'[w] = "sweep_documents" /\ sweep'[w] = "quarantine"
        BY <1>3, <2>3, GoingOn DEF AfterSweep
      <3> QED
        BY <3>1 DEF AtCall, IsStaged, IsPublished, IsCleared, Publishing, AtSweep
    <2>4. CASE sweep[w] = "quarantine"
      <3>1. pc'[w] = "delete_own" /\ sweep'[w] = "quarantine"
        BY <1>3, <2>4, GoingOn DEF AfterSweep, WorkerPC
      <3>2. ~found[w] => chunks[Own(w)] = Absent
        BY <1>1, <2>4, RunKnows DEF IsCleared
      <3>3. ~found[w] => chunks'[Own(w)] = Absent
        BY <1>1, <3>2, RunKnows DEF Marked
      <3> QED
        BY <1>1, <3>1, <3>3
           DEF AtCall, IsStaged, IsPublished, IsCleared, Publishing, AtSweep, Own
    <2>5. CASE sweep[w] = "finalize"
      <3>1. pc'[w] = "delete_own" /\ sweep'[w] = "finalize"
        BY <1>3, <2>5, GoingOn DEF AfterSweep, WorkerPC
      <3> QED
        BY <3>1 DEF AtCall, IsStaged, IsPublished, IsCleared, Publishing, AtSweep
    <2>6. sweep[w] \in Sweeps
      BY DEF IType, TypeOK, LocalTypeOK
    <2> QED
      BY <2>1, <2>2, <2>3, <2>4, <2>5, <2>6 DEF Sweeps
  <1>4. \/ AtCall(w)' /\ UNCHANGED spoilt
        \/ Fails(w)
    BY <1>3 DEF SweepChunks
  <1> QED
    BY <1>1, <1>2, <1>4, RunGoesOn

\* The rows are published last, so the revision is served from here on.
LEMMA PublishVectorsRuns ==
    ASSUME Serial, IType, RunsInv, NEW w \in Workers, PublishVectors(w)
    PROVE  RunsInv'
  <1>1. /\ InRun(w) /\ pc[w] # "mark_failed" /\ pc[w] = "publish_vectors"
        /\ UNCHANGED <<status, error, replay, job, documents, chunks>>
        /\ vectors' = Written(vectors, w, "published")
    BY DEF PublishVectors, InRun, Resting, jobVars
  <1>2. /\ documents[Own(w)].source = job[w]
        /\ documents[Own(w)].lifecycle = "published" /\ chunks[Own(w)].lifecycle = "published"
    BY <1>1, RunKnows DEF IsStaged, IsPublished, Publishing
  <1>3. Agreeing(w)
    BY <1>1, <1>2, VectorsAgree
  <1>4. ASSUME Proceed(w, "finish") PROVE AtCall(w)' /\ UNCHANGED spoilt
    <2>1. pc'[w] = "finish" /\ UNCHANGED spoilt
      BY <1>4, GoingOn DEF WorkerPC
    <2> QED
      BY <2>1, Elsewhere DEF AtSweep
  <1>5. ASSUME Sweeping(w, "supersede") PROVE AtCall(w)'
    <2>1. pc'[w] = "sweep_documents" /\ sweep'[w] = "supersede"
      BY <1>5, GoingOn
    <2>2. vectors'[Own(w)].lifecycle = "published"
      BY <1>1, RunKnows DEF Written
    <2> QED
      BY <1>1, <1>2, <2>1, <2>2
         DEF AtCall, IsStaged, IsPublished, IsCleared, Publishing, AtSweep, Own, Serves
  <1>6. \/ AtCall(w)' /\ UNCHANGED spoilt
        \/ Fails(w)
    BY <1>4, <1>5 DEF PublishVectors
  <1> QED
    BY <1>1, <1>3, <1>6, RunGoesOn

\* The rows of the retired revision are deleted.
LEMMA DeletePreviousRuns ==
    ASSUME Serial, IType, RunsInv, NEW w \in Workers, DeletePrevious(w)
    PROVE  RunsInv'
  <1>1. /\ InRun(w) /\ pc[w] # "mark_failed"
        /\ UNCHANGED <<status, error, replay, job, documents, chunks>>
        /\ DeleteRows(w, Previous(w))
    BY DEF DeletePrevious, InRun, Resting, jobVars
  <1>2. Agreeing(w)
    BY <1>1, VectorsAgree
  <1>3. ASSUME Proceed(w, "finish") PROVE AtCall(w)' /\ UNCHANGED spoilt
    <2>1. pc'[w] = "finish" /\ UNCHANGED spoilt
      BY <1>3, GoingOn DEF WorkerPC
    <2> QED
      BY <2>1, Elsewhere DEF AtSweep
  <1> QED
    BY <1>1, <1>2, <1>3, RunGoesOn DEF DeletePrevious

\* The compensation ends: the rows are deleted, or there were no chunk records.
LEMMA DeleteOwnRuns ==
    ASSUME Serial, IType, RunsInv, NEW w \in Workers, DeleteOwn(w)
    PROVE  RunsInv'
  <1>1. /\ InRun(w) /\ pc[w] # "mark_failed" /\ pc[w] = "delete_own"
        /\ UNCHANGED <<status, error, replay, job, documents, chunks>>
        /\ DeleteRows(w, Own(w))
    BY DEF DeleteOwn, InRun, Resting, jobVars
  <1>2. Agreeing(w)
    BY <1>1, VectorsAgree
  <1>3. ASSUME Proceed(w, "finish") PROVE AtCall(w)' /\ UNCHANGED spoilt
    <2>1. pc'[w] = "finish" /\ UNCHANGED spoilt
      BY <1>3, GoingOn DEF WorkerPC
    <2> QED
      BY <2>1, Elsewhere DEF AtSweep
  <1>4. ASSUME Compensating(w), Goto(w, "mark_failed") PROVE AtCall(w)'
    <2>1. pc'[w] = "mark_failed"
      BY <1>4, GoingOn DEF WorkerPC
    <2>2. found[w] \/ chunks[Own(w)] = Absent
      BY <1>1, <1>4, RunKnows DEF IsCleared, Compensating
    <2>3. CASE found[w]
      <3>1. vectors'[Own(w)].source = None /\ job[w] # None
        BY <1>1, <2>3, RunKnows DEF DeleteRows, Deleted, Absent
      <3> QED
        BY <1>1, <2>1, <3>1
           DEF AtCall, IsStaged, IsPublished, IsCleared, Publishing, AtSweep, Cleared, Own
    <2>4. CASE chunks[Own(w)] = Absent
      BY <1>1, <2>1, <2>4
         DEF AtCall, IsStaged, IsPublished, IsCleared, Publishing, AtSweep, Cleared, Own
    <2> QED
      BY <2>2, <2>3, <2>4
  <1>5. reason[w] \in Kind
    BY DEF IType, TypeOK, LocalTypeOK
  <1>6. \/ AtCall(w)' /\ UNCHANGED spoilt
        \/ AtCall(w)' /\ spoilt' = spoilt \ {job[w]}
        \/ Fails(w)
        \/ (\E k \in Kind : Throw(w, k)) /\ UNCHANGED spoilt
    BY <1>3, <1>4, <1>5 DEF DeleteOwn
  <1> QED
    BY <1>1, <1>2, <1>6, RunGoesOn

\* The job takes its last status.
LEMMA FinishRuns ==
    ASSUME Serial, IType, RunsInv, NEW w \in Workers, Finish(w)
    PROVE  RunsInv'
  <1>1. /\ InRun(w) /\ pc[w] # "mark_failed"
        /\ UNCHANGED <<error, replay, job, documents, chunks, vectors>>
    BY DEF Finish, InRun, Resting, stores
  <1>2. Agreeing(w)
    BY <1>1, StoresStay
  <1>3. \E s \in Status \ {"failed"} : SetStatus(job[w], s)
    <2>1. Target[job[w]] \in {"staged", "published"}
      BY <1>1, RunKnows, JobsAssumption
    <2> QED
      BY <2>1 DEF Finish, Status, Final
  <1>4. ASSUME Proceed(w, "idle") PROVE AtCall(w)' /\ UNCHANGED spoilt
    <2>1. pc'[w] = "idle" /\ UNCHANGED spoilt
      BY <1>4, GoingOn DEF WorkerPC
    <2> QED
      BY <2>1, Elsewhere DEF AtSweep
  <1>5. \/ AtCall(w)' /\ UNCHANGED spoilt
        \/ Fails(w)
    BY <1>4 DEF Finish
  <1> QED
    BY <1>1, <1>2, <1>3, <1>5, RunGoesOn

\* A job is marked failed with its rows cleared, or its compensation spoilt.
LEMMA MarkFailedRuns ==
    ASSUME Serial, IType, RunsInv, NEW w \in Workers, MarkFailed(w)
    PROVE  RunsInv'
  <1>1. /\ InRun(w) /\ pc[w] = "mark_failed"
        /\ UNCHANGED <<replay, documents, chunks, vectors, job, spoilt>>
        /\ SetFailed(job[w], reason[w])
    BY DEF MarkFailed, InRun, Resting, stores, locals
  <1>2. pc'[w] \in {"again", "idle"}
    BY GoingOn DEF MarkFailed, WorkerPC
  <1>3. KnowsJob(w)' /\ AtCall(w)'
    BY <1>2, Elsewhere DEF KnowsJob, InRun, Resting, AtSweep
  <1>4. StoresAgree'
    BY <1>1 DEF RunsInv, StoresAgree
  <1>5. ASSUME NEW j \in Jobs, FailedInRun(j)' PROVE Cleared(j)'
    <2>1. CASE j = job[w]
      <3>1. Cleared(j)
        BY <1>1, <1>5, <2>1, RunKnows DEF FailedInRun, IsCleared
      <3> QED
        BY <1>1, <3>1 DEF Cleared
    <2>2. CASE j # job[w]
      <3>1. status'[j] = status[j] /\ error'[j] = error[j]
        BY <1>1, <2>2 DEF SetFailed, SetStatus, IType, TypeOK, JobTypeOK
      <3>2. Cleared(j)
        BY <1>1, <1>5, <3>1 DEF FailedInRun, RunsInv
      <3> QED
        BY <1>1, <3>2 DEF Cleared
    <2> QED
      BY <2>1, <2>2
  <1>6. \A v \in Workers : v = w
    BY DEF Serial
  <1> QED
    BY <1>3, <1>4, <1>5, <1>6 DEF RunsInv

\* A request's steps, and those of a task outside its run.
LEMMA OutsideRuns ==
    ASSUME IType, RunsInv, NEW a \in Actors,
           \/ a \in Clients /\ ((\E j \in Jobs : Submit(a, j) \/ Retry(a, j)) \/ ClientStep(a))
           \/ a \in Workers /\ (\E j \in Jobs, n \in 0 .. MaxRetries : Take(a, j, n))
           \/ a \in Workers /\ (TaskRead(a) \/ RequeueRead(a) \/ RequeueWrite(a) \/ Again(a))
           \/ Lose(a)
    PROVE  RunsInv'
  <1>1. UNCHANGED <<stores, spoilt>>
    BY DEF Submit, Retry, ClientStep, SaveReplay, RequeueRead, RequeueWrite, EnqueueRead,
           Enqueue, MarkUnqueued, Take, TaskRead, Again, Lose
  <1>2. \A j \in Jobs : replay[j] => replay'[j]
    BY DEF Submit, Retry, ClientStep, SaveReplay, RequeueRead, RequeueWrite, EnqueueRead,
           Enqueue, MarkUnqueued, Take, TaskRead, Again, Lose, jobVars,
           IType, TypeOK, JobTypeOK
  <1>3. \A j \in Jobs : status'[j] = "failed" =>
            error'[j] = "queue" \/ (status[j] = "failed" /\ error'[j] = error[j])
    <2>1. CASE \E j \in Jobs : Submit(a, j)
      BY <2>1 DEF Submit, CreateOrGetJob, SetStatus, IType, TypeOK, JobTypeOK
    <2>2. CASE RequeueWrite(a)
      BY <2>2 DEF RequeueWrite, SetStatus, IType, TypeOK, JobTypeOK
    <2>3. CASE MarkUnqueued(a)
      BY <2>3 DEF MarkUnqueued, SetFailed, SetStatus, IType, TypeOK, JobTypeOK
    <2>4. CASE UNCHANGED <<status, error>>
      BY <2>4
    <2> QED
      BY <2>1, <2>2, <2>3, <2>4
         DEF Retry, ClientStep, SaveReplay, RequeueRead, EnqueueRead, Enqueue, Take, TaskRead,
             Again, Lose, jobVars
  <1>4. ASSUME NEW w \in Workers
        PROVE  \/ pc'[w] \in Resting
               \/ /\ pc'[w] = pc[w] /\ job'[w] = job[w]
                  /\ sweep'[w] = sweep[w] /\ found'[w] = found[w]
    <2>1. sweep' = sweep /\ found' = found /\ w \in Actors
      BY DEF Submit, Retry, ClientStep, SaveReplay, RequeueRead, RequeueWrite, EnqueueRead,
             Enqueue, MarkUnqueued, Take, TaskRead, Again, Lose, locals, Actors
    <2>2. job' = job \/ (\E j : job' = [job EXCEPT ![a] = j])
      BY DEF Submit, Retry, ClientStep, SaveReplay, RequeueRead, RequeueWrite, EnqueueRead,
             Enqueue, MarkUnqueued, Take, TaskRead, Again, Lose, locals
    <2>3. \E label : Goto(a, label)
      BY DEF Submit, Retry, ClientStep, SaveReplay, RequeueRead, RequeueWrite, EnqueueRead,
             Enqueue, MarkUnqueued, Take, TaskRead, Again, Lose
    <2>4. CASE w # a
      BY <2>1, <2>2, <2>3, <2>4 DEF Goto, IType, TypeOK, LocalTypeOK
    <2>5. CASE w = a
      <3>1. w \notin Clients
        BY ActorsAssumption
      <3>2. \E label \in Resting \ {"again"} : Goto(w, label)
        BY <2>5, <3>1
           DEF RequeueRead, RequeueWrite, AfterRequeue, Take, TaskRead, Again, Lose, Resting
      <3> QED
        BY <2>1, <3>2 DEF Goto, IType, TypeOK, LocalTypeOK
    <2> QED
      BY <2>4, <2>5
  <1> QED
    BY <1>1, <1>2, <1>3, <1>4, ElsewhereRuns

\* Every step of the specification keeps the invariant.
LEMMA RunsStep ==
    ASSUME Serial, IType, RunsInv, [Next]_vars
    PROVE  RunsInv'
  <1>1. CASE UNCHANGED vars
    BY <1>1 DEF RunsInv, StoresAgree, KnowsJob, AtCall, IsStaged, IsPublished, IsCleared, InRun,
                Publishing, Own, Serves, Cleared, FailedInRun, vars, jobVars, stores, locals
  <1>2. CASE \E c \in Clients : (\E j \in Jobs : Submit(c, j) \/ Retry(c, j)) \/ ClientStep(c)
    BY <1>2, OutsideRuns DEF Actors
  <1>3. CASE \E a \in Actors : Lose(a)
    BY <1>3, OutsideRuns
  <1>4. ASSUME NEW w \in Workers, WorkerStep(w) PROVE RunsInv'
    <2>1. CASE \/ \E j \in Jobs, n \in 0 .. MaxRetries : Take(w, j, n)
               \/ TaskRead(w) \/ RequeueRead(w) \/ RequeueWrite(w) \/ Again(w)
      BY <2>1, OutsideRuns DEF Actors
    <2>2. CASE ProcessRead(w) \/ MarkFailed(w)
      BY <2>2, ProcessReadRuns, MarkFailedRuns
    <2>3. CASE Advance(w) \/ RejectSource(w) \/ NotApplied(w) \/ StageCheck(w)
      BY <2>3, StagesRun
    <2>4. CASE StageDocument(w) \/ StageChunks(w) \/ StageVectors(w) \/ MarkStaged(w)
      BY <2>4, StageDocumentRuns, StageChunksRuns, StageVectorsRuns, MarkStagedRuns
    <2>5. CASE SweepDocuments(w) \/ SweepChunks(w) \/ PublishVectors(w)
      BY <2>5, SweepDocumentsRuns, SweepChunksRuns, PublishVectorsRuns
    <2>6. CASE DeletePrevious(w) \/ DeleteOwn(w) \/ Finish(w)
      BY <2>6, DeletePreviousRuns, DeleteOwnRuns, FinishRuns
    <2> QED
      BY <1>4, <2>1, <2>2, <2>3, <2>4, <2>5, <2>6 DEF WorkerStep
  <1> QED
    BY <1>1, <1>2, <1>3, <1>4 DEF Next

\* With one worker process, and for any jobs, revisions, clients, retries, raising
\* calls and lost actors: a job that failed in a worker is not the source of a
\* revision retrieval serves, unless its compensation has raised too.
THEOREM FailedRunsAreUnpublished ==
    ASSUME Serial
    PROVE  Spec => []FailedIsUnpublished
  <1>1. RunsInv => FailedIsUnpublished
    <2> SUFFICES ASSUME RunsInv, NEW j \in Jobs, FailedInRun(j), Serves(RevisionOf[j]),
                        vectors[RevisionOf[j]].source = j
                 PROVE  FALSE
      BY DEF FailedIsUnpublished, FailedInRun
    <2> QED
      BY DEF RunsInv, Cleared, Serves, Absent
  <1>2. IType /\ RunsInv /\ [Next]_vars => RunsInv'
    BY RunsStep
  <1> QED
    BY <1>1, <1>2, TypeInit, TypeStep, RunsStart, PTL DEF Spec

\* A record that goes from published to superseded is marked by a worker that retires it.
LEMMA RetiringStep ==
    ASSUME IType, [Next]_vars, NEW r \in Revisions,
           documents[r].lifecycle = "published", documents'[r].lifecycle = "superseded"
    PROVE  \E w \in Workers : SweepDocuments(w) /\ sweep[w] = "supersede" /\ r = Previous(w)
  <1>1. documents' # documents
    OBVIOUS
  <1>2. PICK w \in Workers : StageDocument(w) \/ SweepDocuments(w)
    BY <1>1
       DEF Next, vars, stores, ClientStep, Submit, Retry, SaveReplay, RequeueRead, RequeueWrite,
           EnqueueRead, Enqueue, MarkUnqueued, WorkerStep, Take, TaskRead, ProcessRead, Advance,
           RejectSource, StageCheck, StageChunks, StageVectors, MarkStaged, SweepChunks,
           PublishVectors, DeletePrevious, DeleteOwn, Finish, MarkFailed, Again, NotApplied, Lose
  <1>3. documents \in [Revisions -> Copy]
    BY DEF IType, TypeOK, StoreTypeOK
  <1>4. ~StageDocument(w)
    BY <1>3 DEF StageDocument, Written
  <1>5. documents' = Marked(documents, Subject(w), SweepTo(w)) /\ SweepDocuments(w)
    BY <1>2, <1>4 DEF SweepDocuments
  <1>6. r = Subject(w) /\ SweepTo(w) = "superseded"
    BY <1>3, <1>5 DEF Marked
  <1>7. sweep[w] \in Sweeps /\ (Target[job[w]] = "superseded" => job[w] \notin Jobs)
    BY JobsAssumption DEF IType, TypeOK, LocalTypeOK
  <1>8. job[w] \in Jobs
    BY <1>5 DEF SweepDocuments, IType, Busy, Actors
  <1>9. sweep[w] = "supersede"
    BY <1>6, <1>7, <1>8 DEF SweepTo, Sweeps
  <1> QED
    BY <1>5, <1>6, <1>9 DEF Subject

\* With one worker process: publish_document retires a revision only at a moment
\* when the job's own revision, which supersedes it, is served.
THEOREM SuccessorsAreServed ==
    ASSUME Serial
    PROVE  Spec => RetiredBySuccessor
  <1>1. IType /\ RunsInv /\ [Next]_vars =>
            \A r \in Revisions :
                documents[r].lifecycle = "published" /\ documents'[r].lifecycle = "superseded"
                => \E j \in Jobs : Supersedes[j] = r /\ Serves(RevisionOf[j])
    <2> SUFFICES ASSUME IType, RunsInv, [Next]_vars, NEW r \in Revisions,
                        documents[r].lifecycle = "published",
                        documents'[r].lifecycle = "superseded"
                 PROVE  \E j \in Jobs : Supersedes[j] = r /\ Serves(RevisionOf[j])
      OBVIOUS
    <2>1. PICK w \in Workers : SweepDocuments(w) /\ sweep[w] = "supersede" /\ r = Previous(w)
      BY RetiringStep
    <2>2. job[w] \in Jobs /\ Serves(Own(w))
      BY <2>1, RunKnows DEF SweepDocuments, InRun, Resting, IsPublished
    <2> QED
      BY <2>1, <2>2 DEF Previous, Own
  <1>2. IType /\ RunsInv /\ [Next]_vars => RunsInv'
    BY RunsStep
  <1> QED
    BY <1>1, <1>2, TypeInit, TypeStep, RunsStart, PTL DEF Spec, RetiredBySuccessor

===============================================================================
