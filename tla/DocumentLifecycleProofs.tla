----------------------- MODULE DocumentLifecycleProofs -----------------------
(***************************************************************************)
(* Proofs about DocumentLifecycle: its types, that an operation is carried *)
(* out by one worker at a time, and that its recorded end agrees with the  *)
(* catalogs and rows, for any number of operations, requests, workers,     *)
(* retries and faults.                                                     *)
(***************************************************************************)
EXTENDS DocumentLifecycle, TLAPS

-----------------------------------------------------------------------------
(* Types *)

Verdict == Terminal \cup {"compensation_required"}

\* A client that has begun knows its operation.
Asked == \A c \in Clients : pc[c] # "idle" => op[c] \in Ops

\* A task is only under way when its client has sent it.
Sent ==
    /\ \A m \in waiting : pc[m[1]] \in {"done", "dispatch_failed"}
    /\ \A w \in Workers : pc[w] # "idle" =>
           task[w] \in Clients /\ pc[task[w]] \in {"done", "dispatch_failed"}

\* A worker that records the end of an operation has decided on it, and one
\* that is about to send its task again may.
Decided ==
    \A w \in Workers :
        /\ pc[w] = "save" => outcome[w] \in Verdict
        /\ pc[w] \in {"retry_read", "retry_write", "resend"} => retries[w] < MaxRetries

LType == TypeOK /\ Asked /\ Sent /\ Decided

\* Where an actor goes, and what becomes of the faults.
Moves(a, label) ==
    /\ Goto(a, label)
    /\ faults' \in [Kinds -> Nat]
    /\ faults'["resent"] = 0 => faults["resent"] = 0

LEMMA GotoTyped ==
    ASSUME TypeOK, NEW a \in Actors, NEW label \in ClientPC \cup WorkerPC, Goto(a, label)
    PROVE  /\ pc' \in [Actors -> ClientPC \cup WorkerPC]
           /\ pc'[a] = label
           /\ \A x \in Actors : x # a => pc'[x] = pc[x]
  BY DEF TypeOK, Goto

LEMMA FaultTyped ==
    ASSUME TypeOK, NEW kind \in Kinds, Fault(kind)
    PROVE  /\ faults' \in [Kinds -> Nat]
           /\ faults'["resent"] = 0 => faults["resent"] = 0
  <1>1. faults \in [Kinds -> Nat] /\ "resent" \in Kinds
    BY DEF TypeOK, Kinds
  <1> QED
    BY <1>1 DEF Fault

LEMMA StaysMoves ==
    ASSUME TypeOK, NEW a, NEW label, Goto(a, label), UNCHANGED faults
    PROVE  Moves(a, label)
  BY DEF Moves, TypeOK

LEMMA ReturnsMoves ==
    ASSUME TypeOK, NEW a, NEW label,
           Returns(a, label) \/ \E kind \in Kinds : Raises(kind, a, label)
    PROVE  Moves(a, label)
  BY FaultTyped, StaysMoves DEF Returns, Raises, Moves

LEMMA OpOfTyped ==
    ASSUME LType, NEW w \in Workers, pc[w] # "idle"
    PROVE  task[w] \in Clients /\ OpOf(w) \in Ops /\ pc[task[w]] # "idle"
  BY DEF LType, Sent, Asked, OpOf

LEMMA StatusTyped ==
    ASSUME TypeOK, NEW o \in Ops, NEW s \in Status, SetStatus(o, s)
    PROVE  status' \in [Ops -> Status]
  BY DEF TypeOK, SetStatus

LEMMA RestartTyped ==
    ASSUME NEW o \in Ops
    PROVE  Restart(o) \in Status
  BY DEF Restart, Status

\* What a step of a client keeps to.
LEMMA ClientTyped ==
    ASSUME LType, NEW c \in Clients, pc[c] # "idle",
           NEW label \in ClientPC \ {"idle"}, Moves(c, label),
           pc[c] \in {"done", "dispatch_failed"} => label = "done",
           status' \in [Ops -> Status],
           document' \in {"published", "withdrawn"}, chunks' \in {"published", "withdrawn"},
           \/ waiting' = waiting
           \/ /\ waiting' = waiting \cup {<<c, 0>>}
              /\ label \in {"done", "dispatch_failed"},
           UNCHANGED <<claim, rows, op, task, retries, outcome>>
    PROVE  LType'
  <1>1. TypeOK /\ c \in Actors /\ c \notin Workers /\ label \in ClientPC \cup WorkerPC
    BY ActorsAssumption DEF LType, Actors
  <1>2. /\ pc' \in [Actors -> ClientPC \cup WorkerPC]
        /\ pc'[c] = label
        /\ \A x \in Actors : x # c => pc'[x] = pc[x]
    BY <1>1, GotoTyped DEF Moves
  <1>3. \A w \in Workers : pc'[w] = pc[w]
    BY <1>1, <1>2 DEF Actors
  <1>4. 0 \in 0 .. MaxRetries
    BY BoundsAssumption
  <1>5. TypeOK'
    BY <1>1, <1>2, <1>4 DEF TypeOK, Moves
  <1>6. Asked'
    BY <1>2 DEF LType, Asked, Actors
  <1>7. \A d \in Clients : pc[d] \in {"done", "dispatch_failed"} =>
                               pc'[d] \in {"done", "dispatch_failed"}
    BY <1>2 DEF Actors
  <1>8. Sent'
    <2>1. \A m \in waiting : m[1] \in Clients
      BY <1>1 DEF TypeOK
    <2>2. \A m \in waiting' : pc'[m[1]] \in {"done", "dispatch_failed"}
      BY <1>2, <1>7, <2>1 DEF LType, Sent
    <2> QED
      BY <1>3, <1>7, <2>2 DEF LType, Sent
  <1>9. Decided'
    BY <1>3 DEF LType, Decided
  <1> QED
    BY <1>5, <1>6, <1>8, <1>9 DEF LType

\* What a step of a worker on its task keeps to.
LEMMA WorkerTyped ==
    ASSUME LType, NEW w \in Workers, pc[w] # "idle",
           NEW label \in WorkerPC, Moves(w, label),
           label \in {"retry_read", "retry_write", "resend"} => retries[w] < MaxRetries,
           label = "save" => outcome'[w] \in Verdict,
           status' \in [Ops -> Status], claim' \in [Ops -> Clients \cup {None}],
           document' \in {"published", "withdrawn"}, chunks' \in {"published", "withdrawn"},
           rows' \in {"absent", "staged", "published"},
           outcome' \in [Workers -> Outcome],
           \A v \in Workers : v # w => outcome'[v] = outcome[v],
           \/ waiting' = waiting
           \/ \E n \in 0 .. MaxRetries : waiting' = waiting \cup {<<task[w], n>>},
           UNCHANGED <<op, task, retries>>
    PROVE  LType'
  <1>1. TypeOK /\ w \in Actors /\ w \notin Clients /\ label \in ClientPC \cup WorkerPC
    BY ActorsAssumption DEF LType, Actors
  <1>2. /\ pc' \in [Actors -> ClientPC \cup WorkerPC]
        /\ pc'[w] = label
        /\ \A x \in Actors : x # w => pc'[x] = pc[x]
    BY <1>1, GotoTyped DEF Moves
  <1>3. \A c \in Clients : pc'[c] = pc[c]
    BY <1>1, <1>2 DEF Actors
  <1>4. task[w] \in Clients
    BY OpOfTyped
  <1>5. waiting' \subseteq Clients \X (0 .. MaxRetries)
    BY <1>1, <1>4 DEF TypeOK
  <1>6. TypeOK'
    BY <1>1, <1>2, <1>5 DEF TypeOK, Moves
  <1>7. Asked'
    BY <1>3 DEF LType, Asked
  <1>8. Sent'
    <2>1. \A m \in waiting' : m[1] \in Clients /\ pc[m[1]] \in {"done", "dispatch_failed"}
      BY <1>1, <1>4 DEF TypeOK, LType, Sent
    <2>2. \A v \in Workers : pc'[v] # "idle" => pc[v] # "idle"
      BY <1>2 DEF Actors
    <2> QED
      BY <1>3, <2>1, <2>2 DEF LType, Sent
  <1>9. Decided'
    <2>1. ASSUME NEW v \in Workers, v # w
          PROVE  pc'[v] = pc[v] /\ outcome'[v] = outcome[v] /\ retries'[v] = retries[v]
      BY <1>2, <2>1 DEF Actors
    <2> QED
      BY <1>2, <2>1 DEF LType, Decided
  <1> QED
    BY <1>6, <1>7, <1>8, <1>9 DEF LType

LEMMA TypeInit == Init => LType
  <1> SUFFICES ASSUME Init PROVE LType
    OBVIOUS
  <1>1. TypeOK
    BY BoundsAssumption DEF Init, TypeOK, Status, Outcome, ClientPC
  <1>2. \A a \in Actors : pc[a] = "idle"
    BY DEF Init
  <1> QED
    BY <1>1, <1>2 DEF Init, LType, Asked, Sent, Decided, Actors

\* A client begins: with a new request or with a retry.
LEMMA BeginTyped ==
    ASSUME LType, NEW c \in Clients, NEW o \in Ops, Request(c, o) \/ Retry(c, o)
    PROVE  LType'
  <1>1. TypeOK /\ c \in Actors /\ c \notin Workers /\ pc[c] = "idle"
    BY ActorsAssumption DEF LType, Actors, Request, Retry
  <1>2. PICK label \in {"dispatch", "create", "done", "retry_read"} : Goto(c, label)
    <2>1. CASE Retry(c, o)
      BY <2>1 DEF Retry
    <2>2. CASE Request(c, o)
      <3>1. RequestWithdrawal(o) \in {"dispatch", "create", "done"}
        BY DEF RequestWithdrawal
      <3>2. RequestRestore(o) \in {"dispatch", "create", "done"}
        BY DEF RequestRestore
      <3> QED
        BY <2>2, <3>1, <3>2 DEF Request
    <2> QED
      BY <2>1, <2>2
  <1>3. label \in ClientPC \cup WorkerPC
    BY DEF ClientPC
  <1>4. /\ pc' \in [Actors -> ClientPC \cup WorkerPC]
        /\ pc'[c] = label
        /\ \A x \in Actors : x # c => pc'[x] = pc[x]
    BY <1>1, <1>2, <1>3, GotoTyped
  <1>5. /\ op' = [op EXCEPT ![c] = o]
        /\ UNCHANGED <<status, claim, catalogs, rows, waiting, task, retries, outcome, faults>>
    BY DEF Request, Retry
  <1>6. TypeOK'
    BY <1>1, <1>4, <1>5 DEF TypeOK, catalogs
  <1>7. Asked'
    BY <1>1, <1>4, <1>5 DEF LType, Asked, TypeOK, Actors
  <1>8. Sent'
    BY <1>1, <1>4, <1>5 DEF LType, Sent, TypeOK, Actors
  <1>9. Decided'
    BY <1>1, <1>4, <1>5 DEF LType, Decided, Actors
  <1> QED
    BY <1>6, <1>7, <1>8, <1>9 DEF LType

LEMMA ClientStepTyped ==
    ASSUME LType, NEW c \in Clients, ClientStep(c) \/ LoseRequest(c)
    PROVE  LType'
  <1>1. TypeOK
    BY DEF LType
  <1>2. pc[c] # "idle" /\ op[c] \in Ops
    <2>1. pc[c] # "idle"
      BY DEF ClientStep, LoseRequest, Create, Blocking, BlockDocument, BlockChunks, SaveBlocked,
             RetryRead, RetryWrite, Dispatch, DispatchFailed
    <2> QED
      BY <2>1 DEF LType, Asked
  <1>3. /\ status \in [Ops -> Status]
        /\ document \in {"published", "withdrawn"} /\ chunks \in {"published", "withdrawn"}
    BY <1>1 DEF TypeOK
  <1>s. {"requested", "restore_validating", "blocking", "vector_cleanup", "failed",
         "compensation_required"} \subseteq Status
    BY DEF Status, Terminal
  <1>l. {"create", "blocking", "block_document", "block_chunks", "save_failed",
         "save_cleanup", "retry_read", "retry_write", "dispatch", "dispatch_failed",
         "done"} \subseteq ClientPC \ {"idle"}
    BY DEF ClientPC
  <1>k. {"catalog", "broker", "request"} \subseteq Kinds
    BY DEF Kinds
  <1>4. CASE Create(c)
    <2>1. PICK label \in {"blocking", "dispatch"} : Moves(c, label)
      BY <1>1, <1>4, StaysMoves DEF Create
    <2>2. status' \in [Ops -> Status]
      BY <1>1, <1>2, <1>4, <1>s, <1>3, StatusTyped DEF Create
    <2> QED
      BY <1>2, <1>3, <1>4, <1>l, <2>1, <2>2, ClientTyped DEF Create, catalogs
  <1>5. CASE Blocking(c)
    <2>1. Moves(c, "block_document") /\ status' \in [Ops -> Status]
      BY <1>1, <1>2, <1>5, <1>s, StaysMoves, StatusTyped DEF Blocking
    <2> QED
      BY <1>2, <1>3, <1>5, <1>l, <2>1, ClientTyped DEF Blocking, catalogs
  <1>6. CASE BlockDocument(c)
    <2>1. PICK label \in {"block_chunks", "save_failed"} : Moves(c, label)
      BY <1>1, <1>6, <1>k, ReturnsMoves DEF BlockDocument
    <2>2. document' \in {"published", "withdrawn"}
      BY <1>3, <1>6 DEF BlockDocument
    <2> QED
      BY <1>2, <1>3, <1>6, <1>l, <2>1, <2>2, ClientTyped DEF BlockDocument
  <1>7. CASE BlockChunks(c)
    <2>1. PICK label \in {"save_cleanup", "save_failed"} : Moves(c, label)
      BY <1>1, <1>7, <1>k, ReturnsMoves DEF BlockChunks
    <2>2. chunks' \in {"published", "withdrawn"}
      BY <1>3, <1>7 DEF BlockChunks
    <2> QED
      BY <1>2, <1>3, <1>7, <1>l, <2>1, <2>2, ClientTyped DEF BlockChunks
  <1>8. CASE SaveBlocked(c)
    <2>1. PICK label \in {"dispatch", "done"} : Moves(c, label)
      BY <1>1, <1>8, StaysMoves DEF SaveBlocked
    <2>2. status' \in [Ops -> Status]
      BY <1>1, <1>2, <1>8, <1>s, StatusTyped DEF SaveBlocked
    <2>3. pc[c] \notin {"done", "dispatch_failed"}
      BY <1>8 DEF SaveBlocked
    <2> QED
      BY <1>2, <1>3, <1>8, <1>l, <2>1, <2>2, <2>3, ClientTyped DEF SaveBlocked, catalogs
  <1>9. CASE RetryRead(c)
    <2>1. PICK label \in {"retry_write", "done", "dispatch"} : Goto(c, label)
      <3>1. CASE status[op[c]] \in {"compensation_required", "failed"}
        BY <1>9, <3>1 DEF RetryRead
      <3>2. CASE status[op[c]] \in {"withdrawn", "restored"}
        BY <1>9, <3>2 DEF RetryRead
      <3>3. CASE status[op[c]] \notin {"compensation_required", "failed", "withdrawn", "restored"}
        BY <1>9, <3>3 DEF RetryRead
      <3> QED
        BY <3>1, <3>2, <3>3
    <2>2. Moves(c, label)
      BY <1>1, <1>9, <2>1, StaysMoves DEF RetryRead
    <2>3. pc[c] \notin {"done", "dispatch_failed"}
      BY <1>9 DEF RetryRead
    <2> QED
      BY <1>2, <1>3, <1>9, <1>l, <2>1, <2>2, <2>3, ClientTyped DEF RetryRead, catalogs
  <1>10. CASE RetryWrite(c)
    <2>1. Moves(c, "dispatch") /\ status' \in [Ops -> Status]
      BY <1>1, <1>2, <1>10, StaysMoves, StatusTyped, RestartTyped DEF RetryWrite
    <2> QED
      BY <1>2, <1>3, <1>10, <1>l, <2>1, ClientTyped DEF RetryWrite, catalogs
  <1>11. CASE Dispatch(c)
    <2>1. PICK label \in {"done", "dispatch_failed"} : Moves(c, label)
      BY <1>1, <1>11, <1>k, ReturnsMoves DEF Dispatch
    <2> QED
      BY <1>2, <1>3, <1>11, <1>l, <2>1, ClientTyped DEF Dispatch, catalogs
  <1>12. CASE DispatchFailed(c)
    <2>1. Moves(c, "done") /\ status' \in [Ops -> Status]
      BY <1>1, <1>2, <1>12, <1>s, StaysMoves, StatusTyped DEF DispatchFailed
    <2> QED
      BY <1>2, <1>3, <1>12, <1>l, <2>1, ClientTyped DEF DispatchFailed, catalogs
  <1>13. CASE LoseRequest(c)
    <2>1. Moves(c, "done")
      BY <1>1, <1>13, <1>k, ReturnsMoves DEF LoseRequest
    <2> QED
      BY <1>2, <1>3, <1>13, <1>l, <2>1, ClientTyped DEF LoseRequest, catalogs
  <1> QED
    BY <1>4, <1>5, <1>6, <1>7, <1>8, <1>9, <1>10, <1>11, <1>12, <1>13 DEF ClientStep

LEMMA DecideTyped ==
    ASSUME TypeOK, NEW w \in Workers, NEW result \in Outcome, Decide(w, result)
    PROVE  /\ outcome' \in [Workers -> Outcome]
           /\ outcome'[w] = result
           /\ \A v \in Workers : v # w => outcome'[v] = outcome[v]
  BY DEF TypeOK, Decide

LEMMA TakeTyped ==
    ASSUME LType, NEW w \in Workers, NEW m \in waiting, Take(w, m)
    PROVE  LType'
  <1>1. TypeOK /\ w \in Actors /\ w \notin Clients
    BY ActorsAssumption DEF LType, Actors
  <1>2. m[1] \in Clients /\ m[2] \in 0 .. MaxRetries
    BY <1>1 DEF TypeOK
  <1>3. "read" \in ClientPC \cup WorkerPC /\ "none" \in Outcome
    BY DEF WorkerPC, Outcome
  <1>4. /\ pc' \in [Actors -> ClientPC \cup WorkerPC]
        /\ pc'[w] = "read"
        /\ \A x \in Actors : x # w => pc'[x] = pc[x]
    BY <1>1, <1>3, GotoTyped DEF Take
  <1>5. /\ outcome' \in [Workers -> Outcome]
        /\ \A v \in Workers : v # w => outcome'[v] = outcome[v]
    BY <1>1, <1>3, DecideTyped DEF Take
  <1>6. /\ task' = [task EXCEPT ![w] = m[1]]
        /\ retries' = [retries EXCEPT ![w] = m[2]]
        /\ waiting' = waiting \ {m}
        /\ UNCHANGED <<status, claim, catalogs, rows, op, faults>>
    BY DEF Take
  <1>7. TypeOK'
    BY <1>1, <1>2, <1>4, <1>5, <1>6 DEF TypeOK, catalogs
  <1>8. \A c \in Clients : pc'[c] = pc[c]
    BY <1>1, <1>4 DEF Actors
  <1>9. Asked'
    BY <1>6, <1>8 DEF LType, Asked
  <1>10. Sent'
    <2>1. \A n \in waiting' : pc'[n[1]] \in {"done", "dispatch_failed"}
      BY <1>1, <1>6, <1>8 DEF LType, Sent, TypeOK
    <2>2. task'[w] = m[1] /\ pc'[m[1]] \in {"done", "dispatch_failed"}
      BY <1>1, <1>2, <1>6, <1>8 DEF LType, Sent, TypeOK
    <2>3. \A v \in Workers : v # w => task'[v] = task[v] /\ pc'[v] = pc[v]
      BY <1>1, <1>4, <1>6 DEF TypeOK, Actors
    <2> QED
      BY <1>2, <1>8, <2>1, <2>2, <2>3 DEF LType, Sent
  <1>11. Decided'
    <2>1. \A v \in Workers : v # w => /\ pc'[v] = pc[v] /\ outcome'[v] = outcome[v]
                                      /\ retries'[v] = retries[v]
      BY <1>1, <1>4, <1>5, <1>6 DEF TypeOK, Actors
    <2> QED
      BY <1>4, <2>1 DEF LType, Decided
  <1> QED
    BY <1>7, <1>9, <1>10, <1>11 DEF LType

\* The steps in which a worker decides nothing and writes no record of the revision.
LEMMA TaskStepTyped ==
    ASSUME LType, NEW w \in Workers,
           \/ Read(w) \/ Claim(w) \/ Current(w) \/ Release(w) \/ Resend(w)
           \/ Breaks(w) \/ LoseWorker(w)
    PROVE  LType'
  <1>1. TypeOK
    BY DEF LType
  <1>2. pc[w] # "idle"
    BY DEF Read, Claim, Current, Release, Resend, Breaks, LoseWorker
  <1>3. task[w] \in Clients /\ OpOf(w) \in Ops
    BY <1>2, OpOfTyped
  <1>4. /\ status \in [Ops -> Status] /\ claim \in [Ops -> Clients \cup {None}]
        /\ document \in {"published", "withdrawn"} /\ chunks \in {"published", "withdrawn"}
        /\ rows \in {"absent", "staged", "published"} /\ outcome \in [Workers -> Outcome]
        /\ retries[w] \in 0 .. MaxRetries
    BY <1>1 DEF TypeOK
  <1>l. {"idle", "claim", "release", "bundle", "reread", "current", "retry_read",
         "retry_write", "resend", "acknowledge"} \subseteq WorkerPC
    BY DEF WorkerPC, Claimed
  <1>k. {"catalog", "worker", "resent"} \subseteq Kinds
    BY DEF Kinds
  <1>5. CASE Read(w)
    <2>1. PICK label \in {"idle", "claim", "release", "bundle"} : Moves(w, label)
      BY <1>1, <1>5, StaysMoves DEF Read
    <2> QED
      BY <1>2, <1>4, <1>5, <1>l, <2>1, WorkerTyped DEF Read, catalogs
  <1>6. CASE Claim(w)
    <2>1. PICK label \in {"idle", "reread", "current"} : Moves(w, label)
      BY <1>1, <1>6, <1>k, ReturnsMoves DEF Claim
    <2>2. claim' \in [Ops -> Clients \cup {None}]
      BY <1>3, <1>4, <1>6 DEF Claim
    <2> QED
      BY <1>2, <1>4, <1>6, <1>l, <2>1, <2>2, WorkerTyped DEF Claim, catalogs
  <1>7. CASE Current(w)
    <2>1. PICK label \in {"idle", "retry_read"} :
             Moves(w, label) /\ (label = "retry_read" => retries[w] < MaxRetries)
      BY <1>1, <1>7, StaysMoves DEF Current, MayRetry
    <2> QED
      BY <1>2, <1>4, <1>7, <1>l, <2>1, WorkerTyped DEF Current, catalogs
  <1>8. CASE Release(w)
    <2>1. PICK label \in {"idle", "retry_read"} :
             Moves(w, label) /\ (label = "retry_read" => retries[w] < MaxRetries)
      BY <1>1, <1>8, <1>k, ReturnsMoves DEF Release, MayRetry
    <2>2. claim' \in [Ops -> Clients \cup {None}]
      BY <1>3, <1>4, <1>8 DEF Release, Released
    <2> QED
      BY <1>2, <1>4, <1>8, <1>l, <2>1, <2>2, WorkerTyped DEF Release, catalogs
  <1>9. CASE Resend(w)
    <2>1. CASE pc[w] = "acknowledge"
      <3>1. Moves(w, "idle") /\ UNCHANGED <<status, waiting>>
        BY <1>1, <1>9, <2>1, StaysMoves DEF Resend
      <3> QED
        BY <1>2, <1>4, <1>9, <1>l, <3>1, WorkerTyped DEF Resend, catalogs
    <2>2. CASE pc[w] \in {"retry_read", "retry_write", "resend"}
      <3>1. retries[w] < MaxRetries /\ retries[w] + 1 \in 0 .. MaxRetries
        BY <1>4, <2>2, BoundsAssumption DEF LType, Decided
      <3>2. PICK label \in {"retry_write", "resend", "acknowledge"} : Moves(w, label)
        BY <1>1, <1>9, <2>2, StaysMoves DEF Resend
      <3>3. status' \in [Ops -> Status]
        BY <1>1, <1>3, <1>4, <1>9, StatusTyped, RestartTyped DEF Resend
      <3>4. \/ waiting' = waiting
            \/ waiting' = waiting \cup {<<task[w], retries[w] + 1>>}
        BY <1>9 DEF Resend
      <3> QED
        BY <1>2, <1>4, <1>9, <1>l, <3>1, <3>2, <3>3, <3>4, WorkerTyped DEF Resend, catalogs
    <2> QED
      BY <1>9, <2>1, <2>2 DEF Resend
  <1>10. CASE Breaks(w)
    <2>1. Moves(w, "idle")
      BY <1>1, <1>10, <1>k, ReturnsMoves DEF Breaks
    <2> QED
      BY <1>2, <1>4, <1>10, <1>l, <2>1, WorkerTyped DEF Breaks, catalogs
  <1>11. CASE LoseWorker(w)
    <2>1. Moves(w, "idle")
      BY <1>1, <1>11, <1>k, ReturnsMoves DEF LoseWorker
    <2> QED
      BY <1>2, <1>4, <1>11, <1>l, <2>1, WorkerTyped DEF LoseWorker, catalogs
  <1> QED
    BY <1>5, <1>6, <1>7, <1>8, <1>9, <1>10, <1>11

\* The steps of an operation itself.
WorkStep(w) ==
    \/ Bundle(w) \/ SaveIndexing(w) \/ StageRows(w) \/ PublishDocument(w)
    \/ PublishChunks(w) \/ PublishRows(w) \/ ReblockDocument(w) \/ ReblockChunks(w)
    \/ DeleteRows(w) \/ VerifyRows(w) \/ Save(w) \/ NotApplied(w)

\* They begin and end under the claim, and leave all that concerns tasks alone.
LEMMA WorkMoves ==
    ASSUME TypeOK, NEW w \in Workers, WorkStep(w)
    PROVE  /\ pc[w] \in Claimed
           /\ \E label \in Claimed \ {"reread", "bundle"} : Moves(w, label)
           /\ UNCHANGED <<claim, waiting, op, task, retries>>
  <1>1. pc[w] \in Claimed
    BY DEF WorkStep, Bundle, SaveIndexing, StageRows, PublishDocument, PublishChunks,
           PublishRows, ReblockDocument, ReblockChunks, DeleteRows, VerifyRows, Save,
           NotApplied, Claimed
  <1>2. UNCHANGED <<claim, waiting, op, task, retries>>
    BY DEF WorkStep, Bundle, SaveIndexing, StageRows, PublishDocument, PublishChunks,
           PublishRows, ReblockDocument, ReblockChunks, DeleteRows, VerifyRows, Save,
           NotApplied
  <1>k. {"catalog", "vector"} \subseteq Kinds
    BY DEF Kinds
  <1>l. {"save_indexing", "stage_rows", "publish_document", "publish_chunks",
         "publish_rows", "reblock_document", "reblock_chunks", "delete_rows",
         "verify_rows", "save", "release"} \subseteq Claimed \ {"reread", "bundle"}
    BY DEF Claimed
  <1>3. \E label \in Claimed \ {"reread", "bundle"} : Moves(w, label)
    <2>1. CASE Bundle(w)
      <3>1. PICK label \in {"save", "delete_rows", "save_indexing"} : Goto(w, label)
        BY <2>1 DEF Bundle
      <3>2. UNCHANGED faults
        BY <2>1 DEF Bundle
      <3>3. Moves(w, label)
        BY <3>1, <3>2, StaysMoves
      <3> QED
        BY <1>l, <3>3
    <2>2. CASE SaveIndexing(w)
      BY <2>2, <1>k, <1>l, ReturnsMoves DEF SaveIndexing
    <2>3. CASE StageRows(w)
      BY <2>3, <1>k, <1>l, ReturnsMoves DEF StageRows
    <2>4. CASE PublishDocument(w)
      BY <2>4, <1>k, <1>l, ReturnsMoves DEF PublishDocument
    <2>5. CASE PublishChunks(w)
      BY <2>5, <1>k, <1>l, ReturnsMoves DEF PublishChunks
    <2>6. CASE PublishRows(w)
      BY <2>6, <1>k, <1>l, ReturnsMoves DEF PublishRows
    <2>7. CASE ReblockDocument(w)
      BY <2>7, <1>k, <1>l, ReturnsMoves DEF ReblockDocument
    <2>8. CASE ReblockChunks(w)
      BY <2>8, <1>k, <1>l, ReturnsMoves DEF ReblockChunks
    <2>9. CASE DeleteRows(w)
      BY <2>9, <1>k, <1>l, ReturnsMoves DEF DeleteRows
    <2>10. CASE VerifyRows(w)
      BY <2>10, <1>k, <1>l, ReturnsMoves DEF VerifyRows
    <2>11. CASE Save(w)
      BY <2>11, <1>k, <1>l, ReturnsMoves DEF Save
    <2>12. CASE NotApplied(w)
      <3>1. Raises("catalog", w, "release")
        BY <2>12 DEF NotApplied
      <3>2. Moves(w, "release")
        BY <1>k, <3>1, ReturnsMoves
      <3> QED
        BY <1>l, <3>2
    <2> QED
      BY <2>1, <2>2, <2>3, <2>4, <2>5, <2>6, <2>7, <2>8, <2>9, <2>10, <2>11, <2>12
         DEF WorkStep
  <1> QED
    BY <1>1, <1>2, <1>3

\* What they write, and that none records an end it has not decided on.
LEMMA WorkStepTyped ==
    ASSUME LType, NEW w \in Workers, WorkStep(w)
    PROVE  LType'
  <1>1. TypeOK
    BY DEF LType
  <1>2. /\ pc[w] \in Claimed
        /\ UNCHANGED <<claim, waiting, op, task, retries>>
    BY <1>1, WorkMoves
  <1>3. PICK label \in Claimed \ {"reread", "bundle"} : Moves(w, label)
    BY <1>1, WorkMoves
  <1>4. pc[w] # "idle" /\ label \in WorkerPC
        /\ label \notin {"retry_read", "retry_write", "resend"}
    BY <1>2 DEF Claimed, WorkerPC
  <1>5. OpOf(w) \in Ops
    BY <1>4, OpOfTyped
  <1>6. /\ status \in [Ops -> Status] /\ claim \in [Ops -> Clients \cup {None}]
        /\ document \in {"published", "withdrawn"} /\ chunks \in {"published", "withdrawn"}
        /\ rows \in {"absent", "staged", "published"} /\ outcome \in [Workers -> Outcome]
    BY <1>1 DEF TypeOK
  <1>7. pc'[w] = label
    <2>1. w \in Actors /\ label \in ClientPC \cup WorkerPC
      BY <1>4 DEF Actors
    <2> QED
      BY <1>1, <1>3, <2>1, GotoTyped DEF Moves
  <1>8. document' \in {"published", "withdrawn"}
    BY <1>6 DEF WorkStep, Bundle, SaveIndexing, StageRows, PublishDocument, PublishChunks,
                PublishRows, ReblockDocument, ReblockChunks, DeleteRows, VerifyRows, Save,
                NotApplied, catalogs
  <1>9. chunks' \in {"published", "withdrawn"}
    BY <1>6 DEF WorkStep, Bundle, SaveIndexing, StageRows, PublishDocument, PublishChunks,
                PublishRows, ReblockDocument, ReblockChunks, DeleteRows, VerifyRows, Save,
                NotApplied, catalogs
  <1>10. rows' \in {"absent", "staged", "published"}
    BY <1>6 DEF WorkStep, Bundle, SaveIndexing, StageRows, PublishDocument, PublishChunks,
                PublishRows, ReblockDocument, ReblockChunks, DeleteRows, VerifyRows, Save,
                NotApplied, catalogs, LiveRows
  <1>11. status' \in [Ops -> Status]
    <2>1. CASE Save(w)
      <3>1. outcome[w] \in Status
        BY <2>1 DEF Save, LType, Decided, Verdict, Status
      <3> QED
        BY <1>1, <1>5, <2>1, <3>1, StatusTyped DEF Save
    <2>2. CASE SaveIndexing(w)
      <3>1. "restore_indexing" \in Status
        BY DEF Status
      <3> QED
        BY <1>1, <1>5, <2>2, <3>1, StatusTyped DEF SaveIndexing
    <2>3. CASE ~Save(w) /\ ~SaveIndexing(w)
      BY <1>6, <2>3 DEF WorkStep, Bundle, StageRows, PublishDocument, PublishChunks,
                        PublishRows, ReblockDocument, ReblockChunks, DeleteRows, VerifyRows,
                        NotApplied
    <2> QED
      BY <2>1, <2>2, <2>3
  <1>12. \/ outcome' = outcome /\ label # "save"
         \/ \E result \in Verdict \cup {"raised"} :
               Decide(w, result) /\ (label = "save" => result \in Verdict)
    <2>a. {"failed", "compensation_required", "withdrawn", "restored"} \subseteq Verdict
      BY DEF Verdict, Terminal
    <2>b. \A l : Goto(w, l) => l = label
      <3>1. w \in Actors
        BY DEF Actors
      <3> QED
        BY <1>1, <1>7, <3>1 DEF Goto, TypeOK
    <2>1. CASE Bundle(w)
      BY <2>1, <2>a, <2>b DEF Bundle
    <2>2. CASE SaveIndexing(w)
      BY <2>2, <2>a, <2>b DEF SaveIndexing, Returns, Raises
    <2>3. CASE \/ StageRows(w) \/ PublishDocument(w) \/ PublishChunks(w)
               \/ ReblockDocument(w) \/ ReblockChunks(w)
      BY <2>3, <2>b DEF StageRows, PublishDocument, PublishChunks, ReblockDocument,
                        ReblockChunks, Returns, Raises
    <2>4. CASE PublishRows(w)
      BY <2>4, <2>a, <2>b DEF PublishRows, Returns, Raises
    <2>5. CASE DeleteRows(w)
      BY <2>5, <2>a, <2>b DEF DeleteRows, Returns, Raises
    <2>6. CASE VerifyRows(w)
      BY <2>6, <2>a, <2>b DEF VerifyRows, Returns, Raises
    <2>7. CASE Save(w)
      BY <2>7, <2>a, <2>b DEF Save, Returns, Raises
    <2>8. CASE NotApplied(w)
      BY <2>8, <2>a, <2>b DEF NotApplied, Returns, Raises
    <2> QED
      BY <2>1, <2>2, <2>3, <2>4, <2>5, <2>6, <2>7, <2>8 DEF WorkStep
  <1>13. /\ outcome' \in [Workers -> Outcome]
         /\ \A v \in Workers : v # w => outcome'[v] = outcome[v]
         /\ label = "save" => outcome'[w] \in Verdict
    <2>1. Verdict \cup {"raised"} \subseteq Outcome
      BY DEF Verdict, Outcome
    <2> QED
      BY <1>1, <1>6, <1>12, <2>1, DecideTyped
  <1> QED
    BY <1>2, <1>3, <1>4, <1>6, <1>8, <1>9, <1>10, <1>11, <1>13, WorkerTyped

LEMMA TypeStep == LType /\ [Next]_vars => LType'
  <1> SUFFICES ASSUME LType, [Next]_vars PROVE LType'
    OBVIOUS
  <1>1. CASE UNCHANGED vars
    BY <1>1 DEF LType, TypeOK, Asked, Sent, Decided, vars, catalogs
  <1>2. ASSUME NEW c \in Clients, \E o \in Ops : Request(c, o) \/ Retry(c, o)
        PROVE  LType'
    BY <1>2, BeginTyped
  <1>3. ASSUME NEW c \in Clients, ClientStep(c) \/ LoseRequest(c)
        PROVE  LType'
    BY <1>3, ClientStepTyped
  <1>4. ASSUME NEW w \in Workers, WorkerStep(w) \/ LoseWorker(w)
        PROVE  LType'
    BY <1>4, TakeTyped, TaskStepTyped, WorkStepTyped DEF WorkerStep, WorkStep
  <1> QED
    BY <1>1, <1>2, <1>3, <1>4 DEF Next

\* Every variable keeps its type, with any number of operations, requests, workers,
\* retries and faults; no task is sent again more often than max_retries.
THEOREM LifecycleTypes == Spec => []TypeOK
  <1>1. LType => TypeOK
    BY DEF LType
  <1> QED
    BY <1>1, TypeInit, TypeStep, PTL DEF Spec

-----------------------------------------------------------------------------
(* An operation is carried out by one worker at a time: the claim is the     *)
(* task's, so that it protects as long as a task is in one place             *)

Running(w) == pc[w] \notin {"idle", "acknowledge"}

\* A task that a worker runs is neither waiting nor run by another, and one that
\* waits does so once.
OnePlace ==
    /\ \A m, n \in waiting : m[1] = n[1] => m = n
    /\ \A v \in Workers : Running(v) =>
           /\ \A m \in waiting : m[1] # task[v]
           /\ \A w \in Workers : Running(w) /\ task[w] = task[v] => w = v

\* A worker on an operation holds its claim.
Holds == \A w \in Workers : pc[w] \in Claimed => claim[OpOf(w)] = task[w]

Exclusive == faults["resent"] = 0 => OnePlace /\ Holds

LEMMA ExclusiveIsOneExecution ==
    Exclusive => OneExecution
  <1>1. \A w \in Workers : pc[w] \in Claimed => Running(w)
    BY DEF Claimed, Running
  <1> QED
    BY <1>1 DEF Exclusive, OnePlace, Holds, OneExecution

\* A client's step: its task cannot be under way before it is sent.
LEMMA ClientExclusive ==
    ASSUME LType, Exclusive, NEW c \in Clients,
           (\E o \in Ops : Request(c, o) \/ Retry(c, o)) \/ ClientStep(c) \/ LoseRequest(c)
    PROVE  Exclusive'
  <1>1. TypeOK /\ c \in Actors /\ c \notin Workers
    BY ActorsAssumption DEF LType, Actors
  <1>2. UNCHANGED <<claim, task>>
    BY DEF Request, Retry, ClientStep, LoseRequest, Create, Blocking, BlockDocument,
           BlockChunks, SaveBlocked, RetryRead, RetryWrite, Dispatch, DispatchFailed
  <1>3. /\ \/ waiting' = waiting
           \/ (waiting' = waiting \cup {<<c, 0>>} /\ pc[c] = "dispatch")
        /\ \/ op' = op
           \/ (pc[c] = "idle" /\ \E o \in Ops : op' = [op EXCEPT ![c] = o])
    <2>1. CASE \E o \in Ops : Request(c, o) \/ Retry(c, o)
      BY <2>1 DEF Request, Retry
    <2>2. CASE Dispatch(c)
      BY <2>2 DEF Dispatch
    <2>3. CASE (ClientStep(c) \/ LoseRequest(c)) /\ ~Dispatch(c)
      BY <2>3 DEF ClientStep, LoseRequest, Create, Blocking, BlockDocument, BlockChunks,
                  SaveBlocked, RetryRead, RetryWrite, DispatchFailed
    <2> QED
      BY <2>1, <2>2, <2>3 DEF ClientStep
  <1>4. \A w \in Workers : pc'[w] = pc[w]
    <2>1. \E label : Goto(c, label)
      BY DEF Request, Retry, ClientStep, LoseRequest, Create, Blocking, BlockDocument,
             BlockChunks, SaveBlocked, RetryRead, RetryWrite, Dispatch, DispatchFailed,
             Returns, Raises
    <2> QED
      BY <1>1, <2>1 DEF Goto, TypeOK, Actors
  <1>5. faults'["resent"] = 0 => faults["resent"] = 0
    <2>1. UNCHANGED faults \/ \E kind \in {"catalog", "broker", "request"} : Fault(kind)
      BY DEF Request, Retry, ClientStep, LoseRequest, Create, Blocking, BlockDocument,
             BlockChunks, SaveBlocked, RetryRead, RetryWrite, Dispatch, DispatchFailed,
             Returns, Raises
    <2>2. {"catalog", "broker", "request"} \subseteq Kinds
      BY DEF Kinds
    <2> QED
      BY <1>1, <2>1, <2>2, FaultTyped
  <1>6. \A w \in Workers : Running(w)' = Running(w) /\ (Running(w) => pc[w] # "idle")
    BY <1>4 DEF Running
  <1>7. ASSUME OnePlace PROVE OnePlace'
    <2>1. CASE waiting' = waiting
      BY <1>2, <1>6, <1>7, <2>1 DEF OnePlace
    <2>2. CASE waiting' = waiting \cup {<<c, 0>>} /\ pc[c] = "dispatch"
      <3>1. \A m \in waiting : m[1] # c
        BY <2>2 DEF LType, Sent
      <3>2. \A w \in Workers : Running(w) => task[w] # c
        BY <1>6, <2>2 DEF LType, Sent
      <3> QED
        BY <1>2, <1>6, <1>7, <2>2, <3>1, <3>2 DEF OnePlace
    <2> QED
      BY <1>3, <2>1, <2>2
  <1>8. ASSUME Holds PROVE Holds'
    <2>1. ASSUME NEW w \in Workers, pc[w] \in Claimed
          PROVE  OpOf(w)' = OpOf(w)
      <3>1. pc[w] # "idle"
        BY <2>1 DEF Claimed
      <3>2. task[w] \in Clients /\ pc[task[w]] # "idle"
        BY <3>1, OpOfTyped
      <3> QED
        BY <1>1, <1>2, <1>3, <3>2 DEF OpOf, TypeOK
    <2> QED
      BY <1>2, <1>4, <1>8, <2>1 DEF Holds
  <1> QED
    BY <1>5, <1>7, <1>8 DEF Exclusive

\* A worker's step that leaves tasks and claims alone, and takes nothing up.
LEMMA WorkerExclusive ==
    ASSUME LType, Exclusive, NEW w \in Workers, pc[w] # "idle",
           NEW label \in WorkerPC, Moves(w, label),
           label \in Claimed => pc[w] \in Claimed,
           pc[w] = "acknowledge" => label = "idle",
           UNCHANGED <<claim, waiting, op, task>>
    PROVE  Exclusive'
  <1>1. TypeOK /\ w \in Actors /\ label \in ClientPC \cup WorkerPC
    BY DEF LType, Actors
  <1>2. pc'[w] = label /\ \A v \in Workers : v # w => pc'[v] = pc[v]
    BY <1>1, GotoTyped DEF Moves, Actors
  <1>3. \A v \in Workers : Running(v)' => Running(v)
    BY <1>2 DEF Running
  <1>4. OnePlace => OnePlace'
    BY <1>3 DEF OnePlace
  <1>5. Holds => Holds'
    BY <1>2 DEF Holds, OpOf
  <1> QED
    BY <1>4, <1>5 DEF Exclusive, Moves

LEMMA TakeExclusive ==
    ASSUME LType, Exclusive, NEW w \in Workers, NEW m \in waiting, Take(w, m)
    PROVE  Exclusive'
  <1>1. TypeOK /\ w \in Actors /\ "read" \in ClientPC \cup WorkerPC
    BY DEF LType, Actors, WorkerPC
  <1>2. pc'[w] = "read" /\ \A v \in Workers : v # w => pc'[v] = pc[v]
    BY <1>1, GotoTyped DEF Take, Actors
  <1>3. /\ pc[w] = "idle"
        /\ waiting' = waiting \ {m}
        /\ UNCHANGED <<claim, op, faults>>
    BY DEF Take
  <1>4. task'[w] = m[1] /\ \A v \in Workers : v # w => task'[v] = task[v]
    BY <1>1 DEF Take, TypeOK
  <1>5. ASSUME OnePlace PROVE OnePlace'
    <2>1. \A n \in waiting' : n \in waiting /\ n[1] # m[1]
      BY <1>3, <1>5 DEF OnePlace
    <2>2. \A v \in Workers : v # w /\ Running(v) => task[v] # m[1]
      BY <1>5 DEF OnePlace
    <2>3. \A v \in Workers : v # w => Running(v)' = Running(v)
      BY <1>2 DEF Running
    <2> QED
      BY <1>4, <1>5, <2>1, <2>2, <2>3 DEF OnePlace
  <1>6. ASSUME Holds PROVE Holds'
    <2>1. "read" \notin Claimed
      BY DEF Claimed
    <2> QED
      BY <1>2, <1>3, <1>4, <1>6, <2>1 DEF Holds, OpOf
  <1> QED
    BY <1>3, <1>5, <1>6 DEF Exclusive

\* The claim is only taken from no one, and only given up by the task that has it.
LEMMA ClaimExclusive ==
    ASSUME LType, Exclusive, NEW w \in Workers, Claim(w) \/ Release(w)
    PROVE  Exclusive'
  <1>1. TypeOK /\ w \in Actors
    BY DEF LType, Actors
  <1>k. "catalog" \in Kinds
    BY DEF Kinds
  <1>l. {"idle", "reread", "current", "retry_read"} \subseteq ClientPC \cup WorkerPC
    BY DEF WorkerPC, Claimed
  <1>2. /\ Running(w) /\ pc[w] # "idle"
        /\ UNCHANGED <<waiting, op, task>>
    BY DEF Claim, Release, Running
  <1>3. task[w] \in Clients /\ OpOf(w) \in Ops
    BY <1>2, OpOfTyped
  <1>4. PICK label \in {"idle", "reread", "current", "retry_read"} :
           Moves(w, label) /\ (label = "reread" => claim'[OpOf(w)] = task[w])
    <2>1. CASE Claim(w)
      <3>1. CASE claim' = [claim EXCEPT ![OpOf(w)] = task[w]]
        <4>1. claim'[OpOf(w)] = task[w]
          BY <1>1, <1>3, <3>1 DEF TypeOK
        <4> QED
          BY <1>1, <1>k, <2>1, <4>1, ReturnsMoves DEF Claim
      <3>2. CASE Returns(w, "current") \/ Raises("catalog", w, "idle")
        BY <1>1, <1>k, <3>2, ReturnsMoves
      <3> QED
        BY <2>1, <3>1, <3>2 DEF Claim
    <2>2. CASE Release(w)
      BY <1>1, <1>k, <2>2, ReturnsMoves DEF Release
    <2> QED
      BY <2>1, <2>2
  <1>5. pc'[w] = label /\ \A v \in Workers : v # w => pc'[v] = pc[v]
    BY <1>1, <1>l, <1>4, GotoTyped DEF Moves, Actors
  <1>6. ASSUME OnePlace PROVE OnePlace'
    <2>1. \A v \in Workers : Running(v)' => Running(v)
      BY <1>2, <1>5 DEF Running
    <2> QED
      BY <1>2, <1>6, <2>1 DEF OnePlace
  <1>7. ASSUME OnePlace, Holds, NEW v \in Workers, pc'[v] \in Claimed
        PROVE  claim'[OpOf(v)] = task[v]
    <2>1. CASE v = w
      <3>1. label = "reread"
        BY <1>5, <1>7, <2>1 DEF Claimed
      <3> QED
        BY <1>4, <2>1, <3>1
    <2>2. CASE v # w
      <3>1. pc[v] \in Claimed /\ claim[OpOf(v)] = task[v]
        BY <1>5, <1>7, <2>2 DEF Holds
      <3>2. Running(v) /\ pc[v] # "idle"
        BY <3>1 DEF Claimed, Running
      <3>3. task[v] # task[w] /\ task[v] # None /\ OpOf(v) \in Ops
        BY <1>2, <1>7, <2>2, <3>2, OpOfTyped, ActorsAssumption DEF OnePlace
      <3>4. CASE Claim(w)
        <4>1. OpOf(w) = OpOf(v) => UNCHANGED claim
          BY <3>1, <3>3, <3>4 DEF Claim, MayClaim
        <4> QED
          BY <1>1, <1>3, <3>1, <3>3, <3>4, <4>1 DEF Claim, TypeOK
      <3>5. CASE Release(w)
        BY <1>1, <1>3, <3>1, <3>3, <3>5 DEF Release, Released, TypeOK
      <3> QED
        BY <3>4, <3>5
    <2> QED
      BY <2>1, <2>2
  <1>8. ASSUME OnePlace, Holds PROVE Holds'
    BY <1>2, <1>7, <1>8 DEF Holds, OpOf
  <1> QED
    BY <1>4, <1>6, <1>8 DEF Exclusive, Moves

\* A task goes back to the queue: sent again, or delivered again.
LEMMA BackExclusive ==
    ASSUME LType, Exclusive, NEW w \in Workers,
           (Resend(w) /\ pc[w] = "resend") \/ LoseWorker(w)
    PROVE  Exclusive'
  <1> SUFFICES ASSUME faults'["resent"] = 0
               PROVE  OnePlace' /\ Holds'
    BY DEF Exclusive
  <1>1. TypeOK /\ w \in Actors
    BY DEF LType, Actors
  <1>k. {"worker", "resent"} \subseteq Kinds
    BY DEF Kinds
  <1>l. {"idle", "acknowledge"} \subseteq ClientPC \cup WorkerPC
    BY DEF WorkerPC
  <1>2. PICK label \in {"idle", "acknowledge"} : Moves(w, label)
    BY <1>1, <1>k, StaysMoves, ReturnsMoves DEF Resend, LoseWorker
  <1>3. OnePlace /\ Holds
    BY <1>2 DEF Moves, Exclusive
  <1>4. Running(w)
    <2>1. CASE LoseWorker(w)
      <3>1. pc[w] = "acknowledge" => Raises("resent", w, "idle")
        BY <2>1 DEF LoseWorker
      <3>2. pc[w] = "acknowledge" => faults'["resent"] = faults["resent"] + 1
        BY <1>1, <1>k, <3>1 DEF Raises, Fault, TypeOK
      <3>3. faults["resent"] \in Nat
        BY <1>1, <1>k DEF TypeOK
      <3>4. pc[w] # "acknowledge"
        BY <3>2, <3>3
      <3> QED
        BY <2>1, <3>4 DEF LoseWorker, Running
    <2>2. CASE pc[w] = "resend"
      BY <2>2 DEF Running
    <2> QED
      BY <2>1, <2>2
  <1>5. pc'[w] = label /\ \A v \in Workers : v # w => pc'[v] = pc[v]
    BY <1>1, <1>2, <1>l, GotoTyped DEF Moves, Actors
  <1>6. \A v \in Workers : Running(v)' => v # w /\ Running(v)
    BY <1>5 DEF Running
  <1>7. PICK n : waiting' = waiting \cup {<<task[w], n>>}
    BY DEF Resend, LoseWorker
  <1>8. UNCHANGED <<claim, op, task>>
    BY DEF Resend, LoseWorker
  <1>9. OnePlace'
    <2>1. \A m \in waiting : m[1] # task[w]
      BY <1>3, <1>4 DEF OnePlace
    <2>2. \A v \in Workers : Running(v)' => task[v] # task[w]
      BY <1>3, <1>4, <1>6 DEF OnePlace
    <2> QED
      BY <1>3, <1>6, <1>7, <1>8, <2>1, <2>2 DEF OnePlace
  <1>10. Holds'
    <2>1. \A v \in Workers : pc'[v] \in Claimed => pc[v] \in Claimed
      BY <1>5 DEF Claimed
    <2> QED
      BY <1>3, <1>8, <2>1 DEF Holds, OpOf
  <1> QED
    BY <1>9, <1>10

LEMMA WorkerStepExclusive ==
    ASSUME LType, Exclusive, NEW w \in Workers, WorkerStep(w) \/ LoseWorker(w)
    PROVE  Exclusive'
  <1>1. TypeOK
    BY DEF LType
  <1>l. {"idle", "claim", "release", "bundle", "retry_read", "retry_write",
         "resend"} \subseteq WorkerPC
    BY DEF WorkerPC, Claimed
  <1>c. /\ {"reread", "release", "bundle"} \subseteq Claimed
        /\ {"idle", "claim", "retry_read", "retry_write", "resend"} \cap Claimed = {}
    BY DEF Claimed
  <1>2. CASE Read(w)
    <2>1. PICK label \in {"idle", "claim", "release", "bundle"} :
             /\ Moves(w, label)
             /\ label \in {"release", "bundle"} => pc[w] = "reread"
      BY <1>1, <1>2, StaysMoves DEF Read
    <2>2. pc[w] \in {"read", "reread"} /\ UNCHANGED <<claim, waiting, op, task>>
      BY <1>2 DEF Read
    <2> QED
      BY <1>l, <1>c, <2>1, <2>2, WorkerExclusive
  <1>3. CASE Current(w)
    <2>1. PICK label \in {"idle", "retry_read"} : Moves(w, label)
      BY <1>1, <1>3, StaysMoves DEF Current
    <2>2. pc[w] = "current" /\ UNCHANGED <<claim, waiting, op, task>>
      BY <1>3 DEF Current
    <2> QED
      BY <1>l, <1>c, <2>1, <2>2, WorkerExclusive
  <1>4. CASE Resend(w) /\ pc[w] # "resend"
    <2>1. PICK label \in {"retry_write", "resend", "idle"} :
             Moves(w, label) /\ (pc[w] = "acknowledge" => label = "idle")
      BY <1>1, <1>4, StaysMoves DEF Resend
    <2>2. pc[w] # "idle" /\ UNCHANGED <<claim, waiting, op, task>>
      BY <1>4 DEF Resend
    <2> QED
      BY <1>l, <1>c, <2>1, <2>2, WorkerExclusive
  <1>5. CASE Breaks(w)
    <2>1. "catalog" \in Kinds
      BY DEF Kinds
    <2>2. Moves(w, "idle") /\ pc[w] # "idle" /\ UNCHANGED <<claim, waiting, op, task>>
      BY <1>1, <1>5, <2>1, ReturnsMoves DEF Breaks
    <2> QED
      BY <1>l, <1>c, <2>2, WorkerExclusive
  <1>6. CASE WorkStep(w)
    <2>1. pc[w] \in Claimed /\ UNCHANGED <<claim, waiting, op, task>>
      BY <1>1, <1>6, WorkMoves
    <2>2. PICK label \in Claimed : Moves(w, label)
      BY <1>1, <1>6, WorkMoves
    <2>3. label \in WorkerPC /\ pc[w] # "idle" /\ pc[w] # "acknowledge"
      BY <2>1 DEF WorkerPC, Claimed
    <2> QED
      BY <2>1, <2>2, <2>3, WorkerExclusive
  <1> QED
    BY <1>2, <1>3, <1>4, <1>5, <1>6, TakeExclusive, ClaimExclusive, BackExclusive
       DEF WorkerStep, WorkStep

LEMMA ExclusiveStep ==
    LType /\ Exclusive /\ [Next]_vars => Exclusive'
  <1> SUFFICES ASSUME LType, Exclusive, [Next]_vars PROVE Exclusive'
    OBVIOUS
  <1>1. CASE UNCHANGED vars
    BY <1>1 DEF Exclusive, OnePlace, Holds, Running, OpOf, vars, catalogs
  <1>2. CASE Next
    BY <1>2, ClientExclusive, WorkerStepExclusive DEF Next
  <1> QED
    BY <1>1, <1>2

\* No two workers ever carry out one operation at a time, however many workers and
\* requests there are, whatever fails and whichever worker is lost, as long as none
\* is between sending its task again and acknowledging its message.
THEOREM OperationsAreExclusive == Spec => []OneExecution
  <1>1. Init => Exclusive
    <2>1. "idle" \notin Claimed /\ Workers \subseteq Actors
      BY DEF Claimed, Actors
    <2> QED
      BY <2>1 DEF Init, Exclusive, OnePlace, Holds, Running
  <1> QED
    BY <1>1, TypeInit, TypeStep, ExclusiveStep, ExclusiveIsOneExecution, PTL DEF Spec

-----------------------------------------------------------------------------
(* With one worker, what is recorded of an operation is so                  *)

\* A client that has not begun has no operation.
Fresh == \A c \in Clients : pc[c] = "idle" => op[c] = None

\* A withdrawal is recorded by a task of it, so that some client has sent that task.
Ran ==
    \A o \in Ops : status[o] = "withdrawn" =>
        \E c \in Clients : op[c] = o /\ pc[c] \in {"done", "dispatch_failed"}

\* A client that blocks the revision does so for a withdrawal that is recorded.
Blocks ==
    \A c \in Clients : pc[c] \in {"blocking", "block_document", "block_chunks"} =>
        ActionOf[op[c]] = "withdraw" /\ status[op[c]] # "absent"

Ends(w, s) == pc[w] = "save" /\ outcome[w] = s

\* What a worker alone knows of the revision at each call: a withdrawal deletes rows
\* under a blocked document; a restoration has published what it has passed,
\* unless a withdrawal blocks it under its hands.
Course(w) ==
    /\ pc[w] \in {"delete_rows", "verify_rows"} /\ ActionOf[OpOf(w)] = "withdraw"
           => document = "withdrawn"
    /\ pc[w] \in {"save_indexing", "stage_rows", "publish_document", "publish_chunks",
                  "publish_rows", "reblock_document", "reblock_chunks"}
           => ActionOf[OpOf(w)] = "restore"
    /\ Ends(w, "withdrawn") => document = "withdrawn" /\ rows = "absent"
    /\ Ends(w, "restored") => ActionOf[OpOf(w)] = "restore" /\ rows = "published"
    /\ pc[w] \in {"publish_chunks", "publish_rows"} \/ Ends(w, "restored")
           => document = "published" \/ Withdrawing
    /\ pc[w] = "publish_rows" \/ Ends(w, "restored")
           => chunks = "published" \/ Withdrawing

Courses == Alone => \A w \in Workers : Course(w)

RecordInv == Fresh /\ Ran /\ Blocks /\ Courses

\* A client that blocks the revision is a withdrawal under way: if its operation has
\* been carried out already, it was another client's task that did it.
LEMMA BlocksWithdrawing ==
    ASSUME LType, Ran, Blocks, NEW c \in Clients,
           pc[c] \in {"blocking", "block_document", "block_chunks"}
    PROVE  Withdrawing
  <1>1. op[c] \in Ops /\ ActionOf[op[c]] = "withdraw" /\ status[op[c]] # "absent"
    BY DEF LType, Asked, Blocks
  <1>2. CASE status[op[c]] = "withdrawn"
    <2>1. PICK d \in Clients : op[d] = op[c] /\ pc[d] \in {"done", "dispatch_failed"}
      BY <1>1, <1>2 DEF Ran
    <2>2. c # d
      BY <2>1
    <2>3. AskedTwice(op[c])
      BY <2>1, <2>2 DEF AskedTwice
    <2> QED
      BY <1>1, <2>3 DEF Withdrawing
  <1>3. CASE status[op[c]] # "withdrawn"
    BY <1>1, <1>3 DEF Withdrawing
  <1> QED
    BY <1>2, <1>3

\* A withdrawal stays under way as long as no withdrawal ends or begins anew.
LEMMA StillWithdrawing ==
    ASSUME Withdrawing,
           \A c \in Clients : op[c] \in Ops => op'[c] = op[c],
           \A o \in Ops : ActionOf[o] = "withdraw" /\ status'[o] \in {"absent", "withdrawn"}
                              => status[o] \in {"absent", "withdrawn"}
    PROVE  Withdrawing'
  <1>1. PICK o \in Ops :
           ActionOf[o] = "withdraw" /\ (status[o] \notin {"absent", "withdrawn"} \/ AskedTwice(o))
    BY DEF Withdrawing
  <1>2. AskedTwice(o) => AskedTwice(o)'
    BY <1>1 DEF AskedTwice
  <1>3. status[o] \notin {"absent", "withdrawn"} => status'[o] \notin {"absent", "withdrawn"}
    BY <1>1
  <1> QED
    BY <1>1, <1>2, <1>3 DEF Withdrawing

\* What a client does, seen by the workers: it blocks, for a withdrawal, and
\* records of no operation that it has ended well.
LEMMA ClientWrites ==
    ASSUME LType, NEW c \in Clients,
           (\E o \in Ops : Request(c, o) \/ Retry(c, o)) \/ ClientStep(c) \/ LoseRequest(c)
    PROVE  /\ \E label \in ClientPC \ {"idle"} : Goto(c, label)
           /\ UNCHANGED <<rows, task, outcome>>
           /\ pc[c] # "done"
           /\ pc[c] = "dispatch_failed" => pc'[c] = "done"
           /\ document' # document => document' = "withdrawn" /\ pc[c] = "block_document"
           /\ chunks' # chunks => chunks' = "withdrawn" /\ pc[c] = "block_chunks"
           /\ \/ UNCHANGED status
              \/ /\ pc[c] # "idle"
                 /\ \E s \in Status \ {"absent", "withdrawn", "restored"} : SetStatus(op[c], s)
           /\ \/ UNCHANGED op
              \/ pc[c] = "idle" /\ \E o \in Ops : op' = [op EXCEPT ![c] = o]
           /\ pc'[c] \in {"blocking", "block_document", "block_chunks"} =>
                 /\ pc[c] \in {"create", "blocking", "block_document"}
                 /\ UNCHANGED op
                 /\ pc[c] = "create" => ActionOf[op[c]] = "withdraw" /\ ~UNCHANGED status
  <1>1. TypeOK /\ c \in Actors
    BY DEF LType, Actors
  <1>p. \A label : Goto(c, label) => pc'[c] = label
    BY <1>1 DEF Goto, TypeOK
  <1>s. {"requested", "restore_validating", "blocking", "vector_cleanup", "failed",
         "compensation_required"} \subseteq Status \ {"absent", "withdrawn", "restored"}
    BY DEF Status, Terminal
  <1>l. {"create", "blocking", "block_document", "block_chunks", "save_failed",
         "save_cleanup", "retry_read", "retry_write", "dispatch", "dispatch_failed",
         "done"} \subseteq ClientPC \ {"idle"}
    BY DEF ClientPC
  <1>2. ASSUME NEW o \in Ops, Request(c, o)
        PROVE  \E label \in {"dispatch", "create", "done"} : Goto(c, label)
    <2>1. RequestWithdrawal(o) \in {"dispatch", "create", "done"}
      BY DEF RequestWithdrawal
    <2>2. RequestRestore(o) \in {"dispatch", "create", "done"}
      BY DEF RequestRestore
    <2> QED
      BY <1>2, <2>1, <2>2 DEF Request
  <1>3. CASE \E o \in Ops : Request(c, o)
    BY <1>2, <1>3, <1>l, <1>p DEF Request, catalogs
  <1>4. CASE \E o \in Ops : Retry(c, o)
    BY <1>4, <1>l, <1>p DEF Retry, catalogs
  <1>5. CASE Create(c)
    <2>1. SetStatus(op[c], "requested") /\ status[op[c]] = "absent" => ~UNCHANGED status
      <3>1. op[c] \in Ops
        BY <1>5 DEF Create, LType, Asked
      <3> QED
        BY <1>1, <3>1 DEF SetStatus, TypeOK
    <2> QED
      BY <1>5, <1>l, <1>p, <1>s, <2>1 DEF Create, catalogs
  <1>6. CASE Blocking(c)
    BY <1>6, <1>l, <1>p, <1>s DEF Blocking, catalogs
  <1>7. CASE BlockDocument(c)
    BY <1>7, <1>l, <1>p DEF BlockDocument, Returns, Raises
  <1>8. CASE BlockChunks(c)
    BY <1>8, <1>l, <1>p DEF BlockChunks, Returns, Raises
  <1>9. CASE SaveBlocked(c)
    BY <1>9, <1>l, <1>p, <1>s DEF SaveBlocked, catalogs
  <1>10. CASE RetryRead(c)
    <2>1. PICK label \in {"retry_write", "done", "dispatch"} : Goto(c, label)
      <3>1. CASE status[op[c]] \in {"compensation_required", "failed"}
        BY <1>10, <3>1 DEF RetryRead
      <3>2. CASE status[op[c]] \in {"withdrawn", "restored"}
        BY <1>10, <3>2 DEF RetryRead
      <3>3. CASE status[op[c]] \notin {"compensation_required", "failed", "withdrawn", "restored"}
        BY <1>10, <3>3 DEF RetryRead
      <3> QED
        BY <3>1, <3>2, <3>3
    <2> QED
      BY <1>10, <1>l, <1>p, <2>1 DEF RetryRead, catalogs
  <1>11. CASE RetryWrite(c)
    <2>1. Restart(op[c]) \in {"vector_cleanup", "restore_validating"}
      BY DEF Restart
    <2> QED
      BY <1>11, <1>l, <1>p, <1>s, <2>1 DEF RetryWrite, catalogs
  <1>12. CASE Dispatch(c)
    BY <1>12, <1>l, <1>p DEF Dispatch, Returns, Raises, catalogs
  <1>13. CASE DispatchFailed(c)
    BY <1>13, <1>l, <1>p, <1>s DEF DispatchFailed, catalogs
  <1>14. CASE LoseRequest(c)
    BY <1>14, <1>l, <1>p DEF LoseRequest, Returns, Raises, catalogs
  <1> QED
    BY <1>3, <1>4, <1>5, <1>6, <1>7, <1>8, <1>9, <1>10, <1>11, <1>12, <1>13, <1>14
       DEF ClientStep

LEMMA ClientRecords ==
    ASSUME LType, RecordInv, NEW c \in Clients,
           (\E o \in Ops : Request(c, o) \/ Retry(c, o)) \/ ClientStep(c) \/ LoseRequest(c)
    PROVE  RecordInv'
  <1>1. TypeOK /\ c \in Actors /\ c \notin Workers
    BY ActorsAssumption DEF LType, Actors
  <1>2. PICK label \in ClientPC \ {"idle"} : Goto(c, label)
    BY ClientWrites
  <1>3. pc'[c] = label /\ \A x \in Actors : x # c => pc'[x] = pc[x]
    BY <1>1, <1>2, GotoTyped
  <1>4. \A w \in Workers : pc'[w] = pc[w]
    BY <1>1, <1>3 DEF Actors
  <1>5. UNCHANGED <<rows, task, outcome>>
    BY ClientWrites
  <1>6. \A d \in Clients : op[d] \in Ops => op'[d] = op[d]
    <2>1. pc[c] = "idle" => op[c] \notin Ops
      BY ActorsAssumption DEF RecordInv, Fresh
    <2> QED
      BY <1>1, <2>1, ClientWrites DEF TypeOK
  <1>7. \A d \in Clients : pc[d] # "idle" => op[d] \in Ops /\ op'[d] = op[d]
    BY <1>6 DEF LType, Asked
  <1>8. \A d \in Clients : pc[d] \in {"done", "dispatch_failed"} =>
                               pc'[d] \in {"done", "dispatch_failed"}
    BY <1>3, ClientWrites DEF Actors
  <1>9. /\ status' \in [Ops -> Status] /\ status \in [Ops -> Status]
        /\ \A o \in Ops : status'[o] = status[o]
                          \/ status'[o] \notin {"absent", "withdrawn", "restored"}
    <2>1. CASE UNCHANGED status
      BY <1>1, <2>1 DEF TypeOK
    <2>2. CASE pc[c] # "idle" /\
               \E s \in Status \ {"absent", "withdrawn", "restored"} : SetStatus(op[c], s)
      BY <1>1, <1>7, <2>2 DEF TypeOK, SetStatus
    <2> QED
      BY <2>1, <2>2, ClientWrites
  <1>10. Fresh'
    <2>1. ASSUME NEW d \in Clients, pc'[d] = "idle" PROVE op'[d] = None
      <3>1. d # c /\ pc[d] = "idle" /\ op[d] = None
        BY <1>3, <2>1 DEF RecordInv, Fresh, Actors
      <3> QED
        BY <1>1, <3>1, ClientWrites DEF TypeOK
    <2> QED
      BY <2>1 DEF Fresh
  <1>11. Ran'
    <2>1. ASSUME NEW o \in Ops, status'[o] = "withdrawn"
          PROVE  \E d \in Clients : op'[d] = o /\ pc'[d] \in {"done", "dispatch_failed"}
      <3>1. status[o] = "withdrawn"
        BY <1>9, <2>1
      <3>2. PICK d \in Clients : op[d] = o /\ pc[d] \in {"done", "dispatch_failed"}
        BY <3>1 DEF RecordInv, Ran
      <3> QED
        BY <1>6, <1>8, <3>2
    <2> QED
      BY <2>1 DEF Ran
  <1>12. Blocks'
    <2>1. ASSUME NEW d \in Clients,
                 pc'[d] \in {"blocking", "block_document", "block_chunks"}
          PROVE  ActionOf[op'[d]] = "withdraw" /\ status'[op'[d]] # "absent"
      <3>1. CASE d # c
        <4>1. pc[d] = pc'[d]
          BY <1>3, <3>1 DEF Actors
        <4>2. op[d] \in Ops /\ op'[d] = op[d]
          BY <1>7, <2>1, <4>1
        <4> QED
          BY <1>9, <2>1, <4>1, <4>2 DEF RecordInv, Blocks
      <3>2. CASE d = c /\ pc[c] # "create"
        <4>1. pc[c] \in {"blocking", "block_document"} /\ op' = op
          BY <2>1, <3>2, ClientWrites
        <4>2. op[c] \in Ops
          BY <1>7, <4>1
        <4> QED
          BY <1>9, <3>2, <4>1, <4>2 DEF RecordInv, Blocks
      <3>3. CASE d = c /\ pc[c] = "create"
        <4>1. op' = op /\ ActionOf[op[c]] = "withdraw" /\ status' # status
          BY <2>1, <3>3, ClientWrites
        <4>2. PICK s \in Status \ {"absent", "withdrawn", "restored"} : SetStatus(op[c], s)
          BY <4>1, ClientWrites
        <4>3. op[c] \in Ops
          BY <1>7, <3>3
        <4> QED
          BY <1>9, <3>3, <4>1, <4>2, <4>3 DEF SetStatus
      <3> QED
        BY <3>1, <3>2, <3>3
    <2> QED
      BY <2>1 DEF Blocks
  <1>13. Withdrawing => Withdrawing'
    <2>1. \A o \in Ops : status'[o] \in {"absent", "withdrawn"} =>
                             status[o] \in {"absent", "withdrawn"}
      BY <1>9
    <2> QED
      BY <1>6, <2>1, StillWithdrawing
  <1>14. pc[c] \in {"block_document", "block_chunks"} => Withdrawing'
    BY <1>13, BlocksWithdrawing DEF RecordInv
  <1>15. ASSUME Alone', NEW w \in Workers PROVE Course(w)'
    <2>1. Course(w)
      BY <1>5, <1>15 DEF RecordInv, Courses, Alone
    <2>2. pc'[w] = pc[w] /\ (Ends(w, "withdrawn")' <=> Ends(w, "withdrawn"))
          /\ (Ends(w, "restored")' <=> Ends(w, "restored"))
      BY <1>4, <1>5 DEF Ends
    <2>3. pc[w] # "idle" => OpOf(w)' = OpOf(w)
      <3>1. pc[w] # "idle" => task[w] \in Clients /\ pc[task[w]] # "idle"
        BY OpOfTyped
      <3> QED
        BY <1>5, <1>7, <3>1 DEF OpOf
    <2>4. document' = document \/ (document' = "withdrawn" /\ Withdrawing')
      BY <1>14, ClientWrites
    <2>5. chunks' = chunks \/ (chunks' = "withdrawn" /\ Withdrawing')
      BY <1>14, ClientWrites
    <2>6. Ends(w, "withdrawn") \/ Ends(w, "restored") => pc[w] # "idle"
      BY DEF Ends
    <2> QED
      BY <1>5, <1>13, <2>1, <2>2, <2>3, <2>4, <2>5, <2>6 DEF Course
  <1>16. Courses'
    BY <1>15 DEF Courses
  <1> QED
    BY <1>10, <1>11, <1>12, <1>16 DEF RecordInv

\* The calls at which a worker knows nothing of the revision.
LEMMA QuietCourse ==
    ASSUME NEW w \in Workers,
           pc'[w] \in {"idle", "read", "claim", "release", "reread", "bundle", "current",
                       "retry_read", "retry_write", "resend", "acknowledge"}
    PROVE  Course(w)'
  BY DEF Course, Ends

\* What a worker records of operations, and that it leaves the clients alone.
LEMMA WorkerWrites ==
    ASSUME LType, NEW w \in Workers, WorkerStep(w) \/ LoseWorker(w)
    PROVE  /\ \E label \in WorkerPC : Goto(w, label)
           /\ UNCHANGED op
           /\ \/ UNCHANGED status
              \/ /\ pc[w] # "idle"
                 /\ \E s \in Status \ {"absent"} :
                       /\ SetStatus(OpOf(w), s)
                       /\ s \in {"withdrawn", "restored"} =>
                             Ends(w, s) /\ UNCHANGED <<catalogs, rows>>
           /\ \/ UNCHANGED task /\ pc[w] # "idle"
              \/ \E m \in waiting : task' = [task EXCEPT ![w] = m[1]]
  <1>1. TypeOK
    BY DEF LType
  <1>l. {"idle", "read", "claim", "release", "reread", "bundle", "current", "retry_read",
         "retry_write", "resend", "acknowledge"} \cup Claimed \subseteq WorkerPC
    BY DEF WorkerPC, Claimed
  <1>2. CASE \E m \in waiting : Take(w, m)
    BY <1>2, <1>l DEF Take
  <1>3. CASE \/ Read(w) \/ Claim(w) \/ Current(w) \/ Release(w) \/ Breaks(w) \/ LoseWorker(w)
    <2>1. \E label \in WorkerPC : Goto(w, label)
      BY <1>3, <1>l DEF Read, Claim, Current, Release, Breaks, LoseWorker, Returns, Raises
    <2> QED
      BY <1>3, <2>1 DEF Read, Claim, Current, Release, Breaks, LoseWorker
  <1>4. CASE Resend(w)
    <2>1. Restart(OpOf(w)) \in Status \ {"absent", "withdrawn", "restored"}
      BY DEF Restart, Status, Terminal
    <2> QED
      BY <1>4, <1>l, <2>1 DEF Resend
  <1>5. CASE WorkStep(w)
    <2>1. pc[w] \in Claimed /\ UNCHANGED <<op, task>>
          /\ \E label \in Claimed \ {"reread", "bundle"} : Moves(w, label)
      BY <1>1, <1>5, WorkMoves
    <2>2. pc[w] # "idle" /\ \E label \in WorkerPC : Goto(w, label)
      BY <1>l, <2>1 DEF Claimed, Moves
    <2>3. CASE Save(w)
      <3>1. outcome[w] \in Status \ {"absent"}
        BY <2>3 DEF Save, LType, Decided, Verdict, Terminal, Status
      <3> QED
        BY <2>1, <2>2, <2>3, <3>1 DEF Save, Ends
    <2>4. CASE SaveIndexing(w)
      <3>1. "restore_indexing" \in Status \ {"absent", "withdrawn", "restored"}
        BY DEF Status, Terminal
      <3> QED
        BY <2>1, <2>2, <2>4, <3>1 DEF SaveIndexing
    <2>5. CASE ~Save(w) /\ ~SaveIndexing(w)
      <3>1. UNCHANGED status
        BY <1>5, <2>5 DEF WorkStep, Bundle, StageRows, PublishDocument, PublishChunks,
                          PublishRows, ReblockDocument, ReblockChunks, DeleteRows, VerifyRows,
                          NotApplied
      <3> QED
        BY <2>1, <2>2, <3>1
    <2> QED
      BY <2>3, <2>4, <2>5
  <1> QED
    BY <1>2, <1>3, <1>4, <1>5 DEF WorkerStep, WorkStep

\* Each call of an operation leaves to the next what that one relies on.
LEMMA WorkCourse ==
    ASSUME LType, NEW w \in Workers, Course(w), WorkStep(w)
    PROVE  Course(w)'
  <1>1. TypeOK /\ w \in Actors
    BY DEF LType, Actors
  <1>2. pc[w] \in Claimed /\ UNCHANGED <<op, task>>
    BY <1>1, WorkMoves
  <1>3. pc[w] # "idle" /\ OpOf(w)' = OpOf(w)
    BY <1>2 DEF Claimed, OpOf
  <1>4. ActionOf[OpOf(w)] \in {"withdraw", "restore"}
    BY <1>3, OpOfTyped, OpsAssumption
  <1>p. \A label : Goto(w, label) => pc'[w] = label
    BY <1>1 DEF Goto, TypeOK
  <1>o. \A s : Decide(w, s) => outcome'[w] = s
    BY <1>1 DEF Decide, TypeOK
  <1>5. UNCHANGED status => (Withdrawing => Withdrawing')
    BY <1>2 DEF Withdrawing, AskedTwice
  <1>6. CASE Bundle(w)
    <2>1. /\ UNCHANGED <<catalogs, rows, status>>
          /\ \/ pc'[w] = "save" /\ outcome'[w] = "failed"
             \/ /\ pc'[w] = "delete_rows" /\ document = "withdrawn"
                /\ ActionOf[OpOf(w)] = "withdraw"
             \/ pc'[w] = "save_indexing" /\ ActionOf[OpOf(w)] = "restore"
      BY <1>6, <1>p, <1>o DEF Bundle, Blocked
    <2> QED
      BY <1>3, <2>1 DEF Course, Ends, catalogs
  <1>7. CASE SaveIndexing(w)
    <2>1. pc[w] = "save_indexing" /\ pc'[w] \in {"stage_rows", "release"}
      BY <1>7, <1>p DEF SaveIndexing, Returns, Raises
    <2> QED
      BY <1>3, <2>1 DEF Course, Ends
  <1>8. CASE StageRows(w)
    <2>1. pc[w] = "stage_rows" /\ pc'[w] \in {"publish_document", "reblock_document"}
      BY <1>8, <1>p DEF StageRows, Returns, Raises
    <2> QED
      BY <1>3, <2>1 DEF Course, Ends
  <1>9. CASE PublishDocument(w)
    <2>1. /\ pc[w] = "publish_document"
          /\ \/ pc'[w] = "publish_chunks" /\ document' = "published"
             \/ pc'[w] = "reblock_document"
      BY <1>9, <1>p DEF PublishDocument, Returns, Raises
    <2> QED
      BY <1>3, <2>1 DEF Course, Ends
  <1>10. CASE PublishChunks(w)
    <2>1. /\ pc[w] = "publish_chunks" /\ UNCHANGED <<status, document>>
          /\ \/ pc'[w] = "publish_rows" /\ chunks' = "published"
             \/ pc'[w] = "reblock_document"
      BY <1>10, <1>p DEF PublishChunks, Returns, Raises
    <2> QED
      BY <1>3, <1>5, <2>1 DEF Course, Ends
  <1>11. CASE PublishRows(w)
    <2>1. /\ pc[w] = "publish_rows" /\ UNCHANGED <<status, document, chunks>>
          /\ \/ pc'[w] = "save" /\ outcome'[w] = "restored" /\ rows' = "published"
             \/ pc'[w] = "reblock_document"
      BY <1>11, <1>p, <1>o DEF PublishRows, Returns, Raises, LiveRows, catalogs
    <2> QED
      BY <1>3, <1>5, <2>1 DEF Course, Ends
  <1>12. CASE ReblockDocument(w) \/ ReblockChunks(w)
    <2>1. /\ pc[w] \in {"reblock_document", "reblock_chunks"}
          /\ pc'[w] \in {"reblock_chunks", "delete_rows"}
      BY <1>12, <1>p DEF ReblockDocument, ReblockChunks, Returns, Raises
    <2> QED
      BY <1>3, <2>1 DEF Course, Ends
  <1>13. CASE DeleteRows(w)
    <2>1. /\ pc[w] = "delete_rows" /\ UNCHANGED document
          /\ \/ pc'[w] = "verify_rows"
             \/ pc'[w] = "save" /\ outcome'[w] = "compensation_required"
      BY <1>13, <1>p, <1>o DEF DeleteRows, Returns, Raises, catalogs
    <2> QED
      BY <1>3, <2>1 DEF Course, Ends
  <1>14. CASE VerifyRows(w)
    <2>1. /\ pc[w] = "verify_rows" /\ UNCHANGED <<document, rows>>
          /\ pc'[w] = "save"
          /\ \/ outcome'[w] = "compensation_required"
             \/ /\ outcome'[w] = "withdrawn"
                /\ rows = "absent" /\ ActionOf[OpOf(w)] = "withdraw"
      BY <1>14, <1>p, <1>o DEF VerifyRows, Returns, Raises, catalogs
    <2> QED
      BY <1>3, <2>1 DEF Course, Ends
  <1>15. CASE Save(w) \/ NotApplied(w)
    <2>1. pc'[w] = "release"
      BY <1>15, <1>p DEF Save, NotApplied, Returns, Raises
    <2> QED
      BY <2>1, QuietCourse
  <1> QED
    BY <1>6, <1>7, <1>8, <1>9, <1>10, <1>11, <1>12, <1>13, <1>14, <1>15 DEF WorkStep

LEMMA WorkerRecords ==
    ASSUME LType, RecordInv, NEW w \in Workers, WorkerStep(w) \/ LoseWorker(w)
    PROVE  RecordInv'
  <1>1. TypeOK /\ w \in Actors /\ w \notin Clients
    BY ActorsAssumption DEF LType, Actors
  <1>2. PICK label \in WorkerPC : Goto(w, label)
    BY WorkerWrites
  <1>3. pc'[w] = label /\ \A x \in Actors : x # w => pc'[x] = pc[x]
    BY <1>1, <1>2, GotoTyped
  <1>4. \A c \in Clients : pc'[c] = pc[c]
    BY <1>1, <1>3 DEF Actors
  <1>5. op' = op
    BY WorkerWrites
  <1>6. \A o \in Ops : \/ status'[o] = status[o]
                       \/ /\ status'[o] # "absent" /\ pc[w] # "idle" /\ o = OpOf(w)
    <2>1. pc[w] # "idle" => OpOf(w) \in Ops
      BY OpOfTyped
    <2> QED
      BY <1>1, <2>1, WorkerWrites DEF SetStatus, TypeOK
  <1>7. Fresh'
    BY <1>4, <1>5 DEF RecordInv, Fresh
  <1>8. Ran'
    <2>1. ASSUME NEW o \in Ops, status'[o] = "withdrawn"
          PROVE  \E d \in Clients : op'[d] = o /\ pc'[d] \in {"done", "dispatch_failed"}
      <3>1. CASE status[o] = "withdrawn"
        BY <1>4, <1>5, <3>1 DEF RecordInv, Ran
      <3>2. CASE pc[w] # "idle" /\ o = OpOf(w)
        BY <1>4, <1>5, <3>2 DEF LType, Sent, OpOf
      <3> QED
        BY <1>6, <2>1, <3>1, <3>2
    <2> QED
      BY <2>1 DEF Ran
  <1>9. Blocks'
    <2>1. \A c \in Clients : pc[c] # "idle" => op[c] \in Ops
      BY DEF LType, Asked
    <2> QED
      BY <1>4, <1>5, <1>6, <2>1 DEF RecordInv, Blocks
  <1>10. ASSUME Alone', NEW v \in Workers PROVE Course(v)'
    <2>1. \A m \in waiting : m[1] \in Clients /\ m[1] # None
      BY <1>1, ActorsAssumption DEF TypeOK
    <2>2. task'[w] # None /\ \A u \in Workers : u # w => task'[u] = task[u]
      <3>1. pc[w] # "idle" => task[w] # None
        BY OpOfTyped, ActorsAssumption
      <3> QED
        BY <1>1, <2>1, <3>1, WorkerWrites DEF TypeOK
    <2>3. Alone
      BY <1>10, <2>2 DEF Alone
    <2>4. CASE v # w
      <3>1. task[v] = None
        BY <1>10, <2>2, <2>4 DEF Alone
      <3>2. pc[v] = "idle"
        BY <3>1, OpOfTyped, ActorsAssumption
      <3>3. pc'[v] = "idle"
        BY <1>3, <2>4, <3>2 DEF Actors
      <3> QED
        BY <3>3, QuietCourse
    <2>5. CASE v = w
      <3>1. Course(w)
        BY <2>3 DEF RecordInv, Courses
      <3>2. CASE WorkStep(w)
        BY <2>5, <3>1, <3>2, WorkCourse
      <3>3. CASE ~WorkStep(w)
        <4>1. \E l \in {"idle", "read", "claim", "release", "reread", "bundle", "current",
                        "retry_read", "retry_write", "resend", "acknowledge"} : Goto(w, l)
          BY <3>3 DEF WorkStep, WorkerStep, Take, Read, Claim, Current, Release, Resend,
                      Breaks, LoseWorker, Returns, Raises
        <4>2. \A l : Goto(w, l) => pc'[w] = l
          BY <1>1 DEF Goto, TypeOK
        <4> QED
          BY <2>5, <4>1, <4>2, QuietCourse
      <3> QED
        BY <3>2, <3>3
    <2> QED
      BY <2>4, <2>5
  <1>11. Courses'
    BY <1>10 DEF Courses
  <1> QED
    BY <1>7, <1>8, <1>9, <1>11 DEF RecordInv

LEMMA RecordInit == Init => RecordInv
  <1> SUFFICES ASSUME Init PROVE RecordInv
    OBVIOUS
  <1>1. \A a \in Actors : pc[a] = "idle"
    BY DEF Init
  <1>2. Fresh /\ Ran /\ Blocks
    BY <1>1 DEF Init, Fresh, Ran, Blocks, Actors
  <1>3. \A w \in Workers : Course(w)
    BY <1>1 DEF Course, Ends, Actors
  <1> QED
    BY <1>2, <1>3 DEF RecordInv, Courses

LEMMA RecordStep == LType /\ RecordInv /\ [Next]_vars => RecordInv'
  <1> SUFFICES ASSUME LType, RecordInv, [Next]_vars PROVE RecordInv'
    OBVIOUS
  <1>1. CASE UNCHANGED vars
    BY <1>1 DEF RecordInv, Fresh, Ran, Blocks, Courses, Course, Alone, Ends, Withdrawing,
                AskedTwice, OpOf, vars, catalogs
  <1>2. CASE Next
    BY <1>2, ClientRecords, WorkerRecords DEF Next
  <1> QED
    BY <1>1, <1>2

\* Only a worker at the end of an operation records that it has ended well.
LEMMA EndsWell ==
    ASSUME LType, [Next]_vars, NEW o \in Ops, NEW s \in {"withdrawn", "restored"},
           status[o] # s, status'[o] = s
    PROVE  \E w \in Workers :
              /\ Ends(w, s) /\ pc[w] # "idle" /\ o = OpOf(w)
              /\ UNCHANGED <<catalogs, rows, op>>
              /\ \A p \in Ops : p # o => status'[p] = status[p]
  <1>1. TypeOK
    BY DEF LType
  <1>2. ASSUME NEW c \in Clients,
               (\E p \in Ops : Request(c, p) \/ Retry(c, p)) \/ ClientStep(c) \/ LoseRequest(c)
        PROVE  FALSE
    <2>1. PICK t \in Status \ {"absent", "withdrawn", "restored"} : SetStatus(op[c], t)
      BY <1>2, ClientWrites
    <2> QED
      BY <1>1, <2>1 DEF SetStatus, TypeOK
  <1>3. ASSUME NEW w \in Workers, WorkerStep(w) \/ LoseWorker(w)
        PROVE  /\ Ends(w, s) /\ pc[w] # "idle" /\ o = OpOf(w)
               /\ UNCHANGED <<catalogs, rows, op>>
               /\ \A p \in Ops : p # o => status'[p] = status[p]
    <2>1. PICK t \in Status \ {"absent"} :
             /\ pc[w] # "idle" /\ SetStatus(OpOf(w), t) /\ UNCHANGED op
             /\ t \in {"withdrawn", "restored"} => Ends(w, t) /\ UNCHANGED <<catalogs, rows>>
      BY <1>3, WorkerWrites
    <2>2. o = OpOf(w) /\ t = s /\ \A p \in Ops : p # o => status'[p] = status[p]
      BY <1>1, <2>1 DEF SetStatus, TypeOK
    <2> QED
      BY <2>1, <2>2
  <1>4. ~UNCHANGED vars
    BY DEF vars
  <1> QED
    BY <1>2, <1>3, <1>4 DEF Next

\* With one worker at work, an operation is recorded as withdrawn only while the
\* revision is blocked and its rows are gone, for any number of operations and
\* requests, whatever fails and however often the worker is lost.
THEOREM WithdrawalsAreClean == Spec => WithdrawnIsClean
  <1>1. LType /\ RecordInv /\ [Next]_vars => (Alone => CleanWhenWithdrawn)
    <2> SUFFICES ASSUME LType, RecordInv, [Next]_vars, Alone,
                        NEW o \in Ops, status[o] # "withdrawn", status'[o] = "withdrawn"
                 PROVE  document' = "withdrawn" /\ rows' = "absent"
      BY DEF CleanWhenWithdrawn
    <2>1. PICK w \in Workers : Ends(w, "withdrawn") /\ UNCHANGED <<catalogs, rows>>
      BY EndsWell
    <2>2. document = "withdrawn" /\ rows = "absent"
      BY <2>1 DEF RecordInv, Courses, Course
    <2> QED
      BY <2>1, <2>2 DEF catalogs
  <1> QED
    BY <1>1, TypeInit, TypeStep, RecordInit, RecordStep, PTL DEF Spec, WithdrawnIsClean

\* With one worker at work, an operation recorded as restored leaves the revision
\* served in all three stores, unless a withdrawal of it is under way, has broken
\* off or has been asked for again.
THEOREM RestorationsAreServed == Spec => RestoredIsServed
  <1>1. LType /\ RecordInv /\ [Next]_vars => (Alone => ServedWhenRestored)
    <2> SUFFICES ASSUME LType, RecordInv, [Next]_vars, Alone,
                        NEW o \in Ops, status[o] # "restored", status'[o] = "restored",
                        ~Withdrawing'
                 PROVE  Served'
      BY DEF ServedWhenRestored
    <2>1. PICK w \in Workers : /\ Ends(w, "restored") /\ o = OpOf(w)
                               /\ UNCHANGED <<catalogs, rows, op>>
                               /\ \A p \in Ops : p # o => status'[p] = status[p]
      BY EndsWell
    <2>2. Course(w)
      BY <2>1 DEF RecordInv, Courses
    <2>3. ActionOf[o] = "restore" /\ rows = "published"
      BY <2>1, <2>2 DEF Course
    <2>4. ~Withdrawing
      <3>1. \A p \in Ops :
               ActionOf[p] = "withdraw" /\ status'[p] \in {"absent", "withdrawn"} =>
                   status[p] \in {"absent", "withdrawn"}
        BY <2>1, <2>3
      <3>2. \A c \in Clients : op[c] \in Ops => op'[c] = op[c]
        BY <2>1
      <3> QED
        BY <3>1, <3>2, StillWithdrawing
    <2>5. document = "published" /\ chunks = "published"
      BY <2>1, <2>2, <2>4 DEF Course
    <2> QED
      BY <2>1, <2>3, <2>5 DEF Served, catalogs
  <1> QED
    BY <1>1, TypeInit, TypeStep, RecordInit, RecordStep, PTL DEF Spec, RestoredIsServed

=============================================================================
