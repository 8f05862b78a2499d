------------------------ MODULE BackgroundJobsProofs ------------------------
(***************************************************************************)
(* Proofs about the services that share the task queue: the sealed         *)
(* holdout, evaluations, standardizations and publication batches, one of  *)
(* them in each behaviour.                                                 *)
(*                                                                         *)
(* Each service has an inductive invariant of its own: the shape of the    *)
(* queue (QueueInv), the types of its records, what holds of an actor at   *)
(* each of its calls, and who is at work on a record as long as nothing    *)
(* has disturbed it.  The lemma of a step ("...Goal") gives the invariant  *)
(* again and says how far the step may move one record; these moves are    *)
(* the steps of BackgroundJob.                                             *)
(***************************************************************************)
EXTENDS MCBackgroundJobs, TLAPS

-----------------------------------------------------------------------------
(* The queue: actors, requests, messages and faults *)

\* Every actor is at some call, the requests and the tasks are of known actors.
QueueShape ==
    /\ pc = [a \in Actors |-> pc[a]]
    /\ asked \in [Clients -> Records \cup {None}]
    /\ task \in [Workers -> Clients \cup {None}]
    /\ retries \in [Workers -> Nat]
    /\ waiting \subseteq Clients \X Nat
    /\ faults \in [Kinds -> Nat]

\* A request that has begun knows its record, and a task that is under way has been
\* sent by one.
QueueKnown ==
    /\ \A c \in Clients : pc[c] # "idle" => asked[c] \in Records
    /\ \A m \in waiting : pc[m[1]] # "idle"
    /\ \A w \in Workers : pc[w] # "idle" => task[w] \in Clients /\ pc[task[w]] # "idle"

QueueInv == QueueShape /\ QueueKnown

LEMMA QueueStarts ==
    ASSUME NEW name, NEW absent, QueueInit(name, absent)
    PROVE  QueueInv /\ \A a \in Actors : pc[a] = "idle"
  <1>1. \A a \in Actors : pc[a] = "idle"
    BY DEF QueueInit
  <1>2. QueueShape
    BY DEF QueueInit, QueueShape
  <1>3. QueueKnown
    BY <1>1 DEF QueueInit, QueueKnown, Actors
  <1> QED
    BY <1>1, <1>2, <1>3 DEF QueueInv

\* A fault is counted, and none is ever uncounted.
LEMMA FaultCounts ==
    ASSUME QueueInv, NEW k \in Kinds, Fault(k)
    PROVE  /\ faults' \in [Kinds -> Nat]
           /\ faults'[k] > 0
           /\ \A j \in Kinds : faults[j] <= faults'[j]
  <1>1. faults \in [Kinds -> Nat] /\ faults' = [faults EXCEPT ![k] = @ + 1]
    BY DEF QueueInv, QueueShape, Fault
  <1> QED
    BY <1>1

Counts == faults' = faults \/ \E k \in Kinds : Fault(k)

LEMMA CountsGrow ==
    ASSUME QueueInv, Counts
    PROVE  faults' \in [Kinds -> Nat] /\ \A j \in Kinds : faults[j] <= faults'[j]
  <1>1. CASE faults' = faults
    BY <1>1 DEF QueueInv, QueueShape
  <1> QED
    BY <1>1, FaultCounts DEF Counts

\* Where an actor goes.
Reaches(a, label) == pc'[a] = label /\ \A x \in Actors : x # a => pc'[x] = pc[x]

LEMMA Going ==
    ASSUME QueueInv, NEW a \in Actors, NEW label, Goto(a, label)
    PROVE  pc' = [x \in Actors |-> pc'[x]] /\ Reaches(a, label)
  BY DEF QueueInv, QueueShape, Goto, Reaches

\* A step of an actor at work that sends and takes nothing: it goes on, or ends, or a
\* call raises.
Moves(a, label) ==
    /\ pc[a] # "idle" /\ (a \in Clients => label # "idle")
    /\ Goto(a, label)
    /\ UNCHANGED <<service, waiting, asked, task, retries>>
    /\ Counts

\* The queue stays in shape and every actor about its record: whoever moves, ...
LEMMA Moving ==
    ASSUME QueueInv, NEW a \in Actors, NEW label, Moves(a, label)
    PROVE  QueueInv' /\ Reaches(a, label) /\ \A x : Subject(x)' = Subject(x)
  <1>1. pc' = [x \in Actors |-> pc'[x]] /\ Reaches(a, label)
    BY Going DEF Moves
  <1>2. QueueShape'
    BY <1>1, CountsGrow DEF Moves, QueueInv, QueueShape
  <1>3. /\ \A c \in Clients : pc'[c] # "idle" <=> pc[c] # "idle"
        /\ \A w \in Workers : pc'[w] # "idle" => pc[w] # "idle"
    BY <1>1 DEF Reaches, Moves, Actors
  <1>4. waiting \subseteq Clients \X Nat
    BY DEF QueueInv, QueueShape
  <1>5. QueueKnown'
    BY <1>3, <1>4 DEF Moves, QueueInv, QueueKnown
  <1> QED
    BY <1>1, <1>2, <1>5 DEF Moves, QueueInv, Subject

\* ... whatever request arrives, ...
LEMMA Arriving ==
    ASSUME QueueInv, NEW c \in Clients, NEW r \in Records, NEW label, label # "idle",
           Arrives(c, r, label)
    PROVE  /\ QueueInv' /\ Reaches(c, label) /\ Subject(c)' = r
           /\ \A x \in Actors : pc[x] # "idle" => Subject(x)' = Subject(x)
  <1>1. pc' = [x \in Actors |-> pc'[x]] /\ Reaches(c, label)
    BY Going DEF Arrives, Actors
  <1>2. asked' = [asked EXCEPT ![c] = r] /\ UNCHANGED <<service, waiting, task, retries, faults>>
    BY DEF Arrives
  <1>3. QueueShape'
    BY <1>1, <1>2 DEF QueueInv, QueueShape
  <1>4. \A x \in Clients : asked'[x] = IF x = c THEN r ELSE asked[x]
    BY <1>2 DEF QueueInv, QueueShape
  <1>5. \A x \in Clients : pc[x] # "idle" => pc'[x] # "idle" /\ x # c
    BY <1>1 DEF Reaches, Actors, Arrives
  <1>6. \A w \in Workers : pc'[w] = pc[w]
    BY <1>1, QueueAssumption DEF Reaches, Actors
  <1>7. waiting \subseteq Clients \X Nat
    BY DEF QueueInv, QueueShape
  <1>8. QueueKnown'
    BY <1>1, <1>2, <1>4, <1>5, <1>6, <1>7 DEF Reaches, QueueInv, QueueKnown, Actors
  <1>9. Subject(c)' = r
    BY <1>4, QueueAssumption DEF Subject
  <1>10. ASSUME NEW x \in Actors, pc[x] # "idle" PROVE Subject(x)' = Subject(x)
    BY <1>10, <1>2, <1>4, <1>5 DEF Subject, QueueInv, QueueKnown, Actors
  <1> QED
    BY <1>1, <1>3, <1>8, <1>9, <1>10 DEF QueueInv

\* ... is sent, ...
LEMMA Sending ==
    ASSUME QueueInv, NEW c \in Clients, Send(c)
    PROVE  /\ QueueInv' /\ (Reaches(c, "done") \/ Reaches(c, "unsent"))
           /\ \A x : Subject(x)' = Subject(x)
  <1>1. PICK label \in {"done", "unsent"} : Goto(c, label)
    BY DEF Send
  <1>2. pc' = [x \in Actors |-> pc'[x]] /\ Reaches(c, label)
    BY <1>1, Going DEF Actors
  <1>3. UNCHANGED <<service, asked, task, retries>>
            /\ waiting' \subseteq waiting \cup {<<c, 0>>} /\ pc[c] = "send"
    BY DEF Send
  <1>4. Counts
    BY DEF Send, Counts, Kinds
  <1>5. QueueShape'
    BY <1>2, <1>3, <1>4, CountsGrow DEF QueueInv, QueueShape
  <1>6. \A x \in Actors : pc[x] # "idle" <=> pc'[x] # "idle"
    BY <1>1, <1>2, <1>3 DEF Reaches
  <1>7. waiting \subseteq Clients \X Nat
    BY DEF QueueInv, QueueShape
  <1>8. QueueKnown'
    BY <1>3, <1>6, <1>7 DEF QueueInv, QueueKnown, Actors
  <1> QED
    BY <1>1, <1>2, <1>3, <1>5, <1>8 DEF QueueInv, Subject

\* ... taken ...
LEMMA Taking ==
    ASSUME QueueInv, NEW w \in Workers, NEW m \in waiting, Take(w, m)
    PROVE  /\ QueueInv' /\ Reaches(w, "task_read")
           /\ task'[w] = m[1] /\ \A v \in Workers : v # w => task'[v] = task[v]
           /\ \A x \in Actors : pc[x] # "idle" => Subject(x)' = Subject(x)
  <1>1. pc' = [x \in Actors |-> pc'[x]] /\ Reaches(w, "task_read")
    BY Going DEF Take, Actors
  <1>2. m[1] \in Clients /\ m[2] \in Nat /\ waiting \subseteq Clients \X Nat
    BY DEF QueueInv, QueueShape
  <1>3. /\ task' = [task EXCEPT ![w] = m[1]] /\ retries' = [retries EXCEPT ![w] = m[2]]
        /\ waiting' \subseteq waiting /\ pc[w] = "idle" /\ UNCHANGED <<asked, faults>>
    BY DEF Take
  <1>4. QueueShape'
    BY <1>1, <1>2, <1>3 DEF QueueInv, QueueShape
  <1>5. task'[w] = m[1] /\ \A v \in Workers : v # w => task'[v] = task[v]
    BY <1>3 DEF QueueInv, QueueShape
  <1>6. \A c \in Clients : pc'[c] = pc[c]
    BY <1>1, QueueAssumption DEF Reaches, Actors
  <1>7. QueueKnown'
    BY <1>1, <1>2, <1>3, <1>5, <1>6 DEF Reaches, QueueInv, QueueKnown, Actors
  <1>8. ASSUME NEW x \in Actors, pc[x] # "idle" PROVE Subject(x)' = Subject(x)
    BY <1>8, <1>3, <1>5 DEF Subject
  <1> QED
    BY <1>1, <1>4, <1>5, <1>7, <1>8 DEF QueueInv

\* ... or given back to the queue.
LEMMA Giving ==
    ASSUME QueueInv, NEW w \in Workers, NEW n \in Nat, NEW label, pc[w] # "idle",
           waiting' = waiting \cup {<<task[w], n>>}, Goto(w, label), Counts,
           UNCHANGED <<asked, task, retries>>
    PROVE  QueueInv' /\ Reaches(w, label) /\ \A x : Subject(x)' = Subject(x)
  <1>1. pc' = [x \in Actors |-> pc'[x]] /\ Reaches(w, label)
    BY Going DEF Actors
  <1>2. task[w] \in Clients /\ pc[task[w]] # "idle" /\ waiting \subseteq Clients \X Nat
    BY DEF QueueInv, QueueKnown, QueueShape
  <1>3. QueueShape'
    BY <1>1, <1>2, CountsGrow DEF QueueInv, QueueShape
  <1>4. \A c \in Clients : pc'[c] = pc[c]
    BY <1>1, QueueAssumption DEF Reaches, Actors
  <1>5. \A v \in Workers : pc'[v] # "idle" => pc[v] # "idle"
    BY <1>1 DEF Reaches, Actors
  <1>6. QueueKnown'
    BY <1>2, <1>4, <1>5 DEF QueueInv, QueueKnown
  <1> QED
    BY <1>1, <1>3, <1>6 DEF QueueInv, Subject

LEMMA Resending ==
    ASSUME QueueInv, NEW w \in Workers, Resend(w)
    PROVE  /\ QueueInv' /\ (Reaches(w, "acknowledge") \/ Reaches(w, "idle"))
           /\ \A x : Subject(x)' = Subject(x)
  <1>1. CASE Moves(w, "idle")
    BY <1>1, Moving DEF Actors
  <1>2. CASE /\ waiting' = waiting \cup {<<task[w], retries[w] + 1>>} /\ pc[w] = "resend"
             /\ Goto(w, "acknowledge") /\ UNCHANGED <<asked, task, retries, faults>>
    <2>1. retries[w] + 1 \in Nat
      BY DEF QueueInv, QueueShape
    <2> QED
      BY <1>2, <2>1, Giving DEF Counts
  <1> QED
    BY <1>1, <1>2, QueueAssumption DEF Resend, Moves, Raises, Returns, Counts, Kinds

LEMMA LosingWorker ==
    ASSUME QueueInv, NEW w \in Workers, LoseWorker(w)
    PROVE  QueueInv' /\ Reaches(w, "idle") /\ \A x : Subject(x)' = Subject(x)
  <1>1. retries[w] \in Nat
    BY DEF QueueInv, QueueShape
  <1>2. Counts
    BY DEF LoseWorker, Counts, Kinds
  <1> QED
    BY <1>1, <1>2, Giving DEF LoseWorker

\* What the actions are made of, as moves.
LEMMA Returning ==
    ASSUME NEW a \in Actors, NEW label, Returns(a, label), pc[a] # "idle",
           a \in Clients => label # "idle"
    PROVE  Moves(a, label)
  BY DEF Returns, Moves, Counts

LEMMA Raising ==
    ASSUME NEW a \in Actors, NEW label, NEW k \in Kinds, Raises(k, a, label), pc[a] # "idle",
           a \in Clients => label # "idle"
    PROVE  Moves(a, label)
  BY DEF Raises, Moves, Counts

\* A record stored and a record held.
LEMMA Writing ==
    ASSUME NEW T, record \in [Records -> T], NEW r \in T, NEW j \in Records,
           record' = [record EXCEPT ![j] = r]
    PROVE  /\ record' \in [Records -> T] /\ record'[j] = r
           /\ \A x \in Records : x # j => record'[x] = record[x]
  OBVIOUS

LEMMA Holding ==
    ASSUME NEW T, copy \in [Actors -> T], NEW r \in T, NEW a \in Actors, Hold(a, r)
    PROVE  /\ copy' \in [Actors -> T] /\ copy'[a] = r
           /\ \A x \in Actors : x # a => copy'[x] = copy[x]
  BY DEF Hold

\* A save inside the try block: it is applied, or it raises.
SavesWell(w, saved, label) ==
    /\ Moves(w, label) /\ faults' = faults
    /\ record' = [record EXCEPT ![Subject(w)] = saved] /\ Hold(w, saved)

SavesBadly(w, saved) ==
    /\ Moves(w, "fail")
    /\ \/ record' = [record EXCEPT ![Subject(w)] = saved] /\ faults'["answer"] > 0
       \/ UNCHANGED record
    /\ \E e \in {"transient", "permanent"} : Hold(w, With(saved, "failed", e))

LEMMA TryRaising ==
    ASSUME QueueInv, NEW w \in Workers, pc[w] # "idle", NEW k \in Kinds, NEW held,
           TryRaises(k, w, held)
    PROVE  /\ Moves(w, "fail") /\ faults'[k] > 0
           /\ \E e \in {"transient", "permanent"} : Hold(w, With(held, "failed", e))
  <1>1. w \in Actors /\ w \notin Clients
    BY QueueAssumption DEF Actors
  <1>2. Moves(w, "fail")
    BY <1>1, Raising DEF TryRaises
  <1> QED
    BY <1>2, FaultCounts DEF TryRaises, Raises

LEMMA Saving ==
    ASSUME QueueInv, NEW w \in Workers, pc[w] # "idle", NEW saved, NEW label,
           Saves(w, saved, label)
    PROVE  SavesWell(w, saved, label) \/ SavesBadly(w, saved)
  <1>1. w \in Actors /\ w \notin Clients /\ "answer" \in Kinds /\ "store" \in Kinds
    BY QueueAssumption DEF Actors, Kinds
  <1>2. CASE Save(w, saved) /\ Returns(w, label)
    <2>1. Moves(w, label)
      BY <1>1, <1>2, Returning
    <2> QED
      BY <1>2, <2>1 DEF SavesWell, Save, Returns
  <1>3. CASE record' = [record EXCEPT ![Subject(w)] = saved] /\ TryRaises("answer", w, saved)
    BY <1>1, <1>3, TryRaising DEF SavesBadly
  <1>4. CASE UNCHANGED record /\ TryRaises("store", w, saved)
    BY <1>1, <1>4, TryRaising DEF SavesBadly
  <1> QED
    BY <1>2, <1>3, <1>4 DEF Saves

LEMMA ClientsMove ==
    ASSUME QueueInv, NEW c \in Clients
    PROVE  /\ SendRead(c) =>
                  pc[c] = "send_read" /\ UNCHANGED records
                  /\ (Moves(c, "send") \/ Moves(c, "done"))
           /\ LoseRequest(c) =>
                  pc[c] \notin {"idle", "done"} /\ UNCHANGED records /\ Moves(c, "done")
           /\ MarkUnsent(c) => \/ pc[c] = "unsent" /\ Moves(c, "unsent_save")
                               \/ pc[c] = "unsent_save" /\ Moves(c, "done")
  <1>1. c \in Actors /\ "request" \in Kinds
    BY DEF Actors, Kinds
  <1>2. ASSUME SendRead(c)
        PROVE  pc[c] = "send_read" /\ UNCHANGED records /\ (Moves(c, "send") \/ Moves(c, "done"))
    BY <1>1, <1>2, Returning DEF SendRead
  <1>3. ASSUME LoseRequest(c)
        PROVE  pc[c] \notin {"idle", "done"} /\ UNCHANGED records /\ Moves(c, "done")
    BY <1>1, <1>3, Raising DEF LoseRequest
  <1>4. ASSUME MarkUnsent(c)
        PROVE  \/ pc[c] = "unsent" /\ Moves(c, "unsent_save")
               \/ pc[c] = "unsent_save" /\ Moves(c, "done")
    BY <1>1, <1>4, Returning DEF MarkUnsent
  <1> QED
    BY <1>2, <1>3, <1>4

-----------------------------------------------------------------------------
(* One place for each task *)

\* No message has been sent twice, and no save applied that raised.
Quiet == faults["broker"] = 0 /\ faults["resent"] = 0 /\ faults["answer"] = 0

\* The worker that has a task in hand until it is sent again.
Holds(w, c) == pc[w] \notin {"idle", "acknowledge"} /\ task[w] = c

\* A task that has been sent once is in one place: its message waits, or one worker has it.
OnePlace ==
    \A c \in Clients :
        /\ (\E m \in waiting : m[1] = c) \/ (\E w \in Workers : Holds(w, c)) => pc[c] = "done"
        /\ \A m, n \in waiting : m[1] = c /\ n[1] = c => m = n
        /\ \A m \in waiting, w \in Workers : ~(m[1] = c /\ Holds(w, c))
        /\ \A v, w \in Workers : Holds(v, c) /\ Holds(w, c) => v = w

LEMMA QuietBefore == ASSUME QueueInv, Counts, Quiet' PROVE Quiet
  <1>1. \A k \in {"broker", "resent", "answer"} : k \in Kinds
    BY DEF Kinds
  <1> QED
    BY <1>1, CountsGrow DEF QueueInv, QueueShape, Quiet

\* Each step keeps a task in one place.
LEMMA MovingPlaces ==
    ASSUME QueueInv, OnePlace, NEW a \in Actors, NEW label, Moves(a, label),
           a \in Clients => pc[a] # "done", a \in Workers /\ pc[a] = "acknowledge" =>
               label = "idle"
    PROVE  OnePlace'
  <1>1. Reaches(a, label)
    BY Moving
  <1>2. \A w \in Workers : \A c : Holds(w, c)' => Holds(w, c)
    BY <1>1 DEF Holds, Reaches, Moves, Actors
  <1>3. \A c \in Clients : pc[c] = "done" => pc'[c] = "done"
    BY <1>1, QueueAssumption DEF Reaches, Actors
  <1> QED
    BY <1>2, <1>3 DEF OnePlace, Moves

LEMMA ArrivingPlaces ==
    ASSUME QueueInv, OnePlace, NEW c \in Clients, NEW r \in Records, NEW label, label # "idle",
           Arrives(c, r, label)
    PROVE  OnePlace'
  <1>1. Reaches(c, label)
    BY Arriving
  <1>2. UNCHANGED <<waiting, task>> /\ pc[c] = "idle"
    BY DEF Arrives
  <1>3. \A w \in Workers : \A d : Holds(w, d)' => Holds(w, d)
    BY <1>1, <1>2, QueueAssumption DEF Holds, Reaches, Actors
  <1>4. \A d \in Clients : pc[d] = "done" => pc'[d] = "done"
    BY <1>1, <1>2 DEF Reaches, Actors
  <1> QED
    BY <1>2, <1>3, <1>4 DEF OnePlace

LEMMA SendingPlaces ==
    ASSUME QueueInv, OnePlace, NEW c \in Clients, Send(c), Quiet'
    PROVE  OnePlace'
  <1>1. "broker" \in Kinds /\ c \in Actors
    BY DEF Kinds, Actors
  <1>2. waiting' = waiting \cup {<<c, 0>>} /\ Goto(c, "done") /\ pc[c] = "send" /\ UNCHANGED task
    BY <1>1, FaultCounts DEF Send, Quiet
  <1>3. Reaches(c, "done")
    BY <1>1, <1>2, Going
  <1>4. \A w \in Workers : \A d : Holds(w, d)' <=> Holds(w, d)
    BY <1>2, <1>3, QueueAssumption DEF Holds, Reaches, Actors
  <1>5. \A d \in Clients : pc'[d] = IF d = c THEN "done" ELSE pc[d]
    BY <1>3 DEF Reaches, Actors
  <1>6. (\A m \in waiting : m[1] # c) /\ (\A w \in Workers : ~Holds(w, c))
    BY <1>2 DEF OnePlace
  <1>7. \A m \in waiting' : m \in waiting \/ (m = <<c, 0>> /\ m[1] = c)
    BY <1>2
  <1>8. \A d \in Clients : (\E m \in waiting' : m[1] = d) \/ (\E w \in Workers : Holds(w, d)') =>
            pc'[d] = "done"
    BY <1>4, <1>5, <1>7 DEF OnePlace
  <1>9. \A d \in Clients : \A m, n \in waiting' : m[1] = d /\ n[1] = d => m = n
    BY <1>6, <1>7 DEF OnePlace
  <1>10. \A d \in Clients : \A m \in waiting', w \in Workers : ~(m[1] = d /\ Holds(w, d)')
    BY <1>4, <1>6, <1>7 DEF OnePlace
  <1>11. \A d \in Clients : \A v, w \in Workers : Holds(v, d)' /\ Holds(w, d)' => v = w
    BY <1>4 DEF OnePlace
  <1> QED
    BY <1>8, <1>9, <1>10, <1>11 DEF OnePlace

LEMMA TakingPlaces ==
    ASSUME QueueInv, OnePlace, NEW w \in Workers, NEW m \in waiting, Take(w, m)
    PROVE  OnePlace'
  <1>1. /\ Reaches(w, "task_read") /\ task'[w] = m[1]
        /\ \A v \in Workers : v # w => task'[v] = task[v]
    BY Taking
  <1>2. waiting' = waiting \ {m} /\ m[1] \in Clients
    BY DEF Take, QueueInv, QueueShape
  <1>3. \A v \in Workers : \A d : Holds(v, d)' => Holds(v, d) \/ (v = w /\ d = m[1])
    BY <1>1 DEF Holds, Reaches, Actors
  <1>4. \A d \in Clients : pc'[d] = pc[d]
    BY <1>1, QueueAssumption DEF Reaches, Actors
  <1>5. \A d \in Clients : (\E n \in waiting' : n[1] = d) \/ (\E v \in Workers : Holds(v, d)') =>
            pc'[d] = "done"
    BY <1>2, <1>3, <1>4 DEF OnePlace
  <1>6. \A d \in Clients : \A n, o \in waiting' : n[1] = d /\ o[1] = d => n = o
    BY <1>2 DEF OnePlace
  <1>7. \A d \in Clients : \A n \in waiting', v \in Workers : ~(n[1] = d /\ Holds(v, d)')
    BY <1>2, <1>3 DEF OnePlace
  <1>8. \A d \in Clients : \A v, x \in Workers : Holds(v, d)' /\ Holds(x, d)' => v = x
    BY <1>2, <1>3 DEF OnePlace
  <1> QED
    BY <1>5, <1>6, <1>7, <1>8 DEF OnePlace

\* The message of a task that a worker gives up, or sends again as itself.
LEMMA GivingPlaces ==
    ASSUME QueueInv, OnePlace, NEW w \in Workers, NEW n \in Nat,
           pc[w] \notin {"idle", "acknowledge"}, NEW label \in {"idle", "acknowledge"},
           waiting' = waiting \cup {<<task[w], n>>}, Reaches(w, label), UNCHANGED task
    PROVE  OnePlace'
  <1>1. task[w] \in Clients
    BY DEF QueueInv, QueueKnown
  <1>2. \A v \in Workers : \A d : Holds(v, d)' => Holds(v, d) /\ d # task[w]
    BY <1>1 DEF Holds, Reaches, Actors, OnePlace
  <1>3. \A d \in Clients : pc'[d] = pc[d]
    BY QueueAssumption DEF Reaches, Actors
  <1>4. \A m \in waiting' : m \in waiting \/ (m = <<task[w], n>> /\ m[1] = task[w])
    BY <1>1
  <1>5. Holds(w, task[w]) /\ \A m \in waiting : m[1] # task[w]
    BY <1>1 DEF OnePlace, Holds
  <1>6. \A d \in Clients : (\E m \in waiting' : m[1] = d) \/ (\E v \in Workers : Holds(v, d)') =>
            pc'[d] = "done"
    BY <1>2, <1>3, <1>4, <1>5 DEF OnePlace
  <1>7. \A d \in Clients : \A m, o \in waiting' : m[1] = d /\ o[1] = d => m = o
    BY <1>4, <1>5 DEF OnePlace
  <1>8. \A d \in Clients : \A m \in waiting', v \in Workers : ~(m[1] = d /\ Holds(v, d)')
    BY <1>2, <1>4 DEF OnePlace
  <1>9. \A d \in Clients : \A v, x \in Workers : Holds(v, d)' /\ Holds(x, d)' => v = x
    BY <1>2 DEF OnePlace
  <1> QED
    BY <1>6, <1>7, <1>8, <1>9 DEF OnePlace

LEMMA ResendingPlaces ==
    ASSUME QueueInv, OnePlace, NEW w \in Workers, Resend(w)
    PROVE  OnePlace'
  <1>1. w \in Actors /\ w \notin Clients /\ "broker" \in Kinds
    BY QueueAssumption DEF Actors, Kinds
  <1>2. CASE Moves(w, "idle")
    BY <1>1, <1>2, MovingPlaces
  <1>3. CASE /\ waiting' = waiting \cup {<<task[w], retries[w] + 1>>} /\ pc[w] = "resend"
             /\ Goto(w, "acknowledge") /\ UNCHANGED task
    <2>1. retries[w] + 1 \in Nat /\ Reaches(w, "acknowledge")
      BY <1>1, <1>3, Going DEF QueueInv, QueueShape
    <2> QED
      BY <1>3, <2>1, GivingPlaces
  <1> QED
    BY <1>1, <1>2, <1>3 DEF Resend, Moves, Raises, Returns, Counts

LEMMA LosingPlaces ==
    ASSUME QueueInv, OnePlace, NEW w \in Workers, LoseWorker(w), Quiet'
    PROVE  OnePlace'
  <1>1. w \in Actors /\ {"resent", "worker"} \subseteq Kinds /\ retries[w] \in Nat
    BY DEF Actors, Kinds, QueueInv, QueueShape
  <1>2. pc[w] # "acknowledge"
    BY <1>1, FaultCounts DEF LoseWorker, Quiet
  <1>3. Reaches(w, "idle")
    BY LosingWorker
  <1> QED
    BY <1>1, <1>2, <1>3, GivingPlaces DEF LoseWorker

-----------------------------------------------------------------------------
(* The sealed holdout *)

HoldoutLabels ==
    {"idle", "save_freeze", "open_release", "open_dataset", "baseline", "save_run", "done"}

\* What the clients of the holdout hold, by type.
HoldoutTypes ==
    /\ record \in [Records -> [status : {"absent", "frozen", "opened"}]]
    /\ pc \in [Actors -> HoldoutLabels]
    /\ asked \in [Clients -> Records \cup {None}]
    /\ opening \in [Clients -> Clients \cup {None}]
    /\ dataset \in Clients \cup {None}

Opened(r) == r \in Releases /\ record[r].status = "opened"

\* A client past a call knows what it has brought about: a release stays opened, and the
\* first opening of the dataset is the one.
OpeningIsKnown ==
    \A c \in Clients :
        /\ pc[c] \in {"save_freeze", "open_release"} => asked[c] \in Releases
        /\ pc[c] \in {"open_dataset", "baseline", "save_run"} => Opened(asked[c])
        /\ pc[c] \in {"baseline", "save_run"} => dataset # None /\ opening[c] = dataset

\* Every run of the holdout carries that opening, and is of an opened release.
RunsAreOfIt == \A x \in runs : dataset # None /\ x.opened = dataset /\ Opened(x.release)

HoldoutInv == HoldoutTypes /\ OpeningIsKnown /\ RunsAreOfIt

LEMMA HoldoutStarts == ASSUME QueueInit("holdout", NoFreeze), NothingOpened PROVE HoldoutInv
  <1> USE DEF QueueInit, NothingOpened, NoFreeze
  <1>1. HoldoutTypes
    BY DEF HoldoutTypes, HoldoutLabels
  <1>2. OpeningIsKnown
    BY DEF OpeningIsKnown, Actors
  <1>3. RunsAreOfIt
    BY DEF RunsAreOfIt
  <1> QED
    BY <1>1, <1>2, <1>3 DEF HoldoutInv

LEMMA HoldoutSteps == ASSUME HoldoutInv, HoldoutNext PROVE HoldoutInv'
  <1> USE DEF HoldoutInv, HoldoutTypes, OpeningIsKnown, RunsAreOfIt, Opened, Actors, HoldoutLabels
  <1> SUFFICES ASSUME NEW c \in Clients,
          \/ \E r \in Releases : FreezeRead(c, r)
        \/ SaveFreeze(c) \/ FindFrozen(c) \/ OpenRelease(c) \/ OpenDataset(c)
        \/ Baseline(c) \/ SaveRun(c)
        \/ (LoseRequest(c) /\ UNCHANGED holdoutVars)
        PROVE HoldoutInv'
    BY DEF HoldoutNext
  <1>1. ASSUME NEW r \in Releases, FreezeRead(c, r) PROVE HoldoutInv'
    BY <1>1, ReleasesAssumption DEF FreezeRead, Arrives, Goto, records, holdoutVars
  <1>2. CASE SaveFreeze(c)
    BY <1>2, ReleasesAssumption DEF SaveFreeze, Returns, Goto, holdoutVars
  <1>3. CASE FindFrozen(c)
    BY <1>3, ReleasesAssumption DEF FindFrozen, Arrives, Goto, records, holdoutVars
  <1>4. CASE OpenRelease(c)
    BY <1>4, ReleasesAssumption DEF OpenRelease, Returns, Goto, holdoutVars
  <1>5. CASE OpenDataset(c)
    BY <1>5, QueueAssumption DEF OpenDataset, FirstOpening, Returns, Goto, records
  <1>6. CASE Baseline(c)
    BY <1>6 DEF Baseline, Returns, Goto, records, holdoutVars
  <1>7. CASE SaveRun(c)
    BY <1>7 DEF SaveRun, Returns, Goto, records
  <1>8. CASE LoseRequest(c) /\ UNCHANGED holdoutVars
    BY <1>8 DEF LoseRequest, Raises, Goto, records, holdoutVars
  <1> QED
    BY <1>1, <1>2, <1>3, <1>4, <1>5, <1>6, <1>7, <1>8

-----------------------------------------------------------------------------
(* Evaluation runs *)

Errors == {"none", "transient", "permanent", "queue"}

RunRecords ==
    [status : {"absent", "queued", "running", "completed", "failed"}, error : Errors,
     owner : Clients \cup {None}]

RunTypes == record \in [Records -> RunRecords] /\ copy \in [Actors -> RunRecords]

\* A run is marked as unsent only when the broker has failed, and saved as failed only so.
RunLabels ==
    /\ \A c \in Clients : pc[c] \in {"unsent", "unsent_save"} => faults["broker"] > 0
    /\ \A w \in Workers : pc[w] = "fail" => copy[w].status = "failed"

AtRun(w) == pc[w] \in {"dataset", "cases", "finish", "fail"}

\* A worker past its claim has a running run that is claimed in the name of its task.
RunsAreOwned == \A w \in Workers : AtRun(w) => Own(w).status = "running" /\ Own(w).owner = task[w]

\* As a task is in one place, so is the run it owns.
EvaluationInv == QueueInv /\ RunTypes /\ RunLabels /\ (Quiet => OnePlace /\ RunsAreOwned)

RunSteps == {<<"absent", "queued">>, <<"queued", "running">>, <<"running", "completed">>,
             <<"running", "failed">>, <<"failed", "queued">>}

\* How far a step moves one run.
RunMoves ==
    \E r \in Records :
        /\ \A x \in Records : x # r => record'[x] = record[x]
        /\ record'[r].status = record[r].status
               \/ <<record[r].status, record'[r].status>> \in RunSteps

EvaluationGoal == EvaluationInv' /\ (Quiet' => UNCHANGED record \/ RunMoves)

\* Two workers are at work on different runs.
LEMMA RunsAlone ==
    ASSUME EvaluationInv, Quiet, NEW w \in Workers, AtRun(w), NEW v \in Workers, v # w,
           pc[v] \notin {"idle", "acknowledge"}
    PROVE  Own(w).status = "running" /\ Own(w).owner # task[v]
               /\ (AtRun(v) => Subject(v) # Subject(w))
  <1>1. task[w] \in Clients /\ Holds(w, task[w]) /\ Holds(v, task[v])
    BY DEF EvaluationInv, QueueInv, QueueKnown, AtRun, Holds
  <1>2. task[v] # task[w]
    BY <1>1 DEF EvaluationInv, OnePlace
  <1> QED
    BY <1>2 DEF EvaluationInv, RunsAreOwned, Own

\* What an actor must leave alone for the invariant to hold again.
LEMMA RunActs ==
    ASSUME EvaluationInv, NEW a \in Actors, NEW label, Moves(a, label), RunTypes',
           \A x \in Actors : x # a => copy'[x] = copy[x],
           a \in Workers /\ label = "fail" => copy'[a].status = "failed",
           a \in Clients => pc[a] # "done"
                            /\ (label \in {"unsent", "unsent_save"} => faults'["broker"] > 0),
           a \in Workers /\ pc[a] = "acknowledge" => label = "idle",
           Quiet' =>
               /\ a \in Workers /\ label \in {"dataset", "cases", "finish", "fail"} =>
                      record'[Subject(a)].status = "running"
                          /\ record'[Subject(a)].owner = task[a]
               /\ \A w \in Workers : w # a /\ AtRun(w) => record'[Subject(w)] = record[Subject(w)]
    PROVE  EvaluationInv'
  <1>1. QueueInv' /\ Reaches(a, label) /\ \A x : Subject(x)' = Subject(x)
    BY Moving DEF EvaluationInv
  <1>2. "broker" \in Kinds /\ faults["broker"] \in Nat /\ faults'["broker"] \in Nat
            /\ faults["broker"] <= faults'["broker"]
    BY CountsGrow DEF Moves, Kinds, EvaluationInv, QueueInv, QueueShape
  <1>3. RunLabels'
    BY <1>1, <1>2, QueueAssumption DEF EvaluationInv, RunLabels, Reaches, Actors
  <1>4. ASSUME Quiet' PROVE OnePlace' /\ RunsAreOwned'
    <2>1. Quiet
      BY <1>4, QuietBefore DEF EvaluationInv, Moves
    <2>2. OnePlace'
      BY <2>1, MovingPlaces DEF EvaluationInv
    <2>3. ASSUME NEW w \in Workers,
                 AtRun(w)' PROVE Own(w)'.status = "running" /\ Own(w)'.owner = task'[w]
      <3>1. Own(w)' = record'[Subject(w)] /\ task'[w] = task[w]
        BY <1>1 DEF Own, Moves
      <3>2. CASE w = a
        BY <3>1, <3>2, <2>3, <1>1, <1>4 DEF AtRun, Reaches
      <3>3. CASE w # a
        BY <3>1, <3>3, <2>1, <2>3, <1>1, <1>4
           DEF AtRun, Reaches, EvaluationInv, RunsAreOwned, Own, Actors
      <3> QED
        BY <3>2, <3>3
    <2> QED
      BY <2>2, <2>3 DEF RunsAreOwned
  <1> QED
    BY <1>1, <1>3, <1>4 DEF EvaluationInv

\* Nobody is at work on a run that is not running.
LEMMA NotRunning ==
    ASSUME EvaluationInv, Quiet, NEW w \in Workers, AtRun(w), NEW r, record[r].status # "running"
    PROVE  Subject(w) # r
  BY DEF EvaluationInv, RunsAreOwned, Own

LEMMA RunSubject ==
    ASSUME EvaluationInv, NEW a \in Actors, pc[a] # "idle"
    PROVE  Subject(a) \in Records /\ Own(a) \in RunRecords /\ copy[a] \in RunRecords
  BY DEF EvaluationInv, QueueInv, QueueKnown, RunTypes, Subject, Own, Actors

\* A step that changes no record.
LEMMA RunStays ==
    ASSUME EvaluationInv, NEW a \in Actors, NEW label, Moves(a, label), UNCHANGED records,
           label # "fail", label \in {"dataset", "cases", "finish"} => AtRun(a),
           a \in Clients => pc[a] # "done" /\ label \notin {"unsent", "unsent_save"},
           a \in Workers /\ pc[a] = "acknowledge" => label = "idle"
    PROVE  EvaluationGoal
  <1>1. RunTypes'
    BY DEF EvaluationInv, RunTypes, records
  <1>2. ASSUME Quiet', a \in Workers, label \in {"dataset", "cases", "finish", "fail"}
        PROVE  record'[Subject(a)].status = "running" /\ record'[Subject(a)].owner = task[a]
    BY <1>2, QuietBefore DEF EvaluationInv, RunsAreOwned, Own, records, Moves
  <1> QED
    BY <1>1, <1>2, RunActs DEF records, EvaluationGoal

LEMMA PreparedGoal ==
    ASSUME EvaluationInv, NEW a \in Actors, Prepare(a)
    PROVE  EvaluationGoal
  <1> DEFINE label == IF a \in Clients THEN "send_read" ELSE "resend"
  <1>1. Moves(a, label)
    BY Returning DEF Prepare
  <1>2. pc[a] # "idle" /\ pc[a] # "done" /\ pc[a] # "acknowledge" /\ UNCHANGED copy
    BY DEF Prepare
  <1>3. Subject(a) \in Records /\ Own(a) \in RunRecords
    BY <1>2, RunSubject
  <1> DEFINE new == IF MayPrepare(Own(a)) THEN [NoRun EXCEPT !.status = "queued"] ELSE Own(a)
  <1>4. new \in RunRecords
            /\ (new = Own(a) \/ (Own(a).status = "failed" /\ new.status = "queued"))
    BY <1>3 DEF NoRun, RunRecords, Errors, MayPrepare
  <1>5. record' = [record EXCEPT ![Subject(a)] = new]
    BY DEF Prepare, Own
  <1> HIDE DEF new
  <1>6. /\ record' \in [Records -> RunRecords] /\ record'[Subject(a)] = new
        /\ \A x \in Records : x # Subject(a) => record'[x] = record[x]
    BY <1>3, <1>4, <1>5, Writing DEF EvaluationInv, RunTypes
  <1>7. RunTypes'
    BY <1>2, <1>6 DEF EvaluationInv, RunTypes
  <1>8. ASSUME Quiet', NEW w \in Workers, AtRun(w) PROVE record'[Subject(w)] = record[Subject(w)]
    <2>1. Quiet
      BY <1>1, <1>8, QuietBefore DEF EvaluationInv, Moves
    <2>2. w \in Actors /\ pc[w] # "idle"
      BY <1>8 DEF AtRun, Actors
    <2>3. Subject(w) \in Records
      BY <2>2, RunSubject
    <2>4. CASE new = Own(a)
      BY <2>3, <2>4, <1>6 DEF Own
    <2>5. CASE Own(a).status = "failed"
      BY <2>1, <2>3, <2>5, <1>6, <1>8, NotRunning DEF Own
    <2> QED
      BY <1>4, <2>4, <2>5
  <1>9. EvaluationInv'
    BY <1>1, <1>2, <1>7, <1>8, RunActs
  <1>10. UNCHANGED record \/ RunMoves
    BY <1>3, <1>4, <1>6, RunSubject DEF RunMoves, RunSteps, Own
  <1> QED
    BY <1>9, <1>10 DEF EvaluationGoal

LEMMA RunSaved ==
    ASSUME EvaluationInv, NEW a \in Actors, pc[a] # "idle", NEW saved \in RunRecords,
           record' = [record EXCEPT ![Subject(a)] = saved]
    PROVE  /\ record' \in [Records -> RunRecords] /\ record'[Subject(a)] = saved
           /\ \A x \in Records : x # Subject(a) => record'[x] = record[x]
           /\ Own(a).status = saved.status \/ <<Own(a).status, saved.status>> \in RunSteps =>
                  RunMoves
  <1>1. Subject(a) \in Records
    BY RunSubject
  <1>2. /\ record' \in [Records -> RunRecords] /\ record'[Subject(a)] = saved
        /\ \A x \in Records : x # Subject(a) => record'[x] = record[x]
    BY <1>1, Writing DEF EvaluationInv, RunTypes
  <1> QED
    BY <1>1, <1>2 DEF RunMoves, Own

LEMMA RunSavedAtWork ==
    ASSUME EvaluationInv, Quiet, NEW a \in Workers, pc[a] \notin {"idle", "acknowledge"},
           AtRun(a) \/ Own(a).status # "running" \/ Own(a).owner = task[a],
           \A x \in Records : x # Subject(a) => record'[x] = record[x],
           NEW w \in Workers, w # a, AtRun(w)
    PROVE  record'[Subject(w)] = record[Subject(w)]
  <1>1. w \in Actors /\ pc[w] # "idle"
    BY DEF AtRun, Actors
  <1>2. Subject(w) \in Records
    BY <1>1, RunSubject
  <1>3. Subject(w) # Subject(a)
    BY RunsAlone DEF Own
  <1> QED
    BY <1>2, <1>3

LEMMA ClaimedGoal ==
    ASSUME EvaluationInv, NEW w \in Workers, ClaimRun(w)
    PROVE  EvaluationGoal
  <1>1. w \in Actors /\ w \notin Clients /\ pc[w] = "task_read"
    BY QueueAssumption DEF ClaimRun, Actors
  <1>2. CASE Returns(w, "existing") /\ UNCHANGED records
    BY <1>1, <1>2, Returning, RunStays
  <1>3. CASE /\ MayClaimRun(Own(w), task[w])
             /\ Save(w, [status |-> "running", error |-> "none", owner |-> task[w]])
             /\ Returns(w, "dataset")
    <2> DEFINE new == [status |-> "running", error |-> "none", owner |-> task[w]]
    <2>1. new \in RunRecords /\ new.status = "running" /\ new.owner = task[w]
      BY <1>1 DEF RunRecords, Errors, EvaluationInv, QueueInv, QueueKnown
    <2>2. Moves(w, "dataset")
      BY <1>1, <1>3, Returning
    <2>3. record' = [record EXCEPT ![Subject(w)] = new] /\ Hold(w, new)
      BY <1>3 DEF Save
    <2> HIDE DEF new
    <2>4. copy' \in [Actors -> RunRecords] /\ \A x \in Actors : x # w => copy'[x] = copy[x]
      BY <1>1, <2>1, <2>3, Holding DEF EvaluationInv, RunTypes
    <2>5. /\ record' \in [Records -> RunRecords] /\ record'[Subject(w)] = new
          /\ \A x \in Records : x # Subject(w) => record'[x] = record[x]
          /\ Own(w).status = new.status \/ <<Own(w).status, new.status>> \in RunSteps => RunMoves
      BY <1>1, <2>1, <2>3, RunSaved
    <2>6. ASSUME Quiet', NEW v \in Workers, v # w,
                 AtRun(v) PROVE record'[Subject(v)] = record[Subject(v)]
      <3>1. Quiet
        BY <2>2, <2>6, QuietBefore DEF EvaluationInv, Moves
      <3> QED
        BY <1>1, <1>3, <2>5, <2>6, <3>1, RunSavedAtWork DEF MayClaimRun
    <2>7. EvaluationInv'
      BY <1>1, <2>1, <2>2, <2>4, <2>5, <2>6, RunActs DEF RunTypes
    <2>8. RunMoves
      BY <1>3, <2>1, <2>5 DEF MayClaimRun, RunSteps
    <2> QED
      BY <2>7, <2>8 DEF EvaluationGoal
  <1> QED
    BY <1>2, <1>3 DEF ClaimRun

LEMMA HeldFailed ==
    ASSUME EvaluationInv, NEW w \in Workers, NEW held \in RunRecords,
           \E e \in {"transient", "permanent"} : Hold(w, With(held, "failed", e))
    PROVE  /\ copy' \in [Actors -> RunRecords] /\ copy'[w].status = "failed"
           /\ \A x \in Actors : x # w => copy'[x] = copy[x]
  <1>1. PICK e \in {"transient", "permanent"} : Hold(w, With(held, "failed", e))
    OBVIOUS
  <1> DEFINE failed == With(held, "failed", e)
  <1>2. failed \in RunRecords /\ failed.status = "failed"
    BY DEF With, RunRecords, Errors
  <1>3. Hold(w, failed) /\ w \in Actors
    BY <1>1 DEF Actors
  <1> HIDE DEF failed
  <1> QED
    BY <1>2, <1>3, Holding DEF EvaluationInv, RunTypes

LEMMA CasesGoal ==
    ASSUME EvaluationInv, NEW w \in Workers, Cases(w)
    PROVE  EvaluationGoal
  <1>1. w \in Actors /\ w \notin Clients /\ pc[w] = "cases" /\ UNCHANGED record
            /\ "store" \in Kinds
    BY QueueAssumption DEF Cases, Actors, Kinds
  <1>2. CASE Returns(w, "finish") /\ UNCHANGED copy
    BY <1>1, <1>2, Returning, RunStays DEF records, AtRun
  <1>3. ASSUME Moves(w, "fail"),
               \E e \in {"transient", "permanent"} : Hold(w, With(copy[w], "failed", e))
        PROVE  EvaluationGoal
    <2>1. copy[w] \in RunRecords
      BY <1>1, RunSubject
    <2>2. /\ copy' \in [Actors -> RunRecords] /\ copy'[w].status = "failed"
          /\ \A x \in Actors : x # w => copy'[x] = copy[x]
      BY <1>3, <2>1, HeldFailed
    <2>3. RunTypes'
      BY <1>1, <2>2 DEF EvaluationInv, RunTypes
    <2>4. ASSUME Quiet' PROVE record'[Subject(w)].status = "running"
                 /\ record'[Subject(w)].owner = task[w]
      BY <2>4, <1>1, <1>3, QuietBefore DEF EvaluationInv, RunsAreOwned, Own, Moves, AtRun
    <2>5. EvaluationInv'
      BY <1>1, <1>3, <2>2, <2>3, <2>4, RunActs
    <2> QED
      BY <1>1, <2>5 DEF EvaluationGoal
  <1>4. CASE Returns(w, "fail") /\ Hold(w, With(copy[w], "failed", "permanent"))
    BY <1>1, <1>3, <1>4, Returning
  <1>5. CASE TryRaises("store", w, copy[w])
    BY <1>1, <1>3, <1>5, TryRaising DEF EvaluationInv
  <1> QED
    BY <1>2, <1>4, <1>5 DEF Cases

LEMMA FinishedGoal ==
    ASSUME EvaluationInv, NEW w \in Workers, FinishRun(w)
    PROVE  EvaluationGoal
  <1> DEFINE new == [copy[w] EXCEPT !.status = "completed"]
  <1>1. w \in Actors /\ w \notin Clients /\ pc[w] = "finish"
    BY QueueAssumption DEF FinishRun, Actors
  <1>2. new \in RunRecords /\ new.status = "completed"
    BY <1>1, RunSubject DEF RunRecords
  <1>3. SavesWell(w, new, "idle") \/ SavesBadly(w, new)
    BY <1>1, Saving DEF FinishRun, EvaluationInv
  <1> HIDE DEF new
  <1>4. record' = [record EXCEPT ![Subject(w)] = new] =>
          /\ record' \in [Records -> RunRecords] /\ record'[Subject(w)] = new
          /\ \A x \in Records : x # Subject(w) => record'[x] = record[x]
          /\ Own(w).status = new.status \/ <<Own(w).status, new.status>> \in RunSteps => RunMoves
    BY <1>1, <1>2, RunSaved
  <1>5. Counts
    BY <1>3 DEF SavesWell, SavesBadly, Moves
  <1>6. Quiet' => Quiet
    BY <1>5, QuietBefore DEF EvaluationInv
  <1>7. CASE SavesWell(w, new, "idle")
    <2>1. RunTypes' /\ \A x \in Actors : x # w => copy'[x] = copy[x]
      BY <1>1, <1>2, <1>4, <1>7, Holding DEF SavesWell, EvaluationInv, RunTypes
    <2>2. ASSUME Quiet', NEW v \in Workers, v # w,
                 AtRun(v) PROVE record'[Subject(v)] = record[Subject(v)]
      BY <1>1, <1>4, <1>6, <1>7, <2>2, RunSavedAtWork DEF SavesWell, AtRun
    <2>3. EvaluationInv'
      BY <1>1, <1>7, <2>1, <2>2, RunActs DEF SavesWell
    <2>4. Quiet' => RunMoves
      BY <1>1, <1>2, <1>4, <1>6, <1>7 DEF SavesWell, EvaluationInv, RunsAreOwned, AtRun, RunSteps
    <2> QED
      BY <2>3, <2>4 DEF EvaluationGoal
  <1>8. CASE SavesBadly(w, new)
    <2>1. /\ copy' \in [Actors -> RunRecords] /\ copy'[w].status = "failed"
          /\ \A x \in Actors : x # w => copy'[x] = copy[x]
      BY <1>2, <1>8, HeldFailed DEF SavesBadly
    <2>2. RunTypes'
      BY <1>4, <1>8, <2>1 DEF SavesBadly, EvaluationInv, RunTypes
    <2>3. Quiet' => UNCHANGED record
      BY <1>8 DEF SavesBadly, Quiet
    <2>4. Quiet' => record'[Subject(w)].status = "running" /\ record'[Subject(w)].owner = task[w]
      BY <1>1, <1>6, <2>3 DEF EvaluationInv, RunsAreOwned, Own, AtRun
    <2>5. EvaluationInv'
      BY <1>1, <1>8, <2>1, <2>2, <2>3, <2>4, RunActs DEF SavesBadly
    <2> QED
      BY <2>3, <2>5 DEF EvaluationGoal
  <1> QED
    BY <1>3, <1>7, <1>8

LEMMA FailedGoal ==
    ASSUME EvaluationInv, NEW w \in Workers, FailAndRaise(w)
    PROVE  EvaluationGoal
  <1>1. w \in Actors /\ w \notin Clients /\ pc[w] = "fail"
    BY QueueAssumption DEF FailAndRaise, Actors
  <1>2. PICK label \in {"raised", "idle"} : Moves(w, label) /\ faults' = faults
    BY <1>1 DEF FailAndRaise, Caught, Moves, Counts
  <1>3. copy[w] \in RunRecords /\ copy[w].status = "failed"
    BY <1>1, RunSubject DEF EvaluationInv, RunLabels
  <1>4. record' = [record EXCEPT ![Subject(w)] = copy[w]] /\ Hold(w, copy[w])
    BY DEF FailAndRaise, Save
  <1>5. /\ record' \in [Records -> RunRecords] /\ record'[Subject(w)] = copy[w]
        /\ \A x \in Records : x # Subject(w) => record'[x] = record[x]
        /\ Own(w).status = copy[w].status \/ <<Own(w).status, copy[w].status>> \in RunSteps =>
               RunMoves
    BY <1>1, <1>3, <1>4, RunSaved
  <1>6. RunTypes' /\ \A x \in Actors : x # w => copy'[x] = copy[x]
    BY <1>1, <1>3, <1>4, <1>5, Holding DEF EvaluationInv, RunTypes
  <1>7. Quiet' => Quiet
    BY <1>2 DEF Quiet
  <1>8. ASSUME Quiet', NEW v \in Workers, v # w,
               AtRun(v) PROVE record'[Subject(v)] = record[Subject(v)]
    BY <1>1, <1>5, <1>7, <1>8, RunSavedAtWork DEF AtRun
  <1>9. EvaluationInv'
    BY <1>1, <1>2, <1>6, <1>8, RunActs
  <1>10. Quiet' => RunMoves
    BY <1>1, <1>3, <1>5, <1>7 DEF EvaluationInv, RunsAreOwned, AtRun, RunSteps
  <1> QED
    BY <1>9, <1>10 DEF EvaluationGoal
\* What a step keeps that is no move of an actor at work: a request that arrives, a task
\* that is sent, taken, sent again or delivered again.
LEMMA RunsKept ==
    ASSUME EvaluationInv, QueueInv', RunTypes', UNCHANGED copy,
           \A k \in Kinds : faults[k] <= faults'[k],
           \A c \in Clients : pc'[c] \in {"unsent", "unsent_save"} =>
               pc'[c] = pc[c] \/ faults'["broker"] > 0,
           \A w \in Workers : AtRun(w)' =>
               pc'[w] = pc[w] /\ task'[w] = task[w] /\ Subject(w)' = Subject(w),
           Quiet' => OnePlace',
           Quiet' => \A w \in Workers : AtRun(w) => record'[Subject(w)] = record[Subject(w)]
    PROVE  EvaluationInv'
  <1>1. {"broker", "resent", "answer"} \subseteq Kinds /\ faults \in [Kinds -> Nat]
            /\ faults' \in [Kinds -> Nat]
    BY DEF Kinds, EvaluationInv, QueueInv, QueueShape
  <1>2. RunLabels'
    BY <1>1 DEF EvaluationInv, RunLabels, AtRun
  <1>3. ASSUME Quiet' PROVE RunsAreOwned'
    <2>1. Quiet
      BY <1>1, <1>3 DEF Quiet
    <2>2. ASSUME NEW w \in Workers,
                 AtRun(w)' PROVE Own(w)'.status = "running" /\ Own(w)'.owner = task'[w]
      <3>1. AtRun(w) /\ task'[w] = task[w] /\ Subject(w)' = Subject(w)
        BY <2>2 DEF AtRun
      <3> QED
        BY <1>3, <2>1, <3>1 DEF EvaluationInv, RunsAreOwned, Own
    <2> QED
      BY <2>2 DEF RunsAreOwned
  <1> QED
    BY <1>2, <1>3 DEF EvaluationInv

LEMMA ArrivedGoal ==
    ASSUME EvaluationInv, NEW c \in Clients, NEW r \in Runs, CreateRun(c, r) \/ RetryRun(c, r)
    PROVE  EvaluationGoal
  <1>1. PICK label \in {"send_read", "check"} : Arrives(c, r, label)
    BY DEF CreateRun, RetryRun
  <1>2. UNCHANGED <<copy, faults>> /\ r \in Records
    BY <1>1, RunsAssumption DEF CreateRun, RetryRun, records, Arrives
  <1>3. /\ QueueInv' /\ Reaches(c, label)
        /\ \A x \in Actors : pc[x] # "idle" => Subject(x)' = Subject(x)
    BY <1>1, <1>2, Arriving DEF EvaluationInv
  <1>4. UNCHANGED record
            \/ (record[r].status = "absent" /\ record' = [record EXCEPT ![r].status = "queued"])
    BY DEF CreateRun, RetryRun, records
  <1>5. /\ RunTypes' /\ \A x \in Records : x # r => record'[x] = record[x]
        /\ UNCHANGED record \/ (record[r].status = "absent" /\ record'[r].status = "queued")
    <2>1. CASE UNCHANGED record
      BY <2>1, <1>2 DEF EvaluationInv, RunTypes
    <2>2. CASE record[r].status = "absent" /\ record' = [record EXCEPT ![r].status = "queued"]
      BY <2>2, <1>2 DEF EvaluationInv, RunTypes, RunRecords
    <2> QED
      BY <1>4, <2>1, <2>2
  <1>6. \A w \in Workers : pc'[w] = pc[w] /\ task'[w] = task[w] /\ w \in Actors
    BY <1>1, <1>3, QueueAssumption DEF Reaches, Actors, Arrives
  <1>7. ASSUME Quiet', NEW w \in Workers, AtRun(w) PROVE record'[Subject(w)] = record[Subject(w)]
    <2>1. pc[w] # "idle" /\ w \in Actors
      BY <1>6, <1>7 DEF AtRun
    <2>2. Subject(w) \in Records /\ Quiet
      BY <2>1, <1>2, <1>7, RunSubject DEF Quiet
    <2> QED
      BY <1>5, <1>7, <2>2, NotRunning
  <1>8. Quiet' => OnePlace'
    BY <1>1, <1>2, ArrivingPlaces DEF EvaluationInv, Quiet
  <1>9. \A d \in Clients : pc'[d] \in {"unsent", "unsent_save"} => pc'[d] = pc[d]
    BY <1>1, <1>3 DEF Reaches, Actors
  <1>10. \A w \in Workers : AtRun(w)' =>
             pc'[w] = pc[w] /\ task'[w] = task[w] /\ Subject(w)' = Subject(w)
    BY <1>3, <1>6 DEF AtRun
  <1>11. \A k \in Kinds : faults[k] <= faults'[k]
    BY <1>2 DEF EvaluationInv, QueueInv, QueueShape
  <1>12. EvaluationInv'
    BY <1>2, <1>3, <1>5, <1>7, <1>8, <1>9, <1>10, <1>11, RunsKept
  <1>13. UNCHANGED record \/ RunMoves
    BY <1>2, <1>5 DEF RunMoves, RunSteps
  <1> QED
    BY <1>12, <1>13 DEF EvaluationGoal

LEMMA SentGoal ==
    ASSUME EvaluationInv, NEW c \in Clients, Send(c)
    PROVE  EvaluationGoal
  <1>1. /\ QueueInv' /\ (Reaches(c, "done") \/ Reaches(c, "unsent"))
        /\ \A x : Subject(x)' = Subject(x)
    BY Sending DEF EvaluationInv
  <1>2. UNCHANGED <<record, copy, task>> /\ "broker" \in Kinds /\ c \in Actors
    BY DEF Send, records, Kinds, Actors
  <1>3. (Goto(c, "done") \/ Goto(c, "unsent")) /\ (Goto(c, "done") \/ Fault("broker"))
    BY DEF Send
  <1>4. Reaches(c, "done") \/ faults'["broker"] > 0
    BY <1>2, <1>3, FaultCounts, Going DEF EvaluationInv
  <1>5. Counts
    BY DEF Send, Counts, Kinds
  <1>6. \A k \in Kinds : faults[k] <= faults'[k]
    BY <1>5, CountsGrow DEF EvaluationInv
  <1>7. Quiet' => OnePlace'
    BY <1>5, SendingPlaces, QuietBefore DEF EvaluationInv
  <1>8. \A w \in Workers : pc'[w] = pc[w]
    BY <1>1, QueueAssumption DEF Reaches, Actors
  <1>9. \A d \in Clients : pc'[d] \in {"unsent", "unsent_save"} =>
            pc'[d] = pc[d] \/ faults'["broker"] > 0
    BY <1>1, <1>4 DEF Reaches, Actors
  <1>10. RunTypes'
    BY <1>2 DEF EvaluationInv, RunTypes
  <1>11. EvaluationInv'
    BY <1>1, <1>2, <1>6, <1>7, <1>8, <1>9, <1>10, RunsKept
  <1> QED
    BY <1>2, <1>11 DEF EvaluationGoal

\* A worker that takes a task, sends it again or is lost.
LEMMA WorkersTurnGoal ==
    ASSUME EvaluationInv, NEW w \in Workers, NEW label \in {"task_read", "acknowledge", "idle"},
           QueueInv', Reaches(w, label), Counts, UNCHANGED records, Quiet' => OnePlace',
           \A v \in Workers : v # w => task'[v] = task[v],
           \A x \in Actors : pc[x] # "idle" => Subject(x)' = Subject(x)
    PROVE  EvaluationGoal
  <1>1. \A k \in Kinds : faults[k] <= faults'[k]
    BY CountsGrow DEF EvaluationInv
  <1>2. \A d \in Clients : pc'[d] = pc[d]
    BY QueueAssumption DEF Reaches, Actors
  <1>3. \A v \in Workers : AtRun(v)' =>
            pc'[v] = pc[v] /\ task'[v] = task[v] /\ Subject(v)' = Subject(v)
    BY DEF AtRun, Reaches, Actors
  <1>4. RunTypes' /\ UNCHANGED <<record, copy>>
    BY DEF EvaluationInv, RunTypes, records
  <1>5. EvaluationInv'
    BY <1>1, <1>2, <1>3, <1>4, RunsKept
  <1> QED
    BY <1>4, <1>5 DEF EvaluationGoal

LEMMA TurnedGoal ==
    ASSUME EvaluationInv, NEW w \in Workers,
           (\E m \in waiting : Take(w, m)) \/ Resend(w) \/ LoseWorker(w)
    PROVE  EvaluationGoal
  <1>1. ASSUME NEW m \in waiting, Take(w, m) PROVE EvaluationGoal
    <2>1. Counts /\ UNCHANGED records
      BY <1>1 DEF Take, Counts
    <2>2. Quiet' => OnePlace'
      BY <1>1, <2>1, TakingPlaces, QuietBefore DEF EvaluationInv
    <2> QED
      BY <1>1, <2>1, <2>2, Taking, WorkersTurnGoal DEF EvaluationInv
  <1>2. CASE Resend(w)
    <2>1. Counts /\ UNCHANGED <<records, task>>
      BY <1>2 DEF Resend, Raises, Returns, Counts, Kinds
    <2>2. Quiet' => OnePlace'
      BY <1>2, <2>1, ResendingPlaces, QuietBefore DEF EvaluationInv
    <2> QED
      BY <1>2, <2>1, <2>2, Resending, WorkersTurnGoal DEF EvaluationInv
  <1>3. CASE LoseWorker(w)
    <2>1. Counts /\ UNCHANGED <<records, task>>
      BY <1>3 DEF LoseWorker, Counts, Kinds
    <2>2. Quiet' => OnePlace'
      BY <1>3, <2>1, LosingPlaces, QuietBefore DEF EvaluationInv
    <2> QED
      BY <1>3, <2>1, <2>2, LosingWorker, WorkersTurnGoal DEF EvaluationInv
  <1> QED
    BY <1>1, <1>2, <1>3

LEMMA UnsentGoal ==
    ASSUME EvaluationInv, NEW c \in Clients, MarkUnsent(c)
    PROVE  EvaluationGoal
  <1>1. c \in Actors /\ c \notin Workers /\ pc[c] # "idle"
            /\ pc[c] \in {"unsent", "unsent_save"} /\ "broker" \in Kinds
    BY QueueAssumption DEF MarkUnsent, Actors, Kinds
  <1>2. PICK label \in {"unsent_save", "done"} : Moves(c, label)
    BY ClientsMove DEF EvaluationInv
  <1>3. faults["broker"] > 0 /\ faults'["broker"] \in Nat /\ faults["broker"] \in Nat
            /\ faults["broker"] <= faults'["broker"]
    BY <1>1, <1>2, CountsGrow DEF EvaluationInv, RunLabels, Moves, QueueInv, QueueShape
  <1>4. ~Quiet' /\ faults'["broker"] > 0
    BY <1>3 DEF Quiet
  <1>5. Own(c) \in RunRecords /\ copy[c] \in RunRecords /\ Subject(c) \in Records
    BY <1>1, RunSubject
  <1>6. With(copy[c], "failed", "queue") \in RunRecords
    BY <1>5 DEF With, RunRecords, Errors
  <1>7. RunTypes' /\ \A x \in Actors : x # c => copy'[x] = copy[x]
    <2>1. CASE Hold(c, Own(c)) /\ UNCHANGED record
      BY <1>1, <1>5, <2>1, Holding DEF EvaluationInv, RunTypes
    <2>2. CASE Save(c, With(copy[c], "failed", "queue"))
      BY <1>1, <1>5, <1>6, <2>2, Holding, Writing DEF EvaluationInv, RunTypes, Save
    <2> QED
      BY <2>1, <2>2 DEF MarkUnsent
  <1>8. EvaluationInv'
    BY <1>1, <1>2, <1>4, <1>7, RunActs
  <1> QED
    BY <1>4, <1>8 DEF EvaluationGoal

\* Every step of the evaluation service keeps its invariant, and moves a run no further
\* than RunMoves says.
LEMMA EvaluationStep ==
    ASSUME EvaluationInv, EvaluationNext \/ UNCHANGED queueVars
    PROVE  EvaluationGoal
  <1> USE DEF Actors, Kinds
  <1>1. ASSUME NEW c \in Clients, NEW r \in Runs,
               CreateRun(c, r) \/ RetryRun(c, r) PROVE EvaluationGoal
    BY <1>1, ArrivedGoal
  <1>2. ASSUME NEW c \in Clients, Check(c) PROVE EvaluationGoal
    BY <1>2, Returning, RunStays DEF Check
  <1>3. ASSUME NEW a \in Actors, Prepare(a) PROVE EvaluationGoal
    BY <1>3, PreparedGoal
  <1>4. ASSUME NEW c \in Clients, SendRead(c) \/ LoseRequest(c) PROVE EvaluationGoal
    <2>1. c \in Actors /\ c \notin Workers /\ QueueInv
      BY QueueAssumption DEF EvaluationInv
    <2>2. CASE SendRead(c)
      BY <2>1, <2>2, ClientsMove, RunStays
    <2>3. CASE LoseRequest(c)
      BY <2>1, <2>3, ClientsMove, RunStays
    <2> QED
      BY <1>4, <2>2, <2>3
  <1>5. ASSUME NEW c \in Clients, Send(c) PROVE EvaluationGoal
    BY <1>5, SentGoal
  <1>6. ASSUME NEW c \in Clients, MarkUnsent(c) PROVE EvaluationGoal
    BY <1>6, UnsentGoal
  <1>7. ASSUME NEW w \in Workers, (\E m \in waiting : Take(w, m)) \/ Resend(w) \/ LoseWorker(w)
        PROVE  EvaluationGoal
    BY <1>7, TurnedGoal
  <1>8. ASSUME NEW w \in Workers, Existing(w) PROVE EvaluationGoal
    BY <1>8, Returning, RunStays, QueueAssumption DEF Existing
  <1>9. ASSUME NEW w \in Workers, GetDataset(w) PROVE EvaluationGoal
    BY <1>9, Returning, RunStays, QueueAssumption DEF GetDataset, AtRun
  <1>10. ASSUME NEW w \in Workers, ClaimRun(w) \/ Cases(w) \/ FinishRun(w) \/ FailAndRaise(w)
         PROVE  EvaluationGoal
    BY <1>10, ClaimedGoal, CasesGoal, FinishedGoal, FailedGoal
  <1>11. ASSUME NEW w \in Workers, ExecuteRaises(w) PROVE EvaluationGoal
    <2>1. PICK label \in {"raised", "idle"} : Moves(w, label)
      BY <1>11, QueueAssumption DEF ExecuteRaises, Caught, Moves, Counts
    <2> QED
      BY <1>11, <2>1, RunStays, QueueAssumption DEF ExecuteRaises
  <1>12. ASSUME NEW a \in Actors, RunBreaks(a) PROVE EvaluationGoal
    <2>1. PICK label \in {"done", "idle"} : Moves(a, label) /\ (a \in Clients => pc[a] # "done")
      BY <1>12, Raising, QueueAssumption DEF RunBreaks
    <2> QED
      BY <1>12, <2>1, RunStays DEF RunBreaks
  <1>13. CASE UNCHANGED queueVars
    <2>1. UNCHANGED <<record, copy, waiting, pc, asked, task, retries, faults>>
      BY <1>13 DEF queueVars, records
    <2>2. QueueInv'
      BY <2>1 DEF EvaluationInv, QueueInv, QueueShape, QueueKnown
    <2>3. RunTypes' /\ RunLabels'
      BY <2>1 DEF EvaluationInv, RunTypes, RunLabels
    <2>4. Quiet' => OnePlace'
      BY <2>1 DEF EvaluationInv, Quiet, OnePlace, Holds
    <2>5. Quiet' => RunsAreOwned'
      BY <2>1 DEF EvaluationInv, Quiet, RunsAreOwned, AtRun, Own, Subject
    <2> QED
      BY <2>1, <2>2, <2>3, <2>4, <2>5 DEF EvaluationGoal, EvaluationInv
  <1> QED
    BY <1>1, <1>2, <1>3, <1>4, <1>5, <1>6, <1>7, <1>8, <1>9, <1>10, <1>11, <1>12, <1>13
       DEF EvaluationNext, EvaluationClientStep, EvaluationWorkerStep

-----------------------------------------------------------------------------
(* Standardization jobs *)

StageNames == {"validating", "snapshotting", "inventorying", "standardizing"}

JobRecords ==
    [status : {"absent", "queued", "review", "failed"} \cup StageNames, error : Errors,
     report : BOOLEAN]

JobTypes == record \in [Records -> JobRecords] /\ copy \in [Actors -> JobRecords]

\* A request is about a job that there is; what is put back into the queue, and saved by a
\* handler, has failed.
JobLabels ==
    /\ \A c \in Clients :
         /\ pc[c] # "idle" => record[asked[c]].status # "absent"
         /\ pc[c] \in {"unsent", "unsent_save"} => faults["broker"] > 0
    /\ \A w \in Workers : pc[w] = "fail" => copy[w].status = "failed"
    /\ \A a \in Actors : pc[a] = "requeue_save" => copy[a].status = "failed"

\* The statuses a job may have while a worker is at its stages: it is taken up as it waits.
Proceeds(status, label) ==
    status \in StageNames \/ (status = "queued" /\ label \in {"validating", "fail"})

\* A worker at work has its job to itself, unless two of them have met (outrun).
WorkIsAlone ==
    \A w \in Workers : AtWork(w) =>
        /\ Proceeds(Own(w).status, pc[w])
        /\ \A v \in Workers : AtWork(v) /\ Subject(v) = Subject(w) => v = w

JobInv == QueueInv /\ JobTypes /\ JobLabels /\ (~JobDisturbed => WorkIsAlone)

\* How far a step moves one job.
JobMoves ==
    \E r \in Records :
        /\ \A x \in Records : x # r => record'[x] = record[x]
        /\ \/ record'[r].status = record[r].status
           \/ <<record[r].status, record'[r].status>> \in
                  {<<"absent", "queued">>, <<"queued", "failed">>, <<"failed", "queued">>}
           \/ record[r].status \in {"queued"} \cup StageNames /\ record'[r].status \in StageNames
           \/ record[r].status \in StageNames /\ record'[r].status \in {"review", "failed"}

JobGoal ==
    /\ JobInv' /\ (JobDisturbed => JobDisturbed')
    /\ ~JobDisturbed' => UNCHANGED record \/ JobMoves

LEMMA TryLabels == StandardizationTry = StageNames \cup {"finish"}
  <1>1. \A i \in 1 .. 4 : i = 1 \/ i = 2 \/ i = 3 \/ i = 4
    OBVIOUS
  <1>2. /\ Stages[1] = "validating" /\ Stages[2] = "snapshotting"
        /\ Stages[3] = "inventorying" /\ Stages[4] = "standardizing"
    BY DEF Stages
  <1>3. {Stages[i] : i \in 1 .. 4} = StageNames
    BY <1>1, <1>2 DEF StageNames
  <1> QED
    BY <1>3 DEF StandardizationTry

LEMMA WorkLabels ==
    ASSUME NEW w
    PROVE  AtWork(w) <=> pc[w] \in StageNames \cup {"finish", "fail"}
  BY TryLabels DEF AtWork

LEMMA Disturbs ==
    ASSUME QueueInv, Counts, outrun \subseteq outrun'
    PROVE  JobDisturbed => JobDisturbed'
  <1>1. {"broker", "answer"} \subseteq Kinds
    BY DEF Kinds
  <1>2. faults \in [Kinds -> Nat] /\ faults' \in [Kinds -> Nat] /\ \A k \in Kinds :
            faults[k] <= faults'[k]
    BY CountsGrow DEF QueueInv, QueueShape
  <1> QED
    BY <1>1, <1>2 DEF JobDisturbed

LEMMA JobSubject ==
    ASSUME JobInv, NEW a \in Actors, pc[a] # "idle"
    PROVE  /\ Subject(a) \in Records /\ Own(a) \in JobRecords /\ copy[a] \in JobRecords
           /\ Own(a).status # "absent"
  BY DEF JobInv, QueueInv, QueueKnown, JobTypes, JobLabels, Subject, Own, Actors

\* What an actor must leave alone for the invariant to hold again.
LEMMA JobActs ==
    ASSUME JobInv, NEW a \in Actors, NEW label, Moves(a, label), JobTypes',
           outrun \subseteq outrun',
           \A x \in Actors : x # a => copy'[x] = copy[x],
           \A r \in Records : record[r].status # "absent" => record'[r].status # "absent",
           a \in Workers /\ label = "fail" => copy'[a].status = "failed",
           label = "requeue_save" => copy'[a].status = "failed",
           a \in Clients => (label \in {"unsent", "unsent_save"} => faults'["broker"] > 0),
           ~JobDisturbed' =>
               /\ a \in Workers /\ label \in StageNames \cup {"finish", "fail"} =>
                      /\ Proceeds(record'[Subject(a)].status, label)
                      /\ AtWork(a) \/ \A v \in Workers : v # a /\ AtWork(v) =>
                             Subject(v) # Subject(a)
               /\ \A w \in Workers : w # a /\ AtWork(w) =>
                      record'[Subject(w)] = record[Subject(w)]
    PROVE  JobInv' /\ (JobDisturbed => JobDisturbed')
  <1>1. QueueInv' /\ Reaches(a, label) /\ \A x : Subject(x)' = Subject(x)
    BY Moving DEF JobInv
  <1>2. "broker" \in Kinds /\ faults["broker"] \in Nat /\ faults'["broker"] \in Nat
            /\ faults["broker"] <= faults'["broker"]
    BY CountsGrow DEF Moves, Kinds, JobInv, QueueInv, QueueShape
  <1>3. UNCHANGED asked /\ \A c \in Clients : pc'[c] # "idle" =>
            pc[c] # "idle" /\ asked[c] \in Records
    BY <1>1 DEF Moves, Reaches, Actors, JobInv, QueueInv, QueueKnown
  <1>4. JobLabels'
    BY <1>1, <1>2, <1>3, QueueAssumption DEF JobInv, JobLabels, Reaches, Actors
  <1>5. JobDisturbed => JobDisturbed'
    BY Disturbs DEF JobInv, Moves
  <1>6. ASSUME ~JobDisturbed' PROVE WorkIsAlone'
    <2>1. WorkIsAlone
      BY <1>5, <1>6 DEF JobInv
    <2>2. \A w \in Workers : Own(w)' = record'[Subject(w)]
      BY <1>1 DEF Own
    <2>3. \A w \in Workers : w # a => pc'[w] = pc[w] /\ (AtWork(w)' <=> AtWork(w))
      BY <1>1, WorkLabels DEF Reaches, Actors, AtWork
    <2>4. a \in Workers =>
              pc'[a] = label /\ (AtWork(a)' <=> label \in StageNames \cup {"finish", "fail"})
      BY <1>1, TryLabels DEF Reaches, AtWork
    <2>5. ASSUME NEW w \in Workers, AtWork(w)' PROVE Proceeds(Own(w)'.status, pc'[w])
      BY <2>1, <2>2, <2>3, <2>4, <2>5, <1>6 DEF WorkIsAlone, Own
    <2>6. ASSUME NEW v \in Workers, NEW w \in Workers, AtWork(v)', AtWork(w)',
                 Subject(v) = Subject(w) PROVE v = w
      BY <2>1, <2>3, <2>4, <2>6, <1>6 DEF WorkIsAlone
    <2> QED
      BY <2>5, <2>6, <1>1 DEF WorkIsAlone
  <1> QED
    BY <1>1, <1>4, <1>5, <1>6 DEF JobInv

\* Nobody is at work on a job that is absent or has ended.
LEMMA NotAtWork ==
    ASSUME JobInv, ~JobDisturbed, NEW w \in Workers, AtWork(w), NEW r,
           record[r].status \in {"absent", "review", "failed"}
    PROVE  Subject(w) # r
  BY DEF JobInv, WorkIsAlone, Proceeds, StageNames, Own

LEMMA JobStays ==
    ASSUME JobInv, NEW a \in Actors, NEW label, Moves(a, label), UNCHANGED <<records, outrun>>,
           label \notin StageNames \cup {"finish", "fail", "requeue_save", "unsent", "unsent_save"}
    PROVE  JobGoal
  <1>1. JobTypes'
    BY DEF JobInv, JobTypes, records
  <1>2. JobInv' /\ (JobDisturbed => JobDisturbed')
    BY <1>1, JobActs DEF records
  <1> QED
    BY <1>2 DEF records, JobGoal

LEMMA JobSaved ==
    ASSUME JobInv, NEW a \in Actors, pc[a] # "idle", NEW saved \in JobRecords,
           saved.status # "absent",
           record' = [record EXCEPT ![Subject(a)] = saved]
    PROVE  /\ record' \in [Records -> JobRecords] /\ record'[Subject(a)] = saved
           /\ \A x \in Records : x # Subject(a) => record'[x] = record[x]
           /\ \A x \in Records : record[x].status # "absent" => record'[x].status # "absent"
  <1>1. Subject(a) \in Records
    BY JobSubject
  <1>2. /\ record' \in [Records -> JobRecords] /\ record'[Subject(a)] = saved
        /\ \A x \in Records : x # Subject(a) => record'[x] = record[x]
    BY <1>1, Writing DEF JobInv, JobTypes
  <1> QED
    BY <1>2

LEMMA JobHeldFailed ==
    ASSUME JobInv, NEW w \in Workers, NEW held \in JobRecords,
           \E e \in {"transient", "permanent"} : Hold(w, With(held, "failed", e))
    PROVE  /\ copy' \in [Actors -> JobRecords] /\ copy'[w].status = "failed"
           /\ \A x \in Actors : x # w => copy'[x] = copy[x]
  <1>1. PICK e \in {"transient", "permanent"} : Hold(w, With(held, "failed", e))
    OBVIOUS
  <1> DEFINE failed == With(held, "failed", e)
  <1>2. failed \in JobRecords /\ failed.status = "failed"
    BY DEF With, JobRecords, Errors
  <1>3. Hold(w, failed) /\ w \in Actors
    BY <1>1 DEF Actors
  <1> HIDE DEF failed
  <1> QED
    BY <1>2, <1>3, Holding DEF JobInv, JobTypes

\* A worker that is at it alone saves the job.
LEMMA WorkSaved ==
    ASSUME JobInv, ~JobDisturbed, NEW a \in Workers, AtWork(a),
           \A x \in Records : x # Subject(a) => record'[x] = record[x],
           NEW w \in Workers, w # a, AtWork(w)
    PROVE  record'[Subject(w)] = record[Subject(w)]
  <1>1. w \in Actors /\ pc[w] # "idle"
    BY WorkLabels DEF StageNames, Actors
  <1>2. Subject(w) \in Records /\ Subject(w) # Subject(a)
    BY <1>1, JobSubject DEF JobInv, WorkIsAlone
  <1> QED
    BY <1>2

LEMMA RequeueReadGoal ==
    ASSUME JobInv, NEW a \in Actors, RequeueRead(a)
    PROVE  JobGoal
  <1>1. pc[a] # "idle" /\ Own(a) \in JobRecords /\ UNCHANGED <<record, outrun>>
    BY JobSubject DEF RequeueRead
  <1>2. PICK label : /\ Returns(a, label)
                     /\ label \in {"requeue_save", "send_read", "resend", "process"}
                     /\ label = "requeue_save" => Own(a).status = "failed"
    BY DEF RequeueRead, AfterRequeue, Actors
  <1>3. Moves(a, label)
    BY <1>1, <1>2, Returning
  <1>4. /\ copy' \in [Actors -> JobRecords] /\ copy'[a] = Own(a)
        /\ \A x \in Actors : x # a => copy'[x] = copy[x]
    BY <1>1, Holding DEF RequeueRead, JobInv, JobTypes
  <1>5. JobTypes'
    BY <1>1, <1>4 DEF JobInv, JobTypes
  <1>6. JobInv' /\ (JobDisturbed => JobDisturbed')
    BY <1>1, <1>2, <1>3, <1>4, <1>5, JobActs DEF StageNames
  <1> QED
    BY <1>1, <1>6 DEF JobGoal

LEMMA RequeueSaveGoal ==
    ASSUME JobInv, NEW a \in Actors, RequeueSave(a)
    PROVE  JobGoal
  <1> DEFINE new == JobRequeued(copy[a])
  <1>1. pc[a] = "requeue_save" /\ Subject(a) \in Records /\ Own(a) \in JobRecords
            /\ copy[a] \in JobRecords /\ copy[a].status = "failed"
    BY JobSubject DEF RequeueSave, JobInv, JobLabels
  <1>2. new \in JobRecords /\ new.status = "queued"
    BY <1>1 DEF JobRequeued, JobRecords, Errors
  <1>3. PICK label \in {"send_read", "resend", "process"} : Returns(a, label)
    BY DEF RequeueSave, AfterRequeue, Actors
  <1>4. Moves(a, label)
    BY <1>1, <1>3, Returning
  <1>5. /\ record' = [record EXCEPT ![Subject(a)] = new] /\ Hold(a, new)
        /\ outrun' = IF Own(a) # copy[a] THEN outrun \cup {Subject(a)} ELSE outrun
    BY DEF RequeueSave, Save
  <1> HIDE DEF new
  <1>6. /\ record' \in [Records -> JobRecords] /\ record'[Subject(a)] = new
        /\ \A x \in Records : x # Subject(a) => record'[x] = record[x]
        /\ \A x \in Records : record[x].status # "absent" => record'[x].status # "absent"
    BY <1>1, <1>2, <1>5, JobSaved
  <1>7. /\ copy' \in [Actors -> JobRecords] /\ \A x \in Actors : x # a => copy'[x] = copy[x]
    BY <1>2, <1>5, Holding DEF JobInv, JobTypes
  <1>8. JobTypes' /\ outrun \subseteq outrun'
    BY <1>5, <1>6, <1>7 DEF JobTypes
  <1>9. ~JobDisturbed' => Own(a).status = "failed" /\ ~JobDisturbed
    BY <1>1, <1>4, <1>5, <1>8, Disturbs DEF JobDisturbed, JobInv, Moves
  <1>10. ASSUME ~JobDisturbed', NEW w \in Workers,
                AtWork(w) PROVE record'[Subject(w)] = record[Subject(w)]
    <2>1. w \in Actors /\ pc[w] # "idle"
      BY <1>10, WorkLabels DEF StageNames, Actors
    <2>2. Subject(w) \in Records /\ Subject(w) # Subject(a)
      BY <1>9, <1>10, <2>1, JobSubject, NotAtWork DEF Own
    <2> QED
      BY <1>6, <2>2
  <1>11. JobInv' /\ (JobDisturbed => JobDisturbed')
    BY <1>1, <1>3, <1>4, <1>6, <1>7, <1>8, <1>10, JobActs DEF StageNames
  <1>12. ~JobDisturbed' => JobMoves
    BY <1>1, <1>2, <1>6, <1>9 DEF JobMoves, Own
  <1> QED
    BY <1>11, <1>12 DEF JobGoal

LEMMA ProcessGoal ==
    ASSUME JobInv, NEW w \in Workers, Process(w)
    PROVE  JobGoal
  <1>1. w \in Actors /\ w \notin Clients /\ pc[w] = "process" /\ UNCHANGED record
            /\ outrun \subseteq outrun'
    BY QueueAssumption DEF Process, Actors
  <1>2. Own(w) \in JobRecords /\ Own(w).status # "absent"
    BY <1>1, JobSubject
  <1>3. PICK label \in {"outcome", "validating"} : Returns(w, label)
                 /\ (label = "validating" => ~HasEnded(Own(w)))
    BY DEF Process, Stages
  <1>4. Moves(w, label)
    BY <1>1, <1>3, Returning
  <1>5. copy' \in [Actors -> JobRecords] /\ \A x \in Actors : x # w => copy'[x] = copy[x]
    BY <1>1, <1>2, Holding DEF Process, JobInv, JobTypes
  <1>6. JobTypes'
    BY <1>1, <1>5 DEF JobInv, JobTypes
  <1>7. ASSUME label = "validating", ~JobDisturbed'
        PROVE  /\ Proceeds(record'[Subject(w)].status, label)
               /\ \A v \in Workers : AtWork(v) => Subject(v) # Subject(w)
    <2>1. Proceeds(Own(w).status, label)
      BY <1>2, <1>3, <1>7 DEF Proceeds, HasEnded, JobRecords
    <2>2. outrun' = {}
      BY <1>7 DEF JobDisturbed
    <2>3. ~\E v \in Workers : AtWork(v) /\ Subject(v) = Subject(w)
      BY <1>3, <1>7, <2>2 DEF Process
    <2> QED
      BY <1>1, <2>1, <2>3 DEF Own
  <1>8. JobInv' /\ (JobDisturbed => JobDisturbed')
    BY <1>1, <1>3, <1>4, <1>5, <1>6, <1>7, JobActs DEF StageNames
  <1> QED
    BY <1>1, <1>8 DEF JobGoal

\* A worker at work saves the job as it has it, or fails to.
LEMMA WorkGoal ==
    ASSUME JobInv, NEW w \in Workers, AtWork(w), NEW saved \in JobRecords, NEW label,
           UNCHANGED outrun,
           saved.status \in StageNames \/ (saved.status = "review" /\ pc[w] = "finish"),
           label \in StageNames \cup {"finish"} => saved.status \in StageNames,
           label \notin {"fail", "requeue_save", "unsent", "unsent_save"},
           SavesWell(w, saved, label) \/ SavesBadly(w, saved)
    PROVE  JobGoal
  <1>1. w \in Actors /\ w \notin Clients /\ pc[w] # "idle" /\ "absent" \notin StageNames
    BY WorkLabels, QueueAssumption DEF StageNames, Actors
  <1>2. Subject(w) \in Records
    BY <1>1, JobSubject
  <1>3. record' = [record EXCEPT ![Subject(w)] = saved] =>
          /\ record' \in [Records -> JobRecords] /\ record'[Subject(w)] = saved
          /\ \A x \in Records : x # Subject(w) => record'[x] = record[x]
          /\ \A x \in Records : record[x].status # "absent" => record'[x].status # "absent"
    BY <1>1, JobSaved
  <1>4. Counts
    BY DEF SavesWell, SavesBadly, Moves
  <1>5. JobDisturbed => JobDisturbed'
    BY <1>4, Disturbs DEF JobInv
  <1>6. ~JobDisturbed => Proceeds(Own(w).status, pc[w])
    BY DEF JobInv, WorkIsAlone
  <1>7. CASE SavesWell(w, saved, label)
    <2>1. JobTypes' /\ \A x \in Actors : x # w => copy'[x] = copy[x]
      <3>1. Hold(w, saved) /\ copy \in [Actors -> JobRecords]
        BY <1>7 DEF SavesWell, JobInv, JobTypes
      <3>2. copy' \in [Actors -> JobRecords] /\ \A x \in Actors : x # w => copy'[x] = copy[x]
        BY <1>1, <3>1 DEF Hold
      <3> QED
        BY <1>3, <1>7, <3>2 DEF SavesWell, JobTypes
    <2>2. ASSUME ~JobDisturbed', NEW v \in Workers, v # w,
                 AtWork(v) PROVE record'[Subject(v)] = record[Subject(v)]
      BY <1>3, <1>5, <1>7, <2>2, WorkSaved DEF SavesWell
    <2>3. JobInv'
      BY <1>1, <1>3, <1>7, <2>1, <2>2, JobActs DEF SavesWell, Proceeds
    <2>4. ~JobDisturbed' => JobMoves
      BY <1>2, <1>3, <1>5, <1>6, <1>7 DEF SavesWell, JobMoves, Proceeds, Own
    <2> QED
      BY <1>5, <2>3, <2>4 DEF JobGoal
  <1>8. CASE SavesBadly(w, saved)
    <2>1. /\ copy' \in [Actors -> JobRecords] /\ copy'[w].status = "failed"
          /\ \A x \in Actors : x # w => copy'[x] = copy[x]
      BY <1>8, JobHeldFailed DEF SavesBadly
    <2>2. JobTypes' /\ \A x \in Records : record[x].status # "absent" =>
              record'[x].status # "absent"
      BY <1>3, <1>8, <2>1 DEF SavesBadly, JobInv, JobTypes
    <2>3. ~JobDisturbed' => UNCHANGED record
      BY <1>8 DEF SavesBadly, JobDisturbed
    <2>4. ~JobDisturbed' => Proceeds(record'[Subject(w)].status, "fail")
      BY <1>5, <1>6, <2>3 DEF Proceeds, Own
    <2>5. JobInv'
      BY <1>1, <1>8, <2>1, <2>2, <2>3, <2>4, JobActs DEF SavesBadly
    <2> QED
      BY <1>5, <2>3, <2>5 DEF JobGoal
  <1> QED
    BY <1>7, <1>8

LEMMA AdvanceGoal ==
    ASSUME JobInv, NEW w \in Workers, Advance(w)
    PROVE  JobGoal
  <1>1. PICK i \in 1 .. 4 :
             /\ pc[w] = Stages[i]
             /\ \/ Saves(w, [copy[w] EXCEPT !.status = Stages[i]], IF i = 4 THEN "finish" ELSE Stages[i + 1])
                \/ /\ record' = [record EXCEPT ![Subject(w)] = [copy[w] EXCEPT !.status = Stages[i]]]
                   /\ Hold(w, With([copy[w] EXCEPT !.status = Stages[i]], "failed", "permanent"))
                   /\ Returns(w, "fail")
    BY DEF Advance
  <1> DEFINE new == [copy[w] EXCEPT !.status = Stages[i]]
             label == IF i = 4 THEN "finish" ELSE Stages[i + 1]
  <1>2. Stages[i] \in StageNames /\ label \in StageNames \cup {"finish"}
    <2>1. i = 1 \/ i = 2 \/ i = 3 \/ i = 4
      OBVIOUS
    <2> QED
      BY <2>1 DEF Stages, StageNames
  <1>3. AtWork(w) /\ w \in Actors /\ w \notin Clients /\ pc[w] # "idle"
    BY <1>1, <1>2, WorkLabels, QueueAssumption DEF StageNames, Actors
  <1>4. new \in JobRecords /\ new.status = Stages[i]
    BY <1>2, <1>3, JobSubject DEF JobRecords
  <1>5. UNCHANGED outrun
    BY DEF Advance
  <1> HIDE DEF new, label
  <1>6. CASE Saves(w, new, label)
    <2>1. SavesWell(w, new, label) \/ SavesBadly(w, new)
      BY <1>3, <1>6, Saving DEF JobInv
    <2>2. label \notin {"fail", "requeue_save", "unsent", "unsent_save"}
      BY <1>2 DEF StageNames
    <2> QED
      BY <1>2, <1>3, <1>4, <1>5, <2>1, <2>2, WorkGoal
  <1>7. CASE /\ record' = [record EXCEPT ![Subject(w)] = new]
             /\ Hold(w, With(new, "failed", "permanent"))
             /\ Returns(w, "fail")
    <2>1. Moves(w, "fail")
      BY <1>3, <1>7, Returning
    <2>2. /\ copy' \in [Actors -> JobRecords] /\ copy'[w].status = "failed"
          /\ \A x \in Actors : x # w => copy'[x] = copy[x]
      BY <1>4, <1>7, JobHeldFailed
    <2>3. new.status # "absent"
      BY <1>2, <1>4 DEF StageNames
    <2>4. /\ record' \in [Records -> JobRecords] /\ record'[Subject(w)] = new
          /\ \A x \in Records : x # Subject(w) => record'[x] = record[x]
          /\ \A x \in Records : record[x].status # "absent" => record'[x].status # "absent"
      BY <1>3, <1>4, <1>7, <2>3, JobSaved
    <2>5. JobDisturbed => JobDisturbed'
      BY <1>5, <2>1, Disturbs DEF JobInv, Moves
    <2>6. ASSUME ~JobDisturbed', NEW v \in Workers, v # w,
                 AtWork(v) PROVE record'[Subject(v)] = record[Subject(v)]
      BY <1>3, <2>4, <2>5, <2>6, WorkSaved
    <2>7. JobInv'
      BY <1>2, <1>3, <1>4, <1>5, <2>1, <2>2, <2>4, <2>6, JobActs DEF JobTypes, Proceeds
    <2>8. ~JobDisturbed' => JobMoves
      BY <1>2, <1>3, <1>4, <2>4, <2>5, JobSubject DEF JobMoves, JobInv, WorkIsAlone, Proceeds, Own
    <2> QED
      BY <2>5, <2>7, <2>8 DEF JobGoal
  <1> QED
    BY <1>1, <1>6, <1>7 DEF new, label

LEMMA FinishGoal ==
    ASSUME JobInv, NEW w \in Workers, Finish(w)
    PROVE  JobGoal
  <1> DEFINE new == [copy[w] EXCEPT !.status = "review", !.report = TRUE]
  <1>1. AtWork(w) /\ w \in Actors /\ pc[w] = "finish" /\ UNCHANGED outrun
    BY WorkLabels DEF Finish, Actors
  <1>2. new \in JobRecords /\ new.status = "review"
    BY <1>1, JobSubject DEF JobRecords
  <1>3. SavesWell(w, new, "outcome") \/ SavesBadly(w, new)
    BY <1>1, Saving DEF Finish, JobInv
  <1> HIDE DEF new
  <1> QED
    BY <1>1, <1>2, <1>3, WorkGoal DEF StageNames

LEMMA JobFailsGoal ==
    ASSUME JobInv, NEW w \in Workers, JobFails(w)
    PROVE  JobGoal
  <1>1. AtWork(w) /\ w \in Actors /\ w \notin Clients /\ pc[w] = "fail" /\ UNCHANGED outrun
    BY WorkLabels, QueueAssumption DEF JobFails, Actors
  <1>2. copy[w] \in JobRecords /\ copy[w].status = "failed" /\ Subject(w) \in Records
    BY <1>1, JobSubject DEF JobInv, JobLabels
  <1>3. Moves(w, "outcome")
    BY <1>1, Returning DEF JobFails
  <1>4. record' = [record EXCEPT ![Subject(w)] = copy[w]] /\ Hold(w, copy[w])
    BY DEF JobFails, Save
  <1>5. /\ record' \in [Records -> JobRecords] /\ record'[Subject(w)] = copy[w]
        /\ \A x \in Records : x # Subject(w) => record'[x] = record[x]
        /\ \A x \in Records : record[x].status # "absent" => record'[x].status # "absent"
    BY <1>1, <1>2, <1>4, JobSaved
  <1>6. JobTypes' /\ \A x \in Actors : x # w => copy'[x] = copy[x]
    <2>1. copy \in [Actors -> JobRecords]
      BY DEF JobInv, JobTypes
    <2>2. copy' \in [Actors -> JobRecords] /\ \A x \in Actors : x # w => copy'[x] = copy[x]
      BY <1>1, <1>2, <1>4, <2>1, Holding, ZenonT(60)
    <2> QED
      BY <1>5, <2>2 DEF JobTypes
  <1>7. JobDisturbed => JobDisturbed'
    BY <1>1, <1>3, Disturbs DEF JobInv, Moves
  <1>8. ASSUME ~JobDisturbed', NEW v \in Workers, v # w,
               AtWork(v) PROVE record'[Subject(v)] = record[Subject(v)]
    BY <1>1, <1>5, <1>7, <1>8, WorkSaved
  <1>9. JobInv'
    BY <1>1, <1>3, <1>5, <1>6, <1>8, JobActs DEF StageNames
  <1>10. ~JobDisturbed' => JobMoves
    BY <1>1, <1>2, <1>5, <1>7 DEF JobMoves, JobInv, WorkIsAlone, Proceeds, Own
  <1> QED
    BY <1>7, <1>9, <1>10 DEF JobGoal

\* What a step keeps that is no move of an actor at work.
LEMMA JobsKept ==
    ASSUME JobInv, QueueInv', JobTypes', UNCHANGED <<copy, outrun>>, Counts,
           \A c \in Clients : pc'[c] # "idle" =>
               /\ record'[asked'[c]].status # "absent"
               /\ pc'[c] \in {"unsent", "unsent_save"} => pc'[c] = pc[c] \/ faults'["broker"] > 0,
           \A a \in Actors : pc'[a] = "requeue_save" => pc[a] = "requeue_save",
           \A w \in Workers : AtWork(w)' => pc'[w] = pc[w] /\ Subject(w)' = Subject(w),
           ~JobDisturbed' => \A w \in Workers : AtWork(w) =>
               record'[Subject(w)] = record[Subject(w)]
    PROVE  JobInv' /\ (JobDisturbed => JobDisturbed')
  <1>1. "broker" \in Kinds /\ faults["broker"] \in Nat /\ faults'["broker"] \in Nat
            /\ faults["broker"] <= faults'["broker"]
    BY CountsGrow DEF Kinds, JobInv, QueueInv, QueueShape
  <1>2. \A w \in Workers : AtWork(w)' => AtWork(w)
    BY DEF AtWork
  <1>3. \A w \in Workers : pc'[w] = "fail" => pc[w] = "fail"
    BY WorkLabels DEF AtWork
  <1>4. JobLabels'
    BY <1>1, <1>3 DEF JobInv, JobLabels
  <1>5. JobDisturbed => JobDisturbed'
    BY Disturbs DEF JobInv
  <1>6. ASSUME ~JobDisturbed' PROVE WorkIsAlone'
    <2>1. WorkIsAlone
      BY <1>5, <1>6 DEF JobInv
    <2> QED
      BY <1>2, <1>6, <2>1 DEF WorkIsAlone, Own
  <1> QED
    BY <1>4, <1>5, <1>6 DEF JobInv

LEMMA JobArrivedGoal ==
    ASSUME JobInv, NEW c \in Clients, NEW j \in Jobs, Upload(c, j) \/ RetryJob(c, j)
    PROVE  JobGoal
  <1>1. PICK label \in {"send_read", "done", "requeue_read"} : Arrives(c, j, label)
    BY DEF Upload, RetryJob
  <1>2. UNCHANGED <<copy, faults, outrun>> /\ j \in Records /\ c \in Actors /\ Counts
    BY <1>1, JobsAssumption DEF Upload, RetryJob, records, Arrives, Actors, Counts
  <1>3. /\ QueueInv' /\ Reaches(c, label)
        /\ \A x \in Actors : pc[x] # "idle" => Subject(x)' = Subject(x)
    BY <1>1, <1>2, Arriving DEF JobInv
  <1>4. \/ UNCHANGED record /\ record[j].status # "absent"
        \/ record' = [record EXCEPT ![j].status = IF @ = "absent" THEN "queued" ELSE @]
    BY DEF Upload, RetryJob, CreateOrGet, records
  <1>5. /\ JobTypes' /\ \A x \in Records : x # j => record'[x] = record[x]
        /\ record'[j].status # "absent"
        /\ UNCHANGED record \/ (record[j].status = "absent" /\ record'[j].status = "queued")
    <2>1. CASE UNCHANGED record /\ record[j].status # "absent"
      BY <2>1, <1>2 DEF JobInv, JobTypes
    <2>2. CASE record' = [record EXCEPT ![j].status = IF @ = "absent" THEN "queued" ELSE @]
      <3>1. record[j] \in JobRecords /\ record \in [Records -> JobRecords]
        BY <1>2 DEF JobInv, JobTypes
      <3>2. CASE record[j].status = "absent"
        <4> DEFINE new == [record[j] EXCEPT !.status = "queued"]
        <4>1. new \in JobRecords /\ new.status = "queued"
          BY <3>1 DEF JobRecords
        <4>2. record' = [record EXCEPT ![j] = new]
          BY <2>2, <3>2
        <4> HIDE DEF new
        <4> QED
          BY <1>2, <3>1, <3>2, <4>1, <4>2, Writing DEF JobInv, JobTypes
      <3>3. CASE record[j].status # "absent"
        <4>1. record' = record
          BY <2>2, <3>1, <3>3, <1>2 DEF JobRecords
        <4> QED
          BY <1>2, <3>3, <4>1 DEF JobInv, JobTypes
      <3> QED
        BY <3>2, <3>3
    <2> QED
      BY <1>4, <2>1, <2>2
  <1>6. \A w \in Workers : pc'[w] = pc[w] /\ w \in Actors
    BY <1>3, QueueAssumption DEF Reaches, Actors
  <1>7. ASSUME ~JobDisturbed', NEW w \in Workers,
               AtWork(w) PROVE record'[Subject(w)] = record[Subject(w)]
    <2>1. pc[w] # "idle" /\ w \in Actors
      BY <1>6, <1>7, WorkLabels DEF StageNames
    <2>2. Subject(w) \in Records /\ ~JobDisturbed
      BY <2>1, <1>2, <1>7, JobSubject DEF JobDisturbed
    <2> QED
      BY <1>5, <1>7, <2>2, NotAtWork
  <1>8. \A d \in Clients : pc'[d] # "idle" =>
            /\ record'[asked'[d]].status # "absent"
            /\ pc'[d] \in {"unsent", "unsent_save"} => pc'[d] = pc[d]
    <2>1. ASSUME NEW d \in Clients, pc'[d] # "idle", d # c
          PROVE  record'[asked'[d]].status # "absent" /\ pc'[d] = pc[d]
      <3>1. pc'[d] = pc[d] /\ asked'[d] = asked[d] /\ asked[d] \in Records
        BY <1>1, <1>3, <2>1 DEF Reaches, Arrives, Actors, JobInv, QueueInv, QueueShape, QueueKnown
      <3> QED
        BY <1>5, <2>1, <3>1 DEF JobInv, JobLabels
    <2>2. record'[asked'[c]].status # "absent" /\ pc'[c] = label
      BY <1>1, <1>3, <1>5 DEF Reaches, Arrives, JobInv, QueueInv, QueueShape
    <2> QED
      BY <2>1, <2>2
  <1>9. \A w \in Workers : AtWork(w)' => pc'[w] = pc[w] /\ Subject(w)' = Subject(w)
    <2>1. ASSUME NEW w \in Workers, AtWork(w)' PROVE pc[w] # "idle"
      BY <1>6, <2>1, WorkLabels DEF AtWork, StageNames
    <2> QED
      BY <1>3, <1>6, <2>1
  <1>10. \A a \in Actors : pc'[a] = "requeue_save" => pc[a] = "requeue_save"
    BY <1>3 DEF Reaches
  <1>11. JobInv' /\ (JobDisturbed => JobDisturbed')
    BY <1>2, <1>3, <1>5, <1>7, <1>8, <1>9, <1>10, JobsKept
  <1>12. UNCHANGED record \/ JobMoves
    BY <1>2, <1>5 DEF JobMoves
  <1> QED
    BY <1>11, <1>12 DEF JobGoal

\* A request that sends its task, a worker that takes one, sends it again or is lost.
LEMMA JobTurn ==
    ASSUME JobInv, NEW a \in Actors,
           NEW label \in {"task_read", "acknowledge", "idle", "done", "unsent"},
           QueueInv', Reaches(a, label), Counts, UNCHANGED <<records, asked, outrun>>,
           a \in Clients => pc[a] # "idle" /\ (label = "unsent" => faults'["broker"] > 0),
           \A x \in Actors : pc[x] # "idle" => Subject(x)' = Subject(x)
    PROVE  JobGoal
  <1>1. JobTypes' /\ UNCHANGED <<record, copy>>
    BY DEF JobInv, JobTypes, records
  <1>2. \A c \in Clients : pc'[c] # "idle" =>
            /\ record'[asked'[c]].status # "absent"
            /\ pc'[c] \in {"unsent", "unsent_save"} => pc'[c] = pc[c] \/ faults'["broker"] > 0
    BY <1>1, QueueAssumption DEF Reaches, Actors, JobInv, JobLabels
  <1>3. ASSUME NEW w \in Workers, AtWork(w)' PROVE pc'[w] = pc[w] /\ Subject(w)' = Subject(w)
    <2>1. pc'[w] \in StageNames \cup {"finish", "fail"} /\ w \in Actors
      BY <1>3, TryLabels DEF AtWork, Actors
    <2>2. pc'[w] = pc[w] /\ pc[w] # "idle"
      BY <2>1 DEF Reaches, StageNames
    <2> QED
      BY <2>1, <2>2
  <1>4. \A x \in Actors : pc'[x] = "requeue_save" => pc[x] = "requeue_save"
    BY DEF Reaches
  <1>5. JobInv' /\ (JobDisturbed => JobDisturbed')
    BY <1>1, <1>2, <1>3, <1>4, JobsKept
  <1> QED
    BY <1>1, <1>5 DEF JobGoal

LEMMA JobTurnedGoal ==
    ASSUME JobInv, UNCHANGED outrun, NEW a \in Actors,
           \/ a \in Clients /\ Send(a)
           \/ a \in Workers /\ ((\E m \in waiting : Take(a, m)) \/ Resend(a) \/ LoseWorker(a))
    PROVE  JobGoal
  <1>1. CASE a \in Clients /\ Send(a)
    <2>1. /\ QueueInv' /\ (Reaches(a, "done") \/ Reaches(a, "unsent"))
          /\ \A x : Subject(x)' = Subject(x)
      BY <1>1, Sending DEF JobInv
    <2>2. UNCHANGED <<records, asked>> /\ "broker" \in Kinds /\ pc[a] = "send" /\ Counts
      BY <1>1 DEF Send, Kinds, Counts
    <2>3. (Goto(a, "done") \/ Goto(a, "unsent")) /\ (Goto(a, "done") \/ Fault("broker"))
      BY <1>1 DEF Send
    <2>4. Reaches(a, "done") \/ faults'["broker"] > 0
      BY <2>2, <2>3, FaultCounts, Going DEF JobInv
    <2>5. a \notin Workers
      BY <1>1, QueueAssumption
    <2>6. CASE Reaches(a, "done")
      BY <2>1, <2>2, <2>6, JobTurn
    <2>7. CASE Reaches(a, "unsent") /\ faults'["broker"] > 0
      BY <2>1, <2>2, <2>7, JobTurn
    <2> QED
      BY <2>1, <2>4, <2>6, <2>7
  <1>2. ASSUME a \in Workers, NEW m \in waiting, Take(a, m) PROVE JobGoal
    <2>1. Counts /\ UNCHANGED <<records, asked>> /\ a \notin Clients
      BY <1>2, QueueAssumption DEF Take, Counts
    <2> QED
      BY <1>2, <2>1, Taking, JobTurn DEF JobInv
  <1>3. CASE a \in Workers /\ Resend(a)
    <2>1. Counts /\ UNCHANGED <<records, asked>> /\ a \notin Clients
      BY <1>3, QueueAssumption DEF Resend, Raises, Returns, Counts, Kinds
    <2> QED
      BY <1>3, <2>1, Resending, JobTurn DEF JobInv
  <1>4. CASE a \in Workers /\ LoseWorker(a)
    <2>1. Counts /\ UNCHANGED <<records, asked>> /\ a \notin Clients
      BY <1>4, QueueAssumption DEF LoseWorker, Counts, Kinds
    <2> QED
      BY <1>4, <2>1, LosingWorker, JobTurn DEF JobInv
  <1> QED
    BY <1>1, <1>2, <1>3, <1>4

LEMMA JobUnsentGoal ==
    ASSUME JobInv, NEW c \in Clients, MarkUnsent(c), UNCHANGED outrun
    PROVE  JobGoal
  <1>1. c \in Actors /\ c \notin Workers /\ pc[c] # "idle"
            /\ pc[c] \in {"unsent", "unsent_save"} /\ "broker" \in Kinds
    BY QueueAssumption DEF MarkUnsent, Actors, Kinds
  <1>2. PICK label \in {"unsent_save", "done"} : Moves(c, label)
    BY ClientsMove DEF JobInv
  <1>3. faults["broker"] > 0 /\ faults'["broker"] \in Nat /\ faults["broker"] \in Nat
            /\ faults["broker"] <= faults'["broker"]
    BY <1>1, <1>2, CountsGrow DEF JobInv, JobLabels, Moves, QueueInv, QueueShape
  <1>4. JobDisturbed' /\ faults'["broker"] > 0
    BY <1>3 DEF JobDisturbed
  <1>5. Own(c) \in JobRecords /\ copy[c] \in JobRecords /\ Subject(c) \in Records
    BY <1>1, JobSubject
  <1> DEFINE new == With(copy[c], "failed", "queue")
  <1>6. new \in JobRecords /\ new.status = "failed"
    BY <1>5 DEF With, JobRecords, Errors
  <1> HIDE DEF new
  <1>7. /\ JobTypes' /\ \A x \in Actors : x # c => copy'[x] = copy[x]
        /\ \A r \in Records : record[r].status # "absent" => record'[r].status # "absent"
    <2>1. CASE Hold(c, Own(c)) /\ UNCHANGED record
      BY <1>1, <1>5, <2>1, Holding DEF JobInv, JobTypes
    <2>2. CASE Save(c, new)
      <3>1. /\ record' \in [Records -> JobRecords]
            /\ \A r \in Records : record[r].status # "absent" => record'[r].status # "absent"
        BY <1>1, <1>6, <2>2, JobSaved DEF Save
      <3> QED
        BY <1>1, <1>6, <2>2, <3>1, Holding DEF JobInv, JobTypes, Save
    <2> QED
      BY <2>1, <2>2 DEF MarkUnsent, new
  <1>8. JobInv' /\ (JobDisturbed => JobDisturbed')
    BY <1>1, <1>2, <1>4, <1>7, JobActs
  <1> QED
    BY <1>4, <1>8 DEF JobGoal

\* Every step of the standardization service keeps its invariant, and moves a job no
\* further than JobMoves says.
LEMMA StandardizationStep ==
    ASSUME JobInv, StandardizationNext \/ UNCHANGED <<queueVars, outrun>>
    PROVE  JobGoal
  <1> USE DEF Actors, Kinds
  <1>1. ASSUME NEW c \in Clients, NEW j \in Jobs, Upload(c, j) \/ RetryJob(c, j) PROVE JobGoal
    BY <1>1, JobArrivedGoal
  <1>2. ASSUME NEW a \in Actors, RequeueRead(a) \/ RequeueSave(a) PROVE JobGoal
    BY <1>2, RequeueReadGoal, RequeueSaveGoal
  <1>3. ASSUME NEW c \in Clients, SendRead(c) \/ LoseRequest(c), UNCHANGED outrun PROVE JobGoal
    <2>1. c \in Actors /\ c \notin Workers /\ QueueInv
      BY QueueAssumption DEF JobInv
    <2>2. PICK label \in {"send", "done"} : Moves(c, label) /\ UNCHANGED records
      BY <1>3, <2>1, ClientsMove
    <2> QED
      BY <1>3, <2>1, <2>2, JobStays DEF StageNames
  <1>4. ASSUME NEW c \in Clients, Send(c), UNCHANGED outrun PROVE JobGoal
    BY <1>4, JobTurnedGoal
  <1>5. ASSUME NEW c \in Clients, MarkUnsent(c), UNCHANGED outrun PROVE JobGoal
    BY <1>5, JobUnsentGoal
  <1>6. ASSUME NEW w \in Workers, (\E m \in waiting : Take(w, m)) \/ Resend(w) \/ LoseWorker(w),
               UNCHANGED outrun
        PROVE  JobGoal
    BY <1>6, JobTurnedGoal
  <1>7. ASSUME NEW w \in Workers, JobTaskRead(w) PROVE JobGoal
    <2>1. PICK label \in {"requeue_read", "process"} : Returns(w, label)
      BY <1>7 DEF JobTaskRead
    <2>2. Moves(w, label)
      BY <1>7, <2>1, Returning, QueueAssumption DEF JobTaskRead
    <2> QED
      BY <1>7, <2>2, JobStays DEF JobTaskRead, StageNames
  <1>8. ASSUME NEW w \in Workers, Outcome(w) PROVE JobGoal
    <2>1. PICK label \in {"requeue_read", "idle"} : Moves(w, label)
      BY <1>8, QueueAssumption DEF Outcome, Ends, Moves, Counts
    <2> QED
      BY <1>8, <2>1, JobStays DEF Outcome, StageNames
  <1>9. ASSUME NEW w \in Workers,
               Process(w) \/ Advance(w) \/ Finish(w) \/ JobFails(w) PROVE JobGoal
    BY <1>9, ProcessGoal, AdvanceGoal, FinishGoal, JobFailsGoal
  <1>10. ASSUME NEW a \in Actors, JobBreaks(a) PROVE JobGoal
    <2>1. PICK label \in {"done", "idle"} : Moves(a, label)
      BY <1>10, Raising, QueueAssumption DEF JobBreaks
    <2> QED
      BY <1>10, <2>1, JobStays DEF JobBreaks, StageNames
  <1>11. CASE UNCHANGED <<queueVars, outrun>>
    <2>1. UNCHANGED <<record, copy, waiting, pc, asked, task, retries, faults, outrun>>
      BY <1>11 DEF queueVars, records
    <2>2. QueueInv'
      BY <2>1 DEF JobInv, QueueInv, QueueShape, QueueKnown
    <2>3. JobTypes' /\ JobLabels'
      BY <2>1 DEF JobInv, JobTypes, JobLabels
    <2>4. JobDisturbed' <=> JobDisturbed
      BY <2>1 DEF JobDisturbed
    <2>5. WorkIsAlone => WorkIsAlone'
      BY <2>1 DEF WorkIsAlone, AtWork, Own, Subject
    <2> QED
      BY <2>1, <2>2, <2>3, <2>4, <2>5 DEF JobGoal, JobInv
  <1> QED
    BY <1>1, <1>2, <1>3, <1>4, <1>5, <1>6, <1>7, <1>8, <1>9, <1>10, <1>11
       DEF StandardizationNext, StandardizationClientStep, StandardizationWorkerStep

-----------------------------------------------------------------------------
(* Publication batches *)

AtWorkStatus == {"preflight", "publishing", "reconciling"}

ItemRecords ==
    [status : {"pending", "publishing", "published", "failed"},
     error : {"none", "reconciliation", "other"}, revision : Nat]

BatchRecords ==
    [status : {"absent", "queued", "completed", "failed"} \cup AtWorkStatus,
     error : Errors \cup {"items"}, items : [Files -> ItemRecords]]

BatchTypes == record \in [Records -> BatchRecords] /\ copy \in [Actors -> BatchRecords]

LocalTypes ==
    /\ failures \in [Actors -> SUBSET Files]
    /\ todo \in [Workers -> SUBSET Files]
    /\ item \in [Workers -> Files \cup {None}]

AtItem == {"ingest", "reconcile", "compensate", "save_item"}

\* What holds of an actor at its call: what it is asked for, holds and works on.
BatchLabels ==
    /\ \A c \in Clients :
         /\ pc[c] # "idle" => asked[c] \in Batches
         /\ pc[c] \in {"unsent", "unsent_save"} => faults["broker"] > 0
    /\ \A w \in Workers :
         /\ pc[w] = "fail" => copy[w].status = "failed"
         /\ pc[w] \in PublicationTry => copy[w].status \in AtWorkStatus
         /\ pc[w] \in AtItem => item[w] \in Files
    /\ \A a \in Actors : pc[a] = "retry_save" => failures[a] # {}

InRun(w) == pc[w] \in PublicationTry \cup {"fail"}

\* A worker in a run has a batch that is at work, and has it to itself, unless the batch has
\* changed under a retry.
RunIsAlone ==
    \A w \in Workers : InRun(w) /\ Subject(w) \notin overtaken =>
        /\ Own(w).status \in AtWorkStatus
        /\ \A v \in Workers : InRun(v) /\ Subject(v) = Subject(w) => v = w

BatchInv == QueueInv /\ BatchTypes /\ LocalTypes /\ BatchLabels /\ (~Hurried => RunIsAlone)

\* How far a step moves one batch.
BatchMoves ==
    \E r \in Records :
        /\ \A x \in Records : x # r => record'[x] = record[x]
        /\ \/ record'[r].status = record[r].status
           \/ <<record[r].status, record'[r].status>> \in
                  {<<"absent", "queued">>, <<"queued", "preflight">>, <<"failed", "queued">>}
           \/ record[r].status \in AtWorkStatus
                  /\ record'[r].status \in AtWorkStatus \cup {"completed", "failed"}

BatchGoal ==
    /\ BatchInv' /\ overtaken \subseteq overtaken' /\ (Hurried => Hurried')
    /\ ~BatchDisturbed' => UNCHANGED record \/ BatchMoves

LEMMA Hurries ==
    ASSUME QueueInv, Counts
    PROVE  Hurried => Hurried'
  <1>1. {"broker", "answer"} \subseteq Kinds
    BY DEF Kinds
  <1>2. faults \in [Kinds -> Nat] /\ faults' \in [Kinds -> Nat] /\ \A k \in Kinds :
            faults[k] <= faults'[k]
    BY CountsGrow DEF QueueInv, QueueShape
  <1> QED
    BY <1>1, <1>2 DEF Hurried

LEMMA BatchSubject ==
    ASSUME BatchInv, NEW a \in Actors, pc[a] # "idle"
    PROVE  /\ Subject(a) \in Batches /\ Subject(a) \in Records
           /\ Own(a) \in BatchRecords /\ copy[a] \in BatchRecords
  BY SelectionAssumption
     DEF BatchInv, QueueInv, QueueKnown, BatchTypes, BatchLabels, Subject, Own, Actors

\* What an actor must leave alone for the invariant to hold again.
LEMMA BatchActs ==
    ASSUME BatchInv, NEW a \in Actors, NEW label, Moves(a, label), BatchTypes', LocalTypes',
           overtaken \subseteq overtaken',
           \A x \in Actors : x # a => copy'[x] = copy[x] /\ failures'[x] = failures[x],
           \A w \in Workers : w # a => item'[w] = item[w],
           a \in Workers =>
               /\ label = "fail" => copy'[a].status = "failed"
               /\ label \in PublicationTry => copy'[a].status \in AtWorkStatus
               /\ label \in AtItem => item'[a] \in Files,
           label = "retry_save" => failures'[a] # {},
           a \in Clients => (label \in {"unsent", "unsent_save"} => faults'["broker"] > 0),
           ~Hurried' =>
               /\ a \in Workers /\ label \in PublicationTry \cup {"fail"}
                      /\ Subject(a) \notin overtaken' =>
                      /\ record'[Subject(a)].status \in AtWorkStatus
                      /\ InRun(a) \/ \A v \in Workers : v # a /\ InRun(v) =>
                             Subject(v) # Subject(a)
               /\ \A w \in Workers : w # a /\ InRun(w) /\ Subject(w) \notin overtaken' =>
                      record'[Subject(w)].status \in AtWorkStatus
    PROVE  BatchInv' /\ (Hurried => Hurried')
  <1>1. QueueInv' /\ Reaches(a, label) /\ \A x : Subject(x)' = Subject(x)
    BY Moving DEF BatchInv
  <1>2. "broker" \in Kinds /\ faults["broker"] \in Nat /\ faults'["broker"] \in Nat
            /\ faults["broker"] <= faults'["broker"]
    BY CountsGrow DEF Moves, Kinds, BatchInv, QueueInv, QueueShape
  <1>3. UNCHANGED asked /\ \A c \in Clients : pc'[c] # "idle" => pc[c] # "idle"
    BY <1>1 DEF Moves, Reaches, Actors
  <1>4. BatchLabels'
    <2>1. \A c \in Clients :
             /\ pc'[c] # "idle" => asked'[c] \in Batches
             /\ pc'[c] \in {"unsent", "unsent_save"} => faults'["broker"] > 0
      BY <1>1, <1>2, <1>3, QueueAssumption DEF BatchInv, BatchLabels, Reaches, Actors
    <2>2. \A w \in Workers :
             /\ pc'[w] = "fail" => copy'[w].status = "failed"
             /\ pc'[w] \in PublicationTry => copy'[w].status \in AtWorkStatus
             /\ pc'[w] \in AtItem => item'[w] \in Files
      BY <1>1 DEF BatchInv, BatchLabels, Reaches, Actors
    <2>3. \A x \in Actors : pc'[x] = "retry_save" => failures'[x] # {}
      BY <1>1 DEF BatchInv, BatchLabels, Reaches
    <2> QED
      BY <2>1, <2>2, <2>3 DEF BatchLabels
  <1>5. Hurried => Hurried'
    BY Hurries DEF BatchInv, Moves
  <1>6. ASSUME ~Hurried' PROVE RunIsAlone'
    <2>1. RunIsAlone
      BY <1>5, <1>6 DEF BatchInv
    <2>2. \A w \in Workers : Own(w)' = record'[Subject(w)]
      BY <1>1 DEF Own
    <2>3. \A w \in Workers : w # a => (InRun(w)' <=> InRun(w))
      BY <1>1 DEF Reaches, Actors, InRun
    <2>4. a \in Workers => (InRun(a)' <=> label \in PublicationTry \cup {"fail"})
      BY <1>1 DEF Reaches, InRun
    <2>5. ASSUME NEW w \in Workers, InRun(w)',
                 Subject(w) \notin overtaken' PROVE Own(w)'.status \in AtWorkStatus
      BY <2>1, <2>2, <2>3, <2>4, <2>5, <1>6
    <2>6. ASSUME NEW v \in Workers, NEW w \in Workers, InRun(v)', InRun(w)',
                 Subject(v) = Subject(w),
                 Subject(w) \notin overtaken'
          PROVE  v = w
      BY <2>1, <2>3, <2>4, <2>6, <1>6 DEF RunIsAlone
    <2> QED
      BY <2>5, <2>6, <1>1 DEF RunIsAlone
  <1> QED
    BY <1>1, <1>4, <1>5, <1>6 DEF BatchInv

\* Nobody is in a run of a batch that is not at work.
LEMMA NotInRun ==
    ASSUME BatchInv, ~Hurried, NEW w \in Workers, InRun(w), Subject(w) \notin overtaken,
           NEW r, record[r].status \notin AtWorkStatus
    PROVE  Subject(w) # r
  BY DEF BatchInv, RunIsAlone, Own

\* A worker in a run that keeps to its own batch: what it does is nothing to the others.
LEMMA InRunActs ==
    ASSUME BatchInv, NEW a \in Workers, InRun(a), NEW label, Moves(a, label), BatchTypes',
           LocalTypes',
           UNCHANGED <<overtaken, failures>>,
           \A x \in Actors : x # a => copy'[x] = copy[x],
           \A w \in Workers : w # a => item'[w] = item[w],
           label = "fail" => copy'[a].status = "failed",
           label \in PublicationTry => copy'[a].status \in AtWorkStatus,
           label \in AtItem => item'[a] \in Files,
           label # "retry_save",
           \A x \in Records : x # Subject(a) => record'[x] = record[x],
           ~Hurried' /\ label \in PublicationTry \cup {"fail"}
               /\ Own(a).status \in AtWorkStatus =>
               record'[Subject(a)].status \in AtWorkStatus
    PROVE  BatchInv' /\ (Hurried => Hurried')
  <1>1. a \in Actors /\ a \notin Clients
    BY QueueAssumption DEF Actors
  <1>2. Hurried => Hurried'
    BY Hurries DEF BatchInv, Moves
  <1>3. ASSUME ~Hurried', NEW w \in Workers, w # a, InRun(w), Subject(w) \notin overtaken
        PROVE  record'[Subject(w)].status \in AtWorkStatus
    <2>1. RunIsAlone /\ w \in Actors /\ pc[w] # "idle"
      BY <1>2, <1>3 DEF BatchInv, InRun, PublicationTry, Actors
    <2>2. Subject(w) \in Records /\ Subject(w) # Subject(a)
      BY <1>3, <2>1, BatchSubject DEF RunIsAlone
    <2> QED
      BY <1>3, <2>1, <2>2 DEF RunIsAlone, Own
  <1>4. ~Hurried' /\ label \in PublicationTry \cup {"fail"} /\ Subject(a) \notin overtaken =>
               record'[Subject(a)].status \in AtWorkStatus
    BY <1>2 DEF BatchInv, RunIsAlone
  <1> QED
    BY <1>1, <1>3, <1>4, BatchActs

LEMMA BatchStays ==
    ASSUME BatchInv, NEW a \in Actors, NEW label, Moves(a, label),
           UNCHANGED <<records, publicationVars>>,
           label \notin PublicationTry \cup {"fail", "retry_save", "unsent", "unsent_save"} \cup AtItem
    PROVE  BatchGoal
  <1>1. UNCHANGED <<record, copy, failures, todo, item, overtaken>>
    BY DEF records, publicationVars, publicationLocals
  <1>2. BatchTypes' /\ LocalTypes'
    BY <1>1 DEF BatchInv, BatchTypes, LocalTypes
  <1>3. Hurried => Hurried'
    BY Hurries DEF BatchInv, Moves
  <1>4. ASSUME ~Hurried', NEW w \in Workers, InRun(w), Subject(w) \notin overtaken
        PROVE  record'[Subject(w)].status \in AtWorkStatus
    BY <1>1, <1>3, <1>4 DEF BatchInv, RunIsAlone, Own
  <1>5. BatchInv' /\ (Hurried => Hurried')
    BY <1>1, <1>2, <1>4, BatchActs
  <1> QED
    BY <1>1, <1>5 DEF BatchGoal

LEMMA BatchSaved ==
    ASSUME BatchInv, NEW a \in Actors, pc[a] # "idle", NEW saved \in BatchRecords,
           record' = [record EXCEPT ![Subject(a)] = saved]
    PROVE  /\ record' \in [Records -> BatchRecords] /\ record'[Subject(a)] = saved
           /\ \A x \in Records : x # Subject(a) => record'[x] = record[x]
  <1>1. Subject(a) \in Records
    BY BatchSubject
  <1> QED
    BY <1>1, Writing DEF BatchInv, BatchTypes

LEMMA BatchHeld ==
    ASSUME BatchInv, NEW a \in Actors, NEW held \in BatchRecords, Hold(a, held)
    PROVE  /\ copy' \in [Actors -> BatchRecords] /\ copy'[a] = held
           /\ \A x \in Actors : x # a => copy'[x] = copy[x]
  <1>1. copy \in [Actors -> BatchRecords]
    BY DEF BatchInv, BatchTypes
  <1> QED
    BY <1>1, Holding

LEMMA BatchHeldFailed ==
    ASSUME BatchInv, NEW w \in Workers, NEW held \in BatchRecords,
           \E e \in {"transient", "permanent"} : Hold(w, With(held, "failed", e))
    PROVE  /\ copy' \in [Actors -> BatchRecords] /\ copy'[w].status = "failed"
           /\ \A x \in Actors : x # w => copy'[x] = copy[x]
  <1>1. PICK e \in {"transient", "permanent"} : Hold(w, With(held, "failed", e))
    OBVIOUS
  <1> DEFINE failed == With(held, "failed", e)
  <1>2. failed \in BatchRecords /\ failed.status = "failed"
    BY DEF With, BatchRecords, Errors
  <1>3. Hold(w, failed) /\ w \in Actors
    BY <1>1 DEF Actors
  <1> HIDE DEF failed
  <1> QED
    BY <1>2, <1>3, BatchHeld

\* A worker in a run saves the batch, or fails to.
LEMMA RunSavesGoal ==
    ASSUME BatchInv, NEW w \in Workers, InRun(w), NEW saved \in BatchRecords, NEW label,
           UNCHANGED <<overtaken, failures>>, LocalTypes',
           \A v \in Workers : v # w => item'[v] = item[v],
           saved.status \in AtWorkStatus \cup {"completed", "failed"},
           label \in PublicationTry => saved.status \in AtWorkStatus,
           label \in AtItem => item'[w] \in Files,
           label \notin {"fail", "retry_save"},
           SavesWell(w, saved, label) \/ SavesBadly(w, saved)
    PROVE  BatchGoal
  <1>1. w \in Actors /\ w \notin Clients /\ pc[w] # "idle"
    BY QueueAssumption DEF Actors, InRun, PublicationTry
  <1>2. Subject(w) \in Records
    BY <1>1, BatchSubject
  <1>3. record' = [record EXCEPT ![Subject(w)] = saved] =>
          /\ record' \in [Records -> BatchRecords] /\ record'[Subject(w)] = saved
          /\ \A x \in Records : x # Subject(w) => record'[x] = record[x]
    BY <1>1, BatchSaved
  <1>4. Counts
    BY DEF SavesWell, SavesBadly, Moves
  <1>5. Hurried => Hurried'
    BY <1>4, Hurries DEF BatchInv
  <1>6. ~BatchDisturbed' => Own(w).status \in AtWorkStatus /\ ~Hurried'
    BY <1>5 DEF BatchInv, RunIsAlone, BatchDisturbed, Hurried
  <1>7. CASE SavesWell(w, saved, label)
    <2>1. Hold(w, saved) /\ Moves(w, label)
      BY <1>7 DEF SavesWell
    <2>2. /\ copy' \in [Actors -> BatchRecords] /\ copy'[w] = saved
          /\ \A x \in Actors : x # w => copy'[x] = copy[x]
      BY <1>1, <2>1, BatchHeld
    <2>3. BatchTypes' /\ record'[Subject(w)] = saved /\ \A x \in Records : x # Subject(w) =>
              record'[x] = record[x]
      BY <1>3, <1>7, <2>2 DEF SavesWell, BatchTypes
    <2>4. BatchInv'
      BY <1>1, <2>1, <2>2, <2>3, InRunActs
    <2>5. ~BatchDisturbed' => BatchMoves
      BY <1>2, <1>6, <2>3 DEF BatchMoves, Own
    <2> QED
      BY <1>5, <2>4, <2>5 DEF BatchGoal
  <1>8. CASE SavesBadly(w, saved)
    <2>1. /\ copy' \in [Actors -> BatchRecords] /\ copy'[w].status = "failed"
          /\ \A x \in Actors : x # w => copy'[x] = copy[x]
      BY <1>8, BatchHeldFailed DEF SavesBadly
    <2>2. Moves(w, "fail")
      BY <1>8 DEF SavesBadly
    <2>3. BatchTypes' /\ \A x \in Records : x # Subject(w) => record'[x] = record[x]
      BY <1>3, <1>8, <2>1 DEF SavesBadly, BatchInv, BatchTypes
    <2>4. ~Hurried' => UNCHANGED record
      BY <1>8 DEF SavesBadly, Hurried
    <2>5. BatchInv'
      BY <1>1, <2>1, <2>2, <2>3, <2>4, InRunActs DEF Own, PublicationTry, AtItem
    <2> QED
      BY <1>5, <1>6, <2>4, <2>5 DEF BatchGoal
  <1> QED
    BY <1>7, <1>8

\* A worker in a run that saves nothing of its own accord: it holds the batch otherwise, or
\* only the knowledge changes.
LEMMA RunHoldsGoal ==
    ASSUME BatchInv, NEW w \in Workers, InRun(w), NEW label, Moves(w, label),
           NEW held \in BatchRecords,
           Hold(w, held), UNCHANGED <<record, overtaken, failures, todo, item>>,
           label = "fail" => held.status = "failed",
           label \in PublicationTry => held.status \in AtWorkStatus,
           label \in AtItem => item[w] \in Files,
           label # "retry_save"
    PROVE  BatchGoal
  <1>1. w \in Actors
    BY DEF Actors
  <1>2. /\ copy' \in [Actors -> BatchRecords] /\ copy'[w] = held
        /\ \A x \in Actors : x # w => copy'[x] = copy[x]
    BY <1>1, BatchHeld
  <1>3. BatchTypes' /\ LocalTypes'
    BY <1>2 DEF BatchInv, BatchTypes, LocalTypes
  <1>4. BatchInv' /\ (Hurried => Hurried')
    BY <1>1, <1>2, <1>3, InRunActs DEF Own
  <1> QED
    BY <1>4 DEF BatchGoal

LEMMA HeldItem ==
    ASSUME BatchInv, NEW w \in Workers, pc[w] \in AtItem,
           NEW s \in {"pending", "publishing", "published", "failed"}, NEW e \in {"none", "reconciliation", "other"}
    PROVE  /\ WithItem(w, s, e) \in BatchRecords /\ WithItem(w, s, e).status = copy[w].status
           /\ copy[w] \in BatchRecords /\ item[w] \in Files
           /\ pc[w] \in PublicationTry => copy[w].status \in AtWorkStatus
  <1>1. copy[w] \in BatchRecords /\ item[w] \in Files
    BY BatchSubject DEF Actors, AtItem, BatchInv, BatchLabels
  <1>2. copy[w].items \in [Files -> ItemRecords]
    BY <1>1 DEF BatchRecords
  <1> DEFINE items == [copy[w].items EXCEPT ![item[w]].status = s, ![item[w]].error = e]
  <1>3. items \in [Files -> ItemRecords]
    BY <1>1, <1>2 DEF ItemRecords
  <1>4. WithItem(w, s, e) = [copy[w] EXCEPT !.items = items]
    BY <1>1, <1>2 DEF WithItem, BatchRecords, ItemRecords
  <1> HIDE DEF items
  <1>5. WithItem(w, s, e) \in BatchRecords /\ WithItem(w, s, e).status = copy[w].status
    BY <1>1, <1>3, <1>4 DEF BatchRecords
  <1> QED
    BY <1>1, <1>5 DEF BatchInv, BatchLabels

LEMMA ItemGoals ==
    ASSUME BatchInv, NEW w \in Workers,
           Ingest(w) \/ Reconcile(w) \/ Compensate(w) \/ ItemRaises(w)
    PROVE  BatchGoal
  <1>1. /\ pc[w] \in {"ingest", "reconcile", "compensate"} /\ w \in Actors /\ w \notin Clients
               /\ pc[w] # "idle"
        /\ UNCHANGED <<record, overtaken, failures, todo, item>>
    BY QueueAssumption DEF Ingest, Reconcile, Compensate, ItemRaises, Actors
  <1>2. InRun(w) /\ pc[w] \in AtItem /\ pc[w] \in PublicationTry
    BY <1>1 DEF InRun, PublicationTry, AtItem
  <1>3. copy[w] \in BatchRecords /\ item[w] \in Files /\ copy[w].status \in AtWorkStatus
    BY <1>2, HeldItem
  <1>4. ASSUME NEW label \in {"reconcile", "save_item", "compensate"}, Moves(w, label),
               UNCHANGED copy
                   \/ \E s \in {"published", "failed"}, e \in {"none", "reconciliation", "other"} :
                   Hold(w, WithItem(w, s, e))
        PROVE  BatchGoal
    <2>1. CASE UNCHANGED copy
      <3>1. Hold(w, copy[w])
        BY <2>1, <1>1 DEF Hold, BatchInv, BatchTypes
      <3> QED
        BY <1>1, <1>2, <1>3, <1>4, <3>1, RunHoldsGoal
    <2>2. ASSUME NEW s \in {"published", "failed"}, NEW e \in {"none", "reconciliation", "other"},
                 Hold(w, WithItem(w, s, e))
          PROVE  BatchGoal
      <3>1. WithItem(w, s, e) \in BatchRecords /\ WithItem(w, s, e).status \in AtWorkStatus
        BY <1>2, <1>3, HeldItem
      <3> QED
        BY <1>1, <1>2, <1>3, <1>4, <2>2, <3>1, RunHoldsGoal
    <2> QED
      BY <1>4, <2>1, <2>2
  <1>5. \A label : Returns(w, label) => Moves(w, label)
    BY <1>1, Returning
  <1>6. \A k \in Kinds : \A label : Raises(k, w, label) => Moves(w, label)
    BY <1>1, Raising
  <1>7. ItemFails(w) => Moves(w, "save_item") /\ Hold(w, WithItem(w, "failed", "other"))
    BY <1>6 DEF ItemFails, Kinds
  <1>8. CASE Ingest(w)
    BY <1>4, <1>5, <1>8 DEF Ingest
  <1>9. CASE Reconcile(w)
    BY <1>4, <1>5, <1>6, <1>9 DEF Reconcile, Kinds
  <1>10. CASE Compensate(w)
    BY <1>4, <1>5, <1>7, <1>10 DEF Compensate
  <1>11. CASE ItemRaises(w)
    BY <1>4, <1>7, <1>11 DEF ItemRaises
  <1> QED
    BY <1>8, <1>9, <1>10, <1>11

LEMMA AnnouncedBatch ==
    ASSUME BatchInv, NEW w \in Workers, pc[w] # "idle"
    PROVE  /\ \A s \in AtWorkStatus : Announced(w, s) \in BatchRecords
                  /\ Announced(w, s).status = s
           /\ \A s \in {"failed", "completed"}, e \in {"none", "items", "permanent"} :
                  With(copy[w], s, e) \in BatchRecords /\ With(copy[w], s, e).status = s
           /\ copy[w] \in BatchRecords
  <1>1. copy[w] \in BatchRecords
    BY BatchSubject DEF Actors
  <1> QED
    BY <1>1 DEF Announced, With, BatchRecords, Errors

LEMMA RunGoals ==
    ASSUME BatchInv, NEW w \in Workers,
           \/ Preflight(w) \/ StartPublishing(w) \/ NextItem(w) \/ SaveItem(w)
           \/ Reconciling(w) \/ ItemsFailed(w) \/ Complete(w)
    PROVE  BatchGoal
  <1>1. /\ pc[w] \in {"preflight", "publishing", "next_item", "save_item", "reconciling", "items_failed", "complete"}
        /\ UNCHANGED <<overtaken, failures>> /\ w \in Actors /\ w \notin Clients
    BY QueueAssumption
       DEF Preflight, StartPublishing, NextItem, SaveItem, Reconciling, ItemsFailed, Complete,
       Actors
  <1>2. InRun(w) /\ pc[w] \in PublicationTry /\ pc[w] # "idle" /\ copy[w].status \in AtWorkStatus
    BY <1>1 DEF InRun, PublicationTry, BatchInv, BatchLabels
  <1>3. /\ \A s \in AtWorkStatus : Announced(w, s) \in BatchRecords /\ Announced(w, s).status = s
        /\ \A s \in {"failed", "completed"}, e \in {"none", "items", "permanent"} :
                  With(copy[w], s, e) \in BatchRecords /\ With(copy[w], s, e).status = s
        /\ copy[w] \in BatchRecords
    BY <1>2, AnnouncedBatch
  <1>4. \A saved, label : Saves(w, saved, label) =>
            SavesWell(w, saved, label) \/ SavesBadly(w, saved)
    BY <1>2, Saving DEF BatchInv
  <1>5. ASSUME UNCHANGED <<todo, item>> PROVE LocalTypes'
    BY <1>1, <1>5 DEF BatchInv, LocalTypes
  <1>6. CASE Preflight(w)
    <2>1. UNCHANGED <<todo, item>>
      BY <1>6 DEF Preflight
    <2>2. CASE Saves(w, Announced(w, "preflight"), "publishing")
      BY <1>1, <1>2, <1>3, <1>4, <1>5, <2>1, <2>2, RunSavesGoal DEF AtWorkStatus, AtItem
    <2>3. CASE /\ Hold(w, With(copy[w], "failed", "permanent")) /\ Returns(w, "fail")
                      /\ UNCHANGED record
      <3>1. Moves(w, "fail")
        BY <1>1, <1>2, <2>3, Returning
      <3> QED
        BY <1>1, <1>2, <1>3, <2>1, <2>3, <3>1, RunHoldsGoal DEF AtItem, PublicationTry
    <2> QED
      BY <1>6, <2>2, <2>3 DEF Preflight
  <1>7. CASE StartPublishing(w)
    <2>1. /\ Saves(w, Announced(w, "publishing"), IF Pending(w) = {} THEN "reconciling" ELSE "next_item")
          /\ todo' = [todo EXCEPT ![w] = Pending(w)] /\ UNCHANGED item
      BY <1>7 DEF StartPublishing
    <2>2. Pending(w) \subseteq Files
      BY <1>1, <1>2, BatchSubject, SelectionAssumption DEF Pending
    <2>3. LocalTypes'
      BY <1>1, <2>1, <2>2 DEF BatchInv, LocalTypes
    <2> QED
      BY <1>1, <1>2, <1>3, <1>4, <2>1, <2>3, RunSavesGoal DEF AtWorkStatus, AtItem
  <1>8. CASE NextItem(w)
    <2>1. PICK f \in todo[w] :
             /\ item' = [item EXCEPT ![w] = f]
             /\ todo' = [todo EXCEPT ![w] = @ \ {f}]
             /\ Saves(w, [copy[w] EXCEPT !.items[f].status = "publishing"], "ingest")
      BY <1>8 DEF NextItem
    <2>2. f \in Files
      BY DEF BatchInv, LocalTypes
    <2>3. /\ LocalTypes' /\ item'[w] \in Files /\ \A v \in Workers : v # w => item'[v] = item[v]
      BY <1>1, <2>1, <2>2 DEF BatchInv, LocalTypes
    <2> DEFINE new == [copy[w] EXCEPT !.items[f].status = "publishing"]
    <2> DEFINE items == [copy[w].items EXCEPT ![f].status = "publishing"]
    <2>8. copy[w].items \in [Files -> ItemRecords]
      BY <1>3 DEF BatchRecords
    <2>6. items \in [Files -> ItemRecords]
      BY <2>2, <2>8 DEF ItemRecords
    <2>7. new = [copy[w] EXCEPT !.items = items]
      BY <1>3, <2>2 DEF BatchRecords, ItemRecords
    <2> HIDE DEF items
    <2>4. new \in BatchRecords /\ new.status = copy[w].status
      BY <1>3, <2>6, <2>7 DEF BatchRecords
    <2> HIDE DEF new
    <2>5. SavesWell(w, new, "ingest") \/ SavesBadly(w, new)
      BY <1>4, <2>1 DEF new
    <2> QED
      BY <1>1, <1>2, <2>3, <2>4, <2>5, RunSavesGoal
  <1>9. CASE SaveItem(w)
    <2>1. UNCHANGED <<todo, item>> /\ \E label \in {"reconciling", "next_item"} :
              Saves(w, copy[w], label)
      BY <1>9 DEF SaveItem
    <2> QED
      BY <1>1, <1>2, <1>3, <1>4, <1>5, <2>1, RunSavesGoal DEF AtItem
  <1>10. CASE Reconciling(w)
    <2>1. UNCHANGED <<todo, item>> /\ \E label \in {"items_failed", "complete"} :
              Saves(w, Announced(w, "reconciling"), label)
      BY <1>10 DEF Reconciling
    <2> QED
      BY <1>1, <1>2, <1>3, <1>4, <1>5, <2>1, RunSavesGoal DEF AtItem, AtWorkStatus
  <1>11. CASE ItemsFailed(w)
    <2>1. UNCHANGED <<todo, item>> /\ Saves(w, With(copy[w], "failed", "items"), "current")
      BY <1>11 DEF ItemsFailed
    <2> QED
      BY <1>1, <1>2, <1>3, <1>4, <1>5, <2>1, RunSavesGoal DEF AtItem, PublicationTry
  <1>12. CASE Complete(w)
    <2>1. UNCHANGED <<todo, item>> /\ Saves(w, With(copy[w], "completed", "none"), "current")
      BY <1>12 DEF Complete
    <2> QED
      BY <1>1, <1>2, <1>3, <1>4, <1>5, <2>1, RunSavesGoal DEF AtItem, PublicationTry
  <1> QED
    BY <1>6, <1>7, <1>8, <1>9, <1>10, <1>11, <1>12

LEMMA FailGoal ==
    ASSUME BatchInv, NEW w \in Workers, Fail(w)
    PROVE  BatchGoal
  <1>1. /\ pc[w] = "fail" /\ UNCHANGED <<overtaken, failures, todo, item>> /\ w \in Actors
               /\ w \notin Clients
        /\ Save(w, copy[w]) /\ Returns(w, "current")
    BY QueueAssumption DEF Fail, Actors
  <1>2. InRun(w) /\ Moves(w, "current") /\ copy[w].status = "failed" /\ copy[w] \in BatchRecords
    BY <1>1, Returning, BatchSubject DEF InRun, BatchInv, BatchLabels
  <1>3. SavesWell(w, copy[w], "current")
    BY <1>1, <1>2 DEF SavesWell, Save, Returns
  <1>4. LocalTypes'
    BY <1>1 DEF BatchInv, LocalTypes
  <1> QED
    BY <1>1, <1>2, <1>3, <1>4, RunSavesGoal DEF AtItem, PublicationTry

LEMMA ClaimGoal ==
    ASSUME BatchInv, NEW w \in Workers, Claim(w)
    PROVE  BatchGoal
  <1>1. /\ pc[w] = "claim" /\ UNCHANGED publicationVars /\ w \in Actors /\ w \notin Clients
    BY QueueAssumption DEF Claim, Actors, publicationVars, publicationLocals
  <1>2. UNCHANGED <<overtaken, failures, todo, item>> /\ LocalTypes'
    BY <1>1 DEF publicationVars, publicationLocals, BatchInv, LocalTypes
  <1>3. CASE Returns(w, "current") /\ UNCHANGED records
    BY <1>1, <1>3, Returning, BatchStays DEF PublicationTry, AtItem
  <1>4. CASE /\ MayClaim(Own(w))
                    /\ Save(w, [Own(w) EXCEPT !.status = "preflight", !.error = "none"])
             /\ Returns(w, "preflight")
    <2> DEFINE new == [Own(w) EXCEPT !.status = "preflight", !.error = "none"]
    <2>1. Subject(w) \in Records /\ Own(w) \in BatchRecords
      BY <1>1, BatchSubject
    <2>2. new \in BatchRecords /\ new.status = "preflight" /\ Own(w).status = "queued"
      BY <2>1, <1>4 DEF BatchRecords, Errors, MayClaim, AtWorkStatus
    <2>3. Moves(w, "preflight") /\ record' = [record EXCEPT ![Subject(w)] = new] /\ Hold(w, new)
      BY <1>1, <1>4, Returning DEF Save
    <2> HIDE DEF new
    <2>4. /\ record' \in [Records -> BatchRecords] /\ record'[Subject(w)] = new
          /\ \A x \in Records : x # Subject(w) => record'[x] = record[x]
      BY <1>1, <2>2, <2>3, BatchSaved
    <2>5. /\ copy' \in [Actors -> BatchRecords] /\ copy'[w] = new /\ \A x \in Actors : x # w =>
                 copy'[x] = copy[x]
      BY <1>1, <2>2, <2>3, BatchHeld
    <2>6. BatchTypes'
      BY <2>4, <2>5 DEF BatchTypes
    <2>7. Hurried => Hurried'
      BY <2>3, Hurries DEF BatchInv, Moves
    <2>8. ASSUME ~Hurried', NEW v \in Workers, InRun(v), Subject(v) \notin overtaken
          PROVE  Subject(v) # Subject(w) /\ record'[Subject(v)].status \in AtWorkStatus
      <3>1. Own(w).status \notin AtWorkStatus /\ v \in Actors /\ pc[v] # "idle"
        BY <2>2, <2>8 DEF AtWorkStatus, InRun, PublicationTry, Actors
      <3>2. Subject(v) # Subject(w) /\ Subject(v) \in Records
        BY <2>7, <2>8, <3>1, NotInRun, BatchSubject DEF Own
      <3> QED
        BY <2>4, <2>7, <2>8, <3>2 DEF BatchInv, RunIsAlone, Own
    <2>9. \A v \in Workers : InRun(v) /\ Subject(v) = Subject(w) /\ Subject(w) \notin overtaken =>
              Hurried'
      BY <2>8
    <2>10. BatchInv'
      BY <1>1, <1>2, <2>2, <2>3, <2>4, <2>5, <2>6, <2>8, BatchActs DEF AtWorkStatus, AtItem
    <2>11. BatchMoves
      BY <2>1, <2>2, <2>4 DEF BatchMoves, Own
    <2> QED
      BY <1>2, <2>7, <2>10, <2>11 DEF BatchGoal
  <1> QED
    BY <1>3, <1>4 DEF Claim

\* A batch that is no longer as its retry has it is overtaken for good.
LEMMA Overtaking ==
    ASSUME NEW a \in Actors, Overtakes(a)
    PROVE  /\ overtaken \subseteq overtaken'
           /\ failures[a] # {} /\ Own(a) # copy[a] => Subject(a) \in overtaken'
  BY DEF Overtakes

LEMMA AfterRetryLabels ==
    ASSUME NEW a \in Actors
    PROVE  /\ AfterRetry(a) \in {"send_read", "resend", "claim"}
           /\ AfterRetry(a) \notin PublicationTry \cup {"fail", "retry_save", "unsent", "unsent_save", "idle"} \cup AtItem
  <1>1. AfterRetry(a) \in {"send_read", "resend", "claim"}
    BY QueueAssumption DEF AfterRetry, Actors
  <1> QED
    BY <1>1 DEF PublicationTry, AtItem

\* The calls of a retry.
LEMMA RetryReadGoal ==
    ASSUME BatchInv, NEW a \in Actors, RetryRead(a)
    PROVE  BatchGoal
  <1>1. pc[a] # "idle" /\ UNCHANGED <<record, todo, item, overtaken>> /\ Moves(a, "retry_requeue")
    BY Returning DEF RetryRead
  <1>2. Own(a) \in BatchRecords
    BY <1>1, BatchSubject
  <1>3. /\ copy' \in [Actors -> BatchRecords]
        /\ \A x \in Actors : x # a => copy'[x] = copy[x]
    BY <1>2, BatchHeld DEF RetryRead
  <1>4. failures' \in [Actors -> SUBSET Files] /\ \A x \in Actors : x # a =>
            failures'[x] = failures[x]
    <2> DEFINE noted == {f \in ItemsWith(Own(a), "failed") : Own(a).items[f].error = "reconciliation"}
    <2>1. noted \subseteq Files /\ failures \in [Actors -> SUBSET Files]
      BY DEF ItemsWith, BatchInv, LocalTypes
    <2>2. failures' = [failures EXCEPT ![a] = noted]
      BY DEF RetryRead
    <2> HIDE DEF noted
    <2> QED
      BY <2>1, <2>2
  <1>5. BatchTypes' /\ LocalTypes'
    BY <1>1, <1>3, <1>4 DEF BatchInv, BatchTypes, LocalTypes
  <1>6. Hurried => Hurried'
    BY <1>1, Hurries DEF BatchInv, Moves
  <1>7. ASSUME ~Hurried', NEW w \in Workers, InRun(w), Subject(w) \notin overtaken
        PROVE  record'[Subject(w)].status \in AtWorkStatus
    BY <1>1, <1>6, <1>7 DEF BatchInv, RunIsAlone, Own
  <1>8. BatchInv' /\ (Hurried => Hurried')
    BY <1>1, <1>3, <1>4, <1>5, <1>7, BatchActs DEF PublicationTry, AtItem
  <1> QED
    BY <1>1, <1>8 DEF BatchGoal

\* What is left of a retry's calls: the batch is requeued, read or renamed.
LEMMA RetryActs ==
    ASSUME BatchInv, NEW a \in Actors, NEW label, Moves(a, label), BatchTypes',
           UNCHANGED <<failures, todo, item>>, Overtakes(a),
           \A x \in Actors : x # a => copy'[x] = copy[x],
           \A x \in Records : x # Subject(a) => record'[x] = record[x],
           label \in {AfterRetry(a), "retry_get", "retry_save"},
           label = "retry_save" => failures[a] # {},
           \/ UNCHANGED record
           \/ Own(a).status = "failed" /\ record'[Subject(a)].status = "queued"
           \/ failures[a] # {} /\ (Own(a) = copy[a] => record'[Subject(a)].status = Own(a).status)
    PROVE  BatchGoal
  <1>1. overtaken \subseteq overtaken' /\ pc[a] # "idle" /\ Subject(a) \in Records
    BY Overtaking, BatchSubject DEF Moves
  <1>2. LocalTypes'
    BY DEF BatchInv, LocalTypes
  <1>3. Hurried => Hurried'
    BY Hurries DEF BatchInv, Moves
  <1>4. ASSUME ~Hurried', NEW w \in Workers, InRun(w), Subject(w) \notin overtaken'
        PROVE  record'[Subject(w)].status \in AtWorkStatus
    <2>1. Own(w).status \in AtWorkStatus /\ w \in Actors /\ pc[w] # "idle"
      BY <1>1, <1>3, <1>4 DEF BatchInv, RunIsAlone, InRun, PublicationTry, Actors
    <2>2. Subject(w) \in Records
      BY <2>1, BatchSubject
    <2>3. CASE Subject(w) # Subject(a) \/ UNCHANGED record
      BY <2>1, <2>2, <2>3 DEF Own
    <2>4. CASE Subject(w) = Subject(a) /\ Own(a).status = "failed"
      BY <2>1, <2>4 DEF Own, AtWorkStatus
    <2>5. CASE Subject(w) = Subject(a) /\ failures[a] # {}
                 /\ (Own(a) = copy[a] => record'[Subject(a)].status = Own(a).status)
      BY <1>4, <2>1, <2>5, Overtaking DEF Own
    <2> QED
      BY <2>3, <2>4, <2>5
  <1>5. label \notin PublicationTry \cup {"fail", "unsent", "unsent_save"} \cup AtItem
    BY AfterRetryLabels DEF PublicationTry, AtItem
  <1>6. BatchInv' /\ (Hurried => Hurried')
    BY <1>1, <1>2, <1>4, <1>5, BatchActs
  <1>7. ~BatchDisturbed' => UNCHANGED record \/ BatchMoves
    <2>1. ~BatchDisturbed' => failures[a] = {} \/ Own(a) = copy[a]
      BY Overtaking DEF BatchDisturbed
    <2> QED
      BY <1>1, <2>1 DEF BatchMoves, Own
  <1> QED
    BY <1>1, <1>6, <1>7 DEF BatchGoal

LEMMA RequeuedBatch ==
    ASSUME NEW b \in BatchRecords
    PROVE  Requeued(b) \in BatchRecords /\ Requeued(b).status = "queued"
  <1> DEFINE items == [f \in Files |-> IF b.items[f].status = "failed"
                         THEN [b.items[f] EXCEPT !.status = "pending", !.error = "none"]
                             ELSE b.items[f]]
  <1>1. b.items \in [Files -> ItemRecords]
    BY DEF BatchRecords
  <1>2. items \in [Files -> ItemRecords]
    BY <1>1 DEF ItemRecords
  <1>3. Requeued(b) = [b EXCEPT !.status = "queued", !.error = "none", !.items = items]
    BY DEF Requeued, BatchRecords
  <1> HIDE DEF items
  <1> QED
    BY <1>2, <1>3 DEF BatchRecords, Errors

LEMMA RenamedBatch ==
    ASSUME NEW b \in BatchRecords, NEW fs
    PROVE  Renamed(b, fs) \in BatchRecords /\ Renamed(b, fs).status = b.status
  <1> DEFINE items == [f \in Files |-> IF f \in fs THEN [b.items[f] EXCEPT !.revision = @ + 1] ELSE b.items[f]]
  <1>1. b.items \in [Files -> ItemRecords]
    BY DEF BatchRecords
  <1>2. items \in [Files -> ItemRecords]
    <2>1. ASSUME NEW f \in Files
          PROVE  b.items[f] \in ItemRecords
                     /\ [b.items[f] EXCEPT !.revision = @ + 1] \in ItemRecords
      <3>1. b.items[f] \in ItemRecords
        BY <1>1
      <3>2. b.items[f].revision + 1 \in Nat
        BY <3>1 DEF ItemRecords
      <3> QED
        BY <3>1, <3>2 DEF ItemRecords
    <2> QED
      BY <2>1
  <1>3. Renamed(b, fs) = [b EXCEPT !.items = items]
    BY DEF Renamed, BatchRecords
  <1> HIDE DEF items
  <1> QED
    BY <1>2, <1>3 DEF BatchRecords

LEMMA RetryGoals ==
    ASSUME BatchInv, NEW a \in Actors, RetryRequeue(a) \/ RetryGet(a) \/ RetrySave(a)
    PROVE  BatchGoal
  <1>1. pc[a] # "idle" /\ UNCHANGED <<failures, todo, item>> /\ Overtakes(a)
    BY DEF RetryRequeue, RetryGet, RetrySave
  <1>2. Subject(a) \in Records /\ Own(a) \in BatchRecords /\ copy[a] \in BatchRecords
    BY <1>1, BatchSubject
  <1>3. PICK label : Returns(a, label) /\ label \in {AfterRetry(a), "retry_get", "retry_save"}
                     /\ (label = "retry_save" => failures[a] # {})
    BY AfterRetryLabels DEF RetryRequeue, RetryGet, RetrySave
  <1>4. Moves(a, label)
    BY <1>1, <1>3, Returning, AfterRetryLabels
  <1>5. ASSUME NEW saved \in BatchRecords, Save(a, saved)
        PROVE  /\ BatchTypes' /\ record'[Subject(a)] = saved
               /\ \A x \in Records : x # Subject(a) => record'[x] = record[x]
               /\ \A x \in Actors : x # a => copy'[x] = copy[x]
    BY <1>1, <1>5, BatchSaved, BatchHeld DEF Save, BatchTypes
  <1>6. CASE MayRequeue(Own(a)) /\ Save(a, Requeued(Own(a)))
    <2>1. Requeued(Own(a)) \in BatchRecords /\ Requeued(Own(a)).status = "queued"
      BY <1>2, RequeuedBatch
    <2> QED
      BY <1>1, <1>3, <1>4, <1>5, <1>6, <2>1, RetryActs DEF MayRequeue
  <1>7. CASE UNCHANGED records
    <2>1. BatchTypes'
      BY <1>7 DEF BatchInv, BatchTypes, records
    <2> QED
      BY <1>1, <1>3, <1>4, <1>7, <2>1, RetryActs DEF records
  <1>8. CASE Hold(a, Own(a)) /\ UNCHANGED record
    <2>1. BatchTypes' /\ \A x \in Actors : x # a => copy'[x] = copy[x]
      BY <1>2, <1>8, BatchHeld DEF BatchInv, BatchTypes
    <2> QED
      BY <1>1, <1>3, <1>4, <1>8, <2>1, RetryActs
  <1>9. CASE RetrySave(a)
    <2>1. Renamed(copy[a], failures[a]) \in BatchRecords
              /\ Renamed(copy[a], failures[a]).status = copy[a].status
      BY <1>2, RenamedBatch
    <2>2. Save(a, Renamed(copy[a], failures[a])) /\ failures[a] # {}
      BY <1>9 DEF RetrySave, BatchInv, BatchLabels
    <2> QED
      BY <1>1, <1>3, <1>4, <1>5, <2>1, <2>2, RetryActs
  <1> QED
    BY <1>6, <1>7, <1>8, <1>9 DEF RetryRequeue, RetryGet

\* What a step keeps that is no move of an actor at work.
LEMMA BatchesKept ==
    ASSUME BatchInv, QueueInv', BatchTypes', UNCHANGED <<copy, failures, todo, item, overtaken>>,
           Counts,
           \A c \in Clients : pc'[c] # "idle" =>
               /\ asked'[c] \in Batches
               /\ pc'[c] \in {"unsent", "unsent_save"} => pc'[c] = pc[c] \/ faults'["broker"] > 0,
           \A a \in Actors : pc'[a] = "retry_save" => pc[a] = "retry_save",
           \A w \in Workers : InRun(w)' => pc'[w] = pc[w] /\ Subject(w)' = Subject(w),
           ~Hurried' => \A w \in Workers : InRun(w) /\ Subject(w) \notin overtaken =>
                            record'[Subject(w)] = record[Subject(w)]
    PROVE  BatchInv' /\ (Hurried => Hurried')
  <1>1. "broker" \in Kinds /\ faults["broker"] \in Nat /\ faults'["broker"] \in Nat
            /\ faults["broker"] <= faults'["broker"]
    BY CountsGrow DEF Kinds, BatchInv, QueueInv, QueueShape
  <1>2. \A w \in Workers : InRun(w)' => InRun(w)
    BY DEF InRun
  <1>3. \A w \in Workers : pc'[w] \in PublicationTry \cup {"fail"} \cup AtItem => pc'[w] = pc[w]
    BY DEF InRun, AtItem, PublicationTry
  <1>4. LocalTypes'
    BY DEF BatchInv, LocalTypes
  <1>5. BatchLabels'
    <2>1. \A c \in Clients :
             /\ pc'[c] # "idle" => asked'[c] \in Batches
             /\ pc'[c] \in {"unsent", "unsent_save"} => faults'["broker"] > 0
      BY <1>1 DEF BatchInv, BatchLabels
    <2>2. \A w \in Workers :
             /\ pc'[w] = "fail" => copy'[w].status = "failed"
             /\ pc'[w] \in PublicationTry => copy'[w].status \in AtWorkStatus
             /\ pc'[w] \in AtItem => item'[w] \in Files
      BY <1>3 DEF BatchInv, BatchLabels
    <2>3. \A x \in Actors : pc'[x] = "retry_save" => failures'[x] # {}
      BY DEF BatchInv, BatchLabels
    <2> QED
      BY <2>1, <2>2, <2>3 DEF BatchLabels
  <1>6. Hurried => Hurried'
    BY Hurries DEF BatchInv
  <1>7. ASSUME ~Hurried' PROVE RunIsAlone'
    <2>1. RunIsAlone
      BY <1>6, <1>7 DEF BatchInv
    <2> QED
      BY <1>2, <1>7, <2>1 DEF RunIsAlone, Own
  <1> QED
    BY <1>4, <1>5, <1>6, <1>7 DEF BatchInv

LEMMA BatchArrivedGoal ==
    ASSUME BatchInv, NEW c \in Clients, NEW b \in Batches, Submit(c, b) \/ Retry(c, b)
    PROVE  BatchGoal
  <1>1. PICK label \in {"send_read", "retry_read"} : Arrives(c, b, label)
    BY DEF Submit, Retry
  <1>2. /\ UNCHANGED <<copy, faults, failures, todo, item, overtaken>>
        /\ b \in Records /\ c \in Actors /\ Counts
    BY <1>1, SelectionAssumption
       DEF Submit, Retry, records, Arrives, Actors, Counts, publicationVars, publicationLocals
  <1>3. /\ QueueInv' /\ Reaches(c, label)
        /\ \A x \in Actors : pc[x] # "idle" => Subject(x)' = Subject(x)
    BY <1>1, <1>2, Arriving DEF BatchInv
  <1>4. \/ UNCHANGED record
        \/ record[b].status = "absent" /\ record' = [record EXCEPT ![b].status = "queued"]
    <2>1. record[b] \in BatchRecords /\ record \in [Records -> BatchRecords]
      BY <1>2 DEF BatchInv, BatchTypes
    <2>2. CASE record' = [record EXCEPT ![b].status = IF @ = "absent" THEN "queued" ELSE @]
      BY <1>2, <2>1, <2>2 DEF BatchRecords
    <2> QED
      BY <2>2 DEF Submit, Retry, records
  <1>5. /\ BatchTypes' /\ \A x \in Records : x # b => record'[x] = record[x]
        /\ UNCHANGED record \/ (record[b].status = "absent" /\ record'[b].status = "queued")
    <2>1. CASE UNCHANGED record
      BY <2>1, <1>2 DEF BatchInv, BatchTypes
    <2>2. CASE record[b].status = "absent" /\ record' = [record EXCEPT ![b].status = "queued"]
      <3> DEFINE new == [record[b] EXCEPT !.status = "queued"]
      <3>1. record[b] \in BatchRecords /\ record \in [Records -> BatchRecords]
        BY <1>2 DEF BatchInv, BatchTypes
      <3>2. new \in BatchRecords /\ new.status = "queued"
        BY <3>1 DEF BatchRecords
      <3>3. record' = [record EXCEPT ![b] = new]
        BY <2>2
      <3> HIDE DEF new
      <3> QED
        BY <1>2, <2>2, <3>1, <3>2, <3>3, Writing DEF BatchInv, BatchTypes
    <2> QED
      BY <1>4, <2>1, <2>2
  <1>6. \A w \in Workers : pc'[w] = pc[w] /\ w \in Actors
    BY <1>3, QueueAssumption DEF Reaches, Actors
  <1>7. ASSUME ~Hurried', NEW w \in Workers, InRun(w), Subject(w) \notin overtaken
        PROVE  record'[Subject(w)] = record[Subject(w)]
    <2>1. w \in Actors /\ pc[w] # "idle" /\ ~Hurried
      BY <1>2, <1>7 DEF InRun, PublicationTry, Actors, Hurried
    <2>2. Subject(w) \in Records
      BY <2>1, BatchSubject
    <2> QED
      BY <1>5, <1>7, <2>1, <2>2, NotInRun DEF AtWorkStatus
  <1>8. \A d \in Clients : pc'[d] # "idle" =>
            /\ asked'[d] \in Batches
            /\ pc'[d] \in {"unsent", "unsent_save"} => pc'[d] = pc[d]
    <2>1. ASSUME NEW d \in Clients, pc'[d] # "idle", d # c
          PROVE  asked'[d] \in Batches /\ pc'[d] = pc[d]
      BY <1>1, <1>3, <2>1
         DEF Reaches, Arrives, Actors, BatchInv, QueueInv, QueueShape, BatchLabels
    <2>2. asked'[c] = b /\ pc'[c] = label
      BY <1>1, <1>3 DEF Reaches, Arrives, BatchInv, QueueInv, QueueShape
    <2> QED
      BY <2>1, <2>2
  <1>9. ASSUME NEW w \in Workers, InRun(w)' PROVE pc'[w] = pc[w] /\ Subject(w)' = Subject(w)
    <2>1. pc[w] # "idle"
      BY <1>6, <1>9 DEF InRun, PublicationTry
    <2> QED
      BY <1>3, <1>6, <2>1
  <1>10. \A a \in Actors : pc'[a] = "retry_save" => pc[a] = "retry_save"
    BY <1>3 DEF Reaches
  <1>11. BatchInv' /\ (Hurried => Hurried')
    BY <1>2, <1>3, <1>5, <1>7, <1>8, <1>9, <1>10, BatchesKept
  <1>12. UNCHANGED record \/ BatchMoves
    BY <1>2, <1>5 DEF BatchMoves
  <1> QED
    BY <1>2, <1>11, <1>12 DEF BatchGoal

\* A request that sends its task, a worker that takes one, sends it again or is lost.
LEMMA BatchTurn ==
    ASSUME BatchInv, NEW a \in Actors,
           NEW label \in {"task_read", "acknowledge", "idle", "done", "unsent"},
           QueueInv', Reaches(a, label), Counts,
           UNCHANGED <<records, asked, failures, todo, item, overtaken>>,
           a \in Clients => pc[a] # "idle" /\ (label = "unsent" => faults'["broker"] > 0),
           \A x \in Actors : pc[x] # "idle" => Subject(x)' = Subject(x)
    PROVE  BatchGoal
  <1>1. BatchTypes' /\ UNCHANGED <<record, copy>>
    BY DEF BatchInv, BatchTypes, records
  <1>2. \A c \in Clients : pc'[c] # "idle" =>
            /\ asked'[c] \in Batches
            /\ pc'[c] \in {"unsent", "unsent_save"} => pc'[c] = pc[c] \/ faults'["broker"] > 0
    BY QueueAssumption DEF Reaches, Actors, BatchInv, BatchLabels
  <1>3. ASSUME NEW w \in Workers, InRun(w)' PROVE pc'[w] = pc[w] /\ Subject(w)' = Subject(w)
    <2>1. pc'[w] # label /\ pc'[w] # "idle" /\ w \in Actors
      BY <1>3 DEF InRun, PublicationTry, Actors
    <2>2. pc'[w] = pc[w] /\ pc[w] # "idle"
      BY <2>1 DEF Reaches
    <2> QED
      BY <2>1, <2>2
  <1>4. \A x \in Actors : pc'[x] = "retry_save" => pc[x] = "retry_save"
    BY DEF Reaches
  <1>5. BatchInv' /\ (Hurried => Hurried')
    BY <1>1, <1>2, <1>3, <1>4, BatchesKept
  <1> QED
    BY <1>1, <1>5 DEF BatchGoal

LEMMA BatchTurnedGoal ==
    ASSUME BatchInv, UNCHANGED <<failures, todo, item, overtaken>>, NEW a \in Actors,
           \/ a \in Clients /\ Send(a)
           \/ a \in Workers /\ ((\E m \in waiting : Take(a, m)) \/ Resend(a) \/ LoseWorker(a))
    PROVE  BatchGoal
  <1>1. CASE a \in Clients /\ Send(a)
    <2>1. /\ QueueInv' /\ (Reaches(a, "done") \/ Reaches(a, "unsent"))
          /\ \A x : Subject(x)' = Subject(x)
      BY <1>1, Sending DEF BatchInv
    <2>2. UNCHANGED <<records, asked>> /\ "broker" \in Kinds /\ pc[a] = "send" /\ Counts
      BY <1>1 DEF Send, Kinds, Counts
    <2>3. (Goto(a, "done") \/ Goto(a, "unsent")) /\ (Goto(a, "done") \/ Fault("broker"))
      BY <1>1 DEF Send
    <2>4. Reaches(a, "done") \/ faults'["broker"] > 0
      BY <2>2, <2>3, FaultCounts, Going DEF BatchInv
    <2>5. a \notin Workers
      BY <1>1, QueueAssumption
    <2>6. CASE Reaches(a, "done")
      BY <2>1, <2>2, <2>6, BatchTurn
    <2>7. CASE Reaches(a, "unsent") /\ faults'["broker"] > 0
      BY <2>1, <2>2, <2>7, BatchTurn
    <2> QED
      BY <2>1, <2>4, <2>6, <2>7
  <1>2. ASSUME a \in Workers, NEW m \in waiting, Take(a, m) PROVE BatchGoal
    <2>1. Counts /\ UNCHANGED <<records, asked>> /\ a \notin Clients
      BY <1>2, QueueAssumption DEF Take, Counts
    <2> QED
      BY <1>2, <2>1, Taking, BatchTurn DEF BatchInv
  <1>3. CASE a \in Workers /\ Resend(a)
    <2>1. Counts /\ UNCHANGED <<records, asked>> /\ a \notin Clients
      BY <1>3, QueueAssumption DEF Resend, Raises, Returns, Counts, Kinds
    <2> QED
      BY <1>3, <2>1, Resending, BatchTurn DEF BatchInv
  <1>4. CASE a \in Workers /\ LoseWorker(a)
    <2>1. Counts /\ UNCHANGED <<records, asked>> /\ a \notin Clients
      BY <1>4, QueueAssumption DEF LoseWorker, Counts, Kinds
    <2> QED
      BY <1>4, <2>1, LosingWorker, BatchTurn DEF BatchInv
  <1> QED
    BY <1>1, <1>2, <1>3, <1>4

LEMMA BatchUnsentGoal ==
    ASSUME BatchInv, NEW c \in Clients, MarkUnsent(c),
           UNCHANGED <<failures, todo, item, overtaken>>
    PROVE  BatchGoal
  <1>1. c \in Actors /\ c \notin Workers /\ pc[c] # "idle"
            /\ pc[c] \in {"unsent", "unsent_save"} /\ "broker" \in Kinds
    BY QueueAssumption DEF MarkUnsent, Actors, Kinds
  <1>2. PICK label \in {"unsent_save", "done"} : Moves(c, label)
    BY ClientsMove DEF BatchInv
  <1>3. faults["broker"] > 0 /\ faults'["broker"] \in Nat /\ faults["broker"] \in Nat
            /\ faults["broker"] <= faults'["broker"]
    BY <1>1, <1>2, CountsGrow DEF BatchInv, BatchLabels, Moves, QueueInv, QueueShape
  <1>4. Hurried' /\ BatchDisturbed' /\ faults'["broker"] > 0
    BY <1>3 DEF BatchDisturbed, Hurried
  <1>5. Own(c) \in BatchRecords /\ copy[c] \in BatchRecords
    BY <1>1, BatchSubject
  <1> DEFINE new == With(copy[c], "failed", "queue")
  <1>6. new \in BatchRecords
    BY <1>5 DEF With, BatchRecords, Errors
  <1> HIDE DEF new
  <1>7. BatchTypes' /\ \A x \in Actors : x # c => copy'[x] = copy[x]
    <2>1. CASE Hold(c, Own(c)) /\ UNCHANGED record
      BY <1>1, <1>5, <2>1, BatchHeld DEF BatchInv, BatchTypes
    <2>2. CASE Save(c, new)
      BY <1>1, <1>6, <2>2, BatchHeld, BatchSaved DEF BatchTypes, Save
    <2> QED
      BY <2>1, <2>2 DEF MarkUnsent, new
  <1>8. LocalTypes'
    BY DEF BatchInv, LocalTypes
  <1>9. BatchInv' /\ (Hurried => Hurried')
    BY <1>1, <1>2, <1>4, <1>7, <1>8, BatchActs DEF AtItem
  <1> QED
    BY <1>4, <1>9 DEF BatchGoal

LEMMA RereviewGoal ==
    ASSUME BatchInv, Rereview
    PROVE  BatchGoal
  <1>1. /\ UNCHANGED <<record, copy, waiting, pc, asked, task, retries, failures, todo, item, overtaken>>
        /\ Counts
    BY DEF Rereview, records, publicationLocals, Counts, Kinds
  <1>2. QueueInv' /\ \A x : Subject(x)' = Subject(x)
    BY <1>1, CountsGrow DEF BatchInv, QueueInv, QueueShape, QueueKnown, Subject
  <1>3. BatchTypes'
    BY <1>1 DEF BatchInv, BatchTypes
  <1>4. \A c \in Clients : pc[c] # "idle" => asked[c] \in Batches
    BY DEF BatchInv, BatchLabels
  <1>5. BatchInv' /\ (Hurried => Hurried')
    BY <1>1, <1>2, <1>3, <1>4, BatchesKept
  <1> QED
    BY <1>1, <1>5 DEF BatchGoal

\* Every step of the publication service keeps its invariant, and moves a batch no further
\* than BatchMoves says.
LEMMA PublicationStep ==
    ASSUME BatchInv, PublicationNext \/ UNCHANGED <<publicationVars, queueVars>>
    PROVE  BatchGoal
  <1> USE DEF Actors, Kinds
  <1> DEFINE same == UNCHANGED <<failures, todo, item, overtaken>>
  <1>0. UNCHANGED publicationVars => same
    BY DEF publicationVars, publicationLocals
  <1>1. ASSUME NEW c \in Clients, NEW b \in Batches, Submit(c, b) \/ Retry(c, b) PROVE BatchGoal
    BY <1>1, BatchArrivedGoal
  <1>2. ASSUME NEW a \in Actors, RetryRead(a) \/ RetryRequeue(a) \/ RetryGet(a) \/ RetrySave(a)
        PROVE  BatchGoal
    BY <1>2, RetryReadGoal, RetryGoals
  <1>3. ASSUME NEW c \in Clients, SendRead(c) \/ LoseRequest(c), UNCHANGED publicationVars
        PROVE  BatchGoal
    <2>1. c \in Actors /\ c \notin Workers /\ QueueInv
      BY QueueAssumption DEF BatchInv
    <2>2. PICK label \in {"send", "done"} : Moves(c, label) /\ UNCHANGED records
      BY <1>3, <2>1, ClientsMove
    <2> QED
      BY <1>3, <2>1, <2>2, BatchStays DEF PublicationTry, AtItem
  <1>4. ASSUME NEW c \in Clients, Send(c), UNCHANGED publicationVars PROVE BatchGoal
    BY <1>0, <1>4, BatchTurnedGoal
  <1>5. ASSUME NEW c \in Clients, MarkUnsent(c), UNCHANGED publicationVars PROVE BatchGoal
    BY <1>0, <1>5, BatchUnsentGoal
  <1>6. ASSUME NEW w \in Workers, (\E m \in waiting : Take(w, m)) \/ Resend(w),
               UNCHANGED publicationVars
        PROVE  BatchGoal
    BY <1>0, <1>6, BatchTurnedGoal
  <1>7. ASSUME NEW w \in Workers, PublicationLosesWorker(w) PROVE BatchGoal
    BY <1>7, BatchTurnedGoal DEF PublicationLosesWorker, publicationLocals
  <1>8. ASSUME NEW w \in Workers, TaskRead(w) PROVE BatchGoal
    <2>1. PICK label \in {"retry_read", "claim"} : Returns(w, label)
      BY <1>8 DEF TaskRead
    <2>2. Moves(w, label)
      BY <1>8, <2>1, Returning, QueueAssumption DEF TaskRead
    <2> QED
      BY <1>8, <2>2, BatchStays DEF TaskRead, PublicationTry, AtItem
  <1>9. ASSUME NEW w \in Workers, Current(w) PROVE BatchGoal
    <2>1. PICK label \in {"retry_read", "idle"} : Moves(w, label)
      BY <1>9, QueueAssumption DEF Current, Ends, Moves, Counts
    <2> QED
      BY <1>9, <2>1, BatchStays DEF Current, PublicationTry, AtItem
  <1>10. ASSUME NEW w \in Workers, Claim(w) \/ Fail(w) PROVE BatchGoal
    BY <1>10, ClaimGoal, FailGoal
  <1>11. ASSUME NEW w \in Workers,
                \/ Preflight(w) \/ StartPublishing(w) \/ NextItem(w) \/ SaveItem(w)
                \/ Reconciling(w) \/ ItemsFailed(w) \/ Complete(w)
         PROVE  BatchGoal
    BY <1>11, RunGoals
  <1>12. ASSUME NEW w \in Workers, Ingest(w) \/ Reconcile(w) \/ Compensate(w) \/ ItemRaises(w)
         PROVE  BatchGoal
    BY <1>12, ItemGoals
  <1>13. ASSUME NEW a \in Actors, Breaks(a) PROVE BatchGoal
    <2>1. PICK label \in {"done", "idle"} : Moves(a, label)
      BY <1>13, Raising, QueueAssumption DEF Breaks, Retrying
    <2> QED
      BY <1>13, <2>1, BatchStays DEF Breaks, PublicationTry, AtItem
  <1>14. CASE UNCHANGED <<publicationVars, queueVars>>
    <2>1. UNCHANGED <<record, copy, waiting, pc, asked, task, retries, faults, failures, todo, item, overtaken>>
      BY <1>0, <1>14 DEF queueVars, records
    <2>2. QueueInv' /\ \A x : Subject(x)' = Subject(x)
      BY <2>1 DEF BatchInv, QueueInv, QueueShape, QueueKnown, Subject
    <2>3. BatchTypes' /\ Counts
      BY <2>1 DEF BatchInv, BatchTypes, Counts
    <2>4. \A c \in Clients : pc[c] # "idle" => asked[c] \in Batches
      BY DEF BatchInv, BatchLabels
    <2>5. BatchInv' /\ (Hurried => Hurried')
      BY <2>1, <2>2, <2>3, <2>4, BatchesKept
    <2> QED
      BY <2>1, <2>5 DEF BatchGoal
  <1>15. CASE Rereview
    BY <1>15, RereviewGoal
  <1> QED
    BY <1>1, <1>2, <1>3, <1>4, <1>5, <1>6, <1>7, <1>8, <1>9, <1>10, <1>11, <1>12, <1>13, <1>14,
       <1>15
       DEF PublicationNext, PublicationClientStep, PublicationWorkerStep

-----------------------------------------------------------------------------
(* Publication batches: what is served *)

\* What a worker, a retry and the store tell of the items, and what is served.
ItemStage == {"ingest", "reconcile", "compensate"}

NoneFailedIn(b) == \A f \in Files : b.items[f].status # "failed"

\* An item that failed its read-back was ingested at its revision and is isolated.
Isolates(b) ==
    \A f \in Files :
        b.items[f].status = "failed" /\ b.items[f].error = "reconciliation" =>
            <<f, b.items[f].revision>> \in ingested \ served

Serves(b, fs) ==
    \A f \in fs : b.items[f].status = "published" => <<f, b.items[f].revision>> \in served

\* An item the run has come through.
Done(w, f) == copy[w].items[f].status \in {"published", "failed"}

\* How far a run has come with its items: those it has yet to do, the one at work, and
\* those that are done.
ItemsGoOn(w) ==
    /\ pc[w] \in ItemStage \cup {"next_item", "save_item"} =>
         /\ todo[w] \subseteq Selected[Subject(w)]
         /\ \A f \in Selected[Subject(w)] \ todo[w] :
              Done(w, f) \/ (pc[w] \in ItemStage /\ f = item[w])
    /\ pc[w] \in ItemStage =>
         item[w] \in Selected[Subject(w)] /\ copy[w].items[item[w]].status = "publishing"
    /\ pc[w] \in {"reconcile", "compensate"} => Key(w) \in ingested
    /\ pc[w] = "reconciling" => \A f \in Selected[Subject(w)] : Done(w, f)
    /\ pc[w] = "complete" =>
         \A f \in Selected[Subject(w)] : copy[w].items[f].status = "published"

\* What a run holds as published is served, unless something has disturbed its batch.
RunServes(w) ==
    ~Hurried /\ Subject(w) \notin overtaken /\ ~Shared(Subject(w)) =>
        Serves(copy[w], Selected[Subject(w)])

\* A retry renames no published item, and saves no failed batch, unless its batch has
\* changed under it.
RetryTells(a) ==
    /\ pc[a] = "retry_save" =>
         copy[a].status # "absent" /\ (copy[a].status = "queued" => NoneFailedIn(copy[a]))
    /\ pc[a] \in Retrying /\ failures[a] # {} /\ Subject(a) \notin overtaken =>
         /\ \A f \in failures[a] : copy[a].items[f].status # "published"
         /\ pc[a] # "retry_requeue" => copy[a].status # "failed"

\* What is stored: a waiting batch has no failed items; a failed one has isolated what
\* failed its read-back; a completed one has every item published; and out of a run the
\* published items are served.
StoredTells(b) ==
    /\ record[b].status \in {"absent", "queued"} => NoneFailedIn(record[b])
    /\ faults["broker"] = 0 /\ b \notin overtaken /\ record[b].status = "failed" =>
         Isolates(record[b])
    /\ ~Hurried /\ b \notin overtaken =>
         /\ record[b].status = "completed" =>
              \A f \in Selected[b] : record[b].items[f].status = "published"
         /\ ~Shared(b) /\ record[b].status \notin AtWorkStatus => Serves(record[b], Selected[b])

\* A request is about a batch that there is.
AskedIsPresent == \A c \in Clients : pc[c] # "idle" => record[asked[c]].status # "absent"

RunTells(w) == Isolates(copy[w]) /\ ItemsGoOn(w) /\ RunServes(w)

\* What is stored, held and served agrees.
ServedInv ==
    /\ served \subseteq ingested
    /\ AskedIsPresent
    /\ \A w \in Workers : InRun(w) => RunTells(w)
    /\ \A a \in Actors : RetryTells(a)
    /\ \A b \in Batches : StoredTells(b)

\* What an actor may change about what is served: to ingest, or to isolate its own item.
Learns(a) ==
    /\ served' \subseteq ingested' /\ ingested \subseteq ingested'
    /\ ingested \ served \subseteq ingested' \ served'
    /\ \/ served \subseteq served'
       \/ a \in Workers /\ pc[a] = "compensate" /\ served \ {Key(a)} \subseteq served'

LEMMA IsPresent ==
    ASSUME BatchInv, ServedInv, NEW a \in Actors, pc[a] # "idle"
    PROVE  Own(a).status # "absent"
  BY DEF ServedInv, AskedIsPresent, BatchInv, QueueInv, QueueKnown, Own, Subject, Actors

\* What was undisturbed after a step was so before.
LEMMA FaultsStay ==
    ASSUME QueueInv, Counts
    PROVE  /\ ~Hurried' => ~Hurried
           /\ faults'["broker"] = 0 => faults["broker"] = 0
  <1>1. "broker" \in Kinds /\ faults["broker"] \in Nat /\ faults'["broker"] \in Nat
            /\ faults["broker"] <= faults'["broker"]
    BY CountsGrow DEF Kinds, QueueInv, QueueShape
  <1> QED
    BY <1>1, Hurries

LEMMA SharedStays ==
    ASSUME \A x \in Records : record'[x].status = "absent" => record[x].status = "absent"
    PROVE  \A b : ~Shared(b)' => ~Shared(b)
  BY SelectionAssumption DEF Shared

\* What an actor must do for the invariant to hold again: only its own record, copy and
\* item are to be looked at.
LEMMA ServedStep ==
    ASSUME BatchInv, BatchInv', ServedInv, NEW a, NEW r, Counts,
           overtaken \subseteq overtaken', Learns(a),
           \A x \in Actors : x # a =>
               pc'[x] = pc[x] /\ copy'[x] = copy[x] /\ failures'[x] = failures[x],
           \A w \in Workers : w # a => todo'[w] = todo[w] /\ item'[w] = item[w],
           \A x \in Actors : x # a /\ pc[x] # "idle" => Subject(x)' = Subject(x),
           \A x \in Records : x # r => record'[x] = record[x],
           record'[r].status = "absent" => record[r].status = "absent",
           a \in Clients /\ pc'[a] # "idle" => record'[asked'[a]].status # "absent",
           a \in Actors => RetryTells(a)',
           a \in Workers /\ InRun(a)' => RunTells(a)',
           r \in Batches => record'[r] = record[r] \/ StoredTells(r)'
    PROVE  ServedInv'
  <1>1. /\ ~Hurried' => ~Hurried
        /\ faults'["broker"] = 0 => faults["broker"] = 0
    BY FaultsStay DEF BatchInv
  <1>2. \A b : ~Shared(b)' => ~Shared(b)
    BY SharedStays
  <1>3. \A b : b \notin overtaken' => b \notin overtaken
    OBVIOUS
  <1>4. ASSUME NEW b \in Batches, b \notin overtaken, ~Shared(b), NEW f \in Selected[b], NEW n,
               <<f, n>> \in served, <<f, n>> \notin served'
        PROVE  a \in Workers /\ InRun(a) /\ Subject(a) = b
    <2>1. a \in Workers /\ pc[a] = "compensate" /\ <<f, n>> = Key(a)
      BY <1>4 DEF Learns
    <2>2. InRun(a) /\ f = item[a] /\ pc[a] # "idle"
      BY <2>1 DEF InRun, PublicationTry, Key
    <2>3. f \in Selected[Subject(a)]
      BY <2>1, <2>2 DEF ServedInv, RunTells, ItemsGoOn, ItemStage
    <2>4. Subject(a) \in Batches /\ record[Subject(a)].status # "absent"
      BY <2>1, <2>2, BatchSubject, IsPresent DEF Own, Actors
    <2> QED
      BY <1>4, <2>1, <2>2, <2>3, <2>4 DEF Shared
  <1>5. ASSUME NEW w \in Workers, w # a, InRun(w)' PROVE RunTells(w)'
    <2>1. w \in Actors /\ InRun(w) /\ pc'[w] = pc[w] /\ pc[w] # "idle"
      BY <1>5 DEF InRun, PublicationTry, Actors
    <2>2. /\ Subject(w)' = Subject(w) /\ copy'[w] = copy[w] /\ todo'[w] = todo[w]
          /\ item'[w] = item[w] /\ RunTells(w) /\ Subject(w) \in Batches
      BY <1>5, <2>1, BatchSubject DEF ServedInv
    <2>3. Isolates(copy[w])'
      BY <2>2 DEF RunTells, Isolates, Learns
    <2>4. ItemsGoOn(w)'
      BY <2>1, <2>2 DEF RunTells, ItemsGoOn, Done, Key, Learns
    <2>5. RunServes(w)'
      <3> SUFFICES ASSUME ~Hurried', Subject(w) \notin overtaken', ~Shared(Subject(w))',
                          NEW f \in Selected[Subject(w)], copy[w].items[f].status = "published"
                   PROVE  <<f, copy[w].items[f].revision>> \in served'
        BY <2>2 DEF RunServes, Serves
      <3>1. ~Hurried /\ Subject(w) \notin overtaken /\ ~Shared(Subject(w))
        BY <1>1, <1>2, <1>3, <2>2 DEF Shared
      <3>2. <<f, copy[w].items[f].revision>> \in served
        BY <2>2, <3>1 DEF RunTells, RunServes, Serves
      <3>3. a \in Workers /\ InRun(a) /\ Subject(a) = Subject(w) => w = a
        BY <2>1, <3>1 DEF BatchInv, RunIsAlone
      <3> QED
        BY <1>4, <1>5, <2>2, <3>1, <3>2, <3>3
    <2> QED
      BY <2>3, <2>4, <2>5 DEF RunTells
  <1>6. ASSUME NEW x \in Actors, x # a PROVE RetryTells(x)'
    <2>1. pc[x] \in Retrying => pc[x] # "idle"
      BY DEF Retrying
    <2>2. RetryTells(x) /\ pc'[x] = pc[x] /\ copy'[x] = copy[x] /\ failures'[x] = failures[x]
              /\ (pc[x] \in Retrying => Subject(x)' = Subject(x))
      BY <1>6, <2>1 DEF ServedInv
    <2> QED
      BY <2>2 DEF RetryTells, NoneFailedIn
  <1>7. ASSUME NEW b \in Batches, record'[b] = record[b] PROVE StoredTells(b)'
    <2>1. StoredTells(b)
      BY DEF ServedInv
    <2>2. record'[b].status \in {"absent", "queued"} => NoneFailedIn(record[b])'
      BY <1>7, <2>1 DEF StoredTells, NoneFailedIn
    <2>3. faults'["broker"] = 0 /\ b \notin overtaken' /\ record'[b].status = "failed" =>
              Isolates(record[b])'
      BY <1>1, <1>3, <1>7, <2>1 DEF StoredTells, Isolates, Learns
    <2>4. ASSUME ~Hurried', b \notin overtaken', record'[b].status = "completed"
          PROVE  \A f \in Selected[b] : record'[b].items[f].status = "published"
      BY <1>1, <1>3, <1>7, <2>1, <2>4 DEF StoredTells
    <2>5. ASSUME ~Hurried', b \notin overtaken', ~Shared(b)',
                 record'[b].status \notin AtWorkStatus
          PROVE  Serves(record[b], Selected[b])'
      <3>1. ~Hurried /\ b \notin overtaken /\ ~Shared(b)
        BY <1>1, <1>2, <1>3, <2>5
      <3>2. Serves(record[b], Selected[b])
        BY <1>7, <2>1, <2>5, <3>1 DEF StoredTells
      <3>3. a \in Workers /\ InRun(a) => Subject(a) # b
        BY <1>7, <2>5, <3>1, NotInRun
      <3> QED
        BY <1>4, <1>7, <3>1, <3>2, <3>3 DEF Serves
    <2> QED
      BY <2>2, <2>3, <2>4, <2>5 DEF StoredTells
  <1>8. \A b \in Batches : StoredTells(b)'
    BY <1>7, SelectionAssumption
  <1>9. AskedIsPresent'
    <2> SUFFICES ASSUME NEW c \in Clients, pc'[c] # "idle", c # a
                 PROVE  record'[asked'[c]].status # "absent"
      BY DEF AskedIsPresent
    <2>1. c \in Actors /\ c \notin Workers /\ pc[c] # "idle"
      BY QueueAssumption DEF Actors
    <2>2. asked'[c] = asked[c] /\ asked[c] \in Records
      BY <2>1, BatchSubject DEF Subject
    <2>3. record[asked[c]].status # "absent"
      BY <2>1 DEF ServedInv, AskedIsPresent
    <2> QED
      BY <2>2, <2>3
  <1> QED
    BY <1>5, <1>6, <1>8, <1>9 DEF ServedInv, Learns

LEMMA KnowsNothingNew ==
    ASSUME ServedInv, UNCHANGED <<ingested, served>>, NEW a
    PROVE  Learns(a)
  BY DEF Learns, ServedInv

\* A worker in a run that saves nothing.
LEMMA RunHoldsServed ==
    ASSUME BatchInv, BatchInv', ServedInv, NEW w \in Workers, InRun(w),
           NEW label, label \notin Retrying, Moves(w, label), Learns(w),
           UNCHANGED <<record, overtaken, failures, todo, item>>,
           \A x \in Actors : x # w => copy'[x] = copy[x],
           InRun(w)' => RunTells(w)'
    PROVE  ServedInv'
  <1>1. w \in Actors /\ w \notin Clients /\ pc[w] # "idle"
    BY QueueAssumption DEF Actors, InRun, PublicationTry
  <1>2. Subject(w) \in Records /\ Reaches(w, label) /\ \A x : Subject(x)' = Subject(x)
    BY <1>1, BatchSubject, Moving DEF BatchInv
  <1>3. RetryTells(w)'
    BY <1>2 DEF RetryTells, Reaches, Retrying
  <1> QED
    BY <1>1, <1>2, <1>3, ServedStep DEF Reaches, Moves

\* A worker in a run saves the batch, or fails to.
LEMMA RunSavesServed ==
    ASSUME BatchInv, BatchInv', ServedInv, NEW w \in Workers, InRun(w), NEW saved, NEW label,
           UNCHANGED <<ingested, served, overtaken, failures>>,
           \A v \in Workers : v # w => todo'[v] = todo[v] /\ item'[v] = item[v],
           saved \in BatchRecords,
           saved.status \in AtWorkStatus \cup {"completed", "failed"},
           \A f \in Files : saved.items[f] = copy[w].items[f]
               \/ saved.items[f].status = "publishing",
           saved.status = "completed" =>
               \A f \in Selected[Subject(w)] : saved.items[f].status = "published",
           label \notin Retrying \cup {"fail"},
           SavesWell(w, saved, label) /\ label \in PublicationTry =>
               (copy'[w] = saved => ItemsGoOn(w)'),
           SavesWell(w, saved, label) \/ SavesBadly(w, saved)
    PROVE  ServedInv'
  <1>1. w \in Actors /\ w \notin Clients /\ pc[w] # "idle"
    BY QueueAssumption DEF Actors, InRun, PublicationTry
  <1>0. \A x : Subject(x)' = Subject(x)
    BY <1>1, Moving DEF SavesWell, SavesBadly, BatchInv
  <1>2. PICK b \in Batches : b = Subject(w) /\ b = Subject(w)' /\ b \in Records
    BY <1>0, <1>1, BatchSubject
  <1>3. Counts /\ Learns(w)
    BY KnowsNothingNew DEF SavesWell, SavesBadly, Moves
  <1>4. RunTells(w)
    BY DEF ServedInv
  <1>5. Isolates(saved) /\ Isolates(saved)'
    BY <1>4 DEF RunTells, Isolates
  <1>6. record' = record \/ record' = [record EXCEPT ![b] = saved]
    BY <1>2 DEF SavesWell, SavesBadly
  <1>7. /\ \A x \in Records : x # b => record'[x] = record[x]
        /\ record'[b] = record[b] \/ record'[b] = saved
    BY <1>2, <1>6 DEF BatchInv, BatchTypes
  <1>8. record'[b].status = "absent" => record[b].status = "absent"
    BY <1>7 DEF AtWorkStatus
  <1>9. /\ ~Hurried' => ~Hurried
        /\ \A x : ~Shared(x)' => ~Shared(x)
    BY <1>3, <1>7, <1>8, FaultsStay, SharedStays DEF BatchInv
  <1>10. ASSUME ~Hurried', b \notin overtaken', ~Shared(b)'
         PROVE  Serves(saved, Selected[b])'
    <2>1. Serves(copy[w], Selected[b]) /\ Selected[b] \subseteq Files
      BY <1>2, <1>4, <1>9, <1>10, SelectionAssumption DEF RunTells, RunServes
    <2> QED
      BY <2>1 DEF Serves
  <1>11. CASE SavesWell(w, saved, label)
    <2>1. Hold(w, saved) /\ Moves(w, label) /\ record' = [record EXCEPT ![b] = saved]
      BY <1>2, <1>11 DEF SavesWell
    <2>2. copy'[w] = saved /\ \A x \in Actors : x # w => copy'[x] = copy[x]
      BY <1>1, <2>1, BatchHeld
    <2>3. /\ Reaches(w, label) /\ \A x : Subject(x)' = Subject(x)
      BY <1>1, <2>1, Moving DEF BatchInv
    <2>4. RetryTells(w)'
      BY <2>3 DEF RetryTells, Reaches, Retrying
    <2>5. InRun(w)' => RunTells(w)'
      <3> SUFFICES ASSUME InRun(w)' PROVE RunTells(w)'
        OBVIOUS
      <3>1. label \in PublicationTry
        BY <2>3 DEF InRun, Reaches
      <3>2. ItemsGoOn(w)' /\ Isolates(copy[w])'
        BY <1>5, <1>11, <2>2, <3>1 DEF Isolates
      <3>3. RunServes(w)'
        BY <1>2, <1>10, <2>2, <2>3 DEF RunServes, Serves
      <3> QED
        BY <3>2, <3>3 DEF RunTells
    <2>6. StoredTells(b)'
      <3>1. record'[b] = saved
        BY <1>2, <2>1 DEF BatchInv, BatchTypes
      <3> QED
        BY <1>2, <1>5, <1>10, <3>1 DEF StoredTells, AtWorkStatus, Isolates, Serves
    <2> QED
      BY <1>1, <1>2, <1>3, <1>7, <1>8, <2>2, <2>3, <2>4, <2>5, <2>6, ServedStep DEF Reaches
  <1>12. CASE SavesBadly(w, saved)
    <2>1. PICK e \in {"transient", "permanent"} : Hold(w, With(saved, "failed", e))
      BY <1>12 DEF SavesBadly
    <2> DEFINE held == With(saved, "failed", e)
    <2>2. held \in BatchRecords /\ held.items = saved.items
      BY DEF With, BatchRecords, Errors
    <2>3. Hold(w, held) /\ Moves(w, "fail")
      BY <1>12, <2>1 DEF SavesBadly
    <2> HIDE DEF held
    <2>4. copy'[w] = held /\ \A x \in Actors : x # w => copy'[x] = copy[x]
      BY <1>1, <2>2, <2>3, BatchHeld
    <2>5. /\ Reaches(w, "fail") /\ \A x : Subject(x)' = Subject(x)
      BY <1>1, <2>3, Moving DEF BatchInv
    <2>6. RetryTells(w)'
      BY <2>5 DEF RetryTells, Reaches, Retrying
    <2>7. RunTells(w)'
      <3>1. Isolates(copy[w])'
        BY <1>5, <2>2, <2>4 DEF Isolates
      <3>2. ItemsGoOn(w)'
        BY <2>5 DEF ItemsGoOn, Reaches, ItemStage
      <3>3. RunServes(w)'
        BY <1>2, <1>10, <2>2, <2>4, <2>5 DEF RunServes, Serves
      <3> QED
        BY <3>1, <3>2, <3>3 DEF RunTells
    <2>8. record'[b] = record[b] \/ StoredTells(b)'
      <3> SUFFICES ASSUME record'[b] # record[b] PROVE StoredTells(b)'
        OBVIOUS
      <3>1. Hurried' /\ record'[b] = saved
        BY <1>2, <1>7, <1>12 DEF SavesBadly, Hurried
      <3> QED
        BY <1>5, <3>1 DEF StoredTells, AtWorkStatus, Isolates
    <2>9. \A x \in Actors : x # w => pc'[x] = pc[x] /\ copy'[x] = copy[x]
                                        /\ failures'[x] = failures[x]
      BY <2>4, <2>5 DEF Reaches
    <2>10. \A x \in Actors : x # w /\ pc[x] # "idle" => Subject(x)' = Subject(x)
      BY <1>0
    <2>11. Counts /\ Learns(w) /\ overtaken \subseteq overtaken'
      BY <1>3
    <2>12. \A v \in Workers : v # w => todo'[v] = todo[v] /\ item'[v] = item[v]
      OBVIOUS
    <2>13. w \notin Clients /\ (w \in Actors => RetryTells(w)')
      BY <1>1, <2>6
    <2>14. /\ w \in Workers /\ InRun(w)' => RunTells(w)'
           /\ b \in Batches => record'[b] = record[b] \/ StoredTells(b)'
      BY <2>7, <2>8
    <2> QED
      BY <1>7, <1>8, <2>9, <2>10, <2>11, <2>12, <2>13, <2>14, ServedStep, SMTT(60)
  <1> QED
    BY <1>11, <1>12

\* The saves of a run.
LEMMA RunActionsServed ==
    ASSUME BatchInv, BatchInv', ServedInv, NEW w \in Workers,
           \/ Preflight(w) \/ StartPublishing(w) \/ NextItem(w) \/ SaveItem(w)
           \/ Reconciling(w) \/ ItemsFailed(w) \/ Complete(w) \/ Fail(w)
    PROVE  ServedInv'
  <1>1. /\ pc[w] \in {"preflight", "publishing", "next_item", "save_item", "reconciling",
                      "items_failed", "complete", "fail"}
        /\ UNCHANGED <<ingested, served, overtaken, failures>> /\ w \in Actors /\ w \notin Clients
    BY QueueAssumption
       DEF Preflight, StartPublishing, NextItem, SaveItem, Reconciling, ItemsFailed, Complete,
       Fail, Actors, knowledge
  <1>2. InRun(w) /\ pc[w] # "idle" /\ (pc[w] # "fail" => copy[w].status \in AtWorkStatus)
    BY <1>1 DEF InRun, PublicationTry, BatchInv, BatchLabels
  <1>3. /\ \A s \in AtWorkStatus : Announced(w, s) \in BatchRecords /\ Announced(w, s).status = s
        /\ \A s \in {"failed", "completed"}, e \in {"none", "items", "permanent"} :
                  With(copy[w], s, e) \in BatchRecords /\ With(copy[w], s, e).status = s
        /\ copy[w] \in BatchRecords /\ Subject(w) \in Batches
    BY <1>1, <1>2, AnnouncedBatch, BatchSubject
  <1>4. \A saved, label : Saves(w, saved, label) =>
            SavesWell(w, saved, label) \/ SavesBadly(w, saved)
    BY <1>2, Saving DEF BatchInv
  <1>5. RunTells(w) /\ ItemsGoOn(w)
    BY <1>2 DEF ServedInv, RunTells
  <1>6. \A label : Moves(w, label) => pc'[w] = label /\ \A x : Subject(x)' = Subject(x)
    BY <1>1, Moving DEF BatchInv, Reaches
  <1>7. /\ \A s : Announced(w, s).items = copy[w].items
        /\ \A s, e : With(copy[w], s, e).items = copy[w].items
    BY <1>3 DEF Announced, With, BatchRecords
  <1>8. CASE Preflight(w)
    <2>1. UNCHANGED <<todo, item>>
      BY <1>8 DEF Preflight
    <2>2. CASE Saves(w, Announced(w, "preflight"), "publishing")
      <3>1. SavesWell(w, Announced(w, "preflight"), "publishing") => ItemsGoOn(w)'
        BY <1>6 DEF SavesWell, ItemsGoOn, ItemStage
      <3> QED
        BY <1>1, <1>2, <1>3, <1>4, <1>7, <2>1, <2>2, <3>1, RunSavesServed
           DEF AtWorkStatus, Retrying
    <2>3. CASE /\ Hold(w, With(copy[w], "failed", "permanent")) /\ Returns(w, "fail")
               /\ UNCHANGED record
      <3>1. Moves(w, "fail")
        BY <1>1, <1>2, <2>3, Returning
      <3>2. /\ copy'[w] = With(copy[w], "failed", "permanent")
            /\ \A x \in Actors : x # w => copy'[x] = copy[x]
        BY <1>1, <1>3, <2>3, BatchHeld
      <3>3. ItemsGoOn(w)'
        BY <1>6, <3>1 DEF ItemsGoOn, ItemStage
      <3>4. Isolates(copy[w])'
        BY <1>1, <1>5, <1>7, <3>2 DEF RunTells, Isolates
      <3>5. RunServes(w)'
        BY <1>1, <1>3, <1>5, <1>6, <1>7, <2>3, <3>1, <3>2, FaultsStay, SelectionAssumption
           DEF BatchInv, Moves, RunTells, RunServes, Serves, Shared
      <3> QED
        BY <1>1, <1>2, <2>1, <2>3, <3>1, <3>2, <3>3, <3>4, <3>5, RunHoldsServed,
           KnowsNothingNew
           DEF Retrying, RunTells
    <2> QED
      BY <1>8, <2>2, <2>3 DEF Preflight
  <1>9. CASE StartPublishing(w)
    <2> DEFINE label == IF Pending(w) = {} THEN "reconciling" ELSE "next_item"
    <2>1. /\ Saves(w, Announced(w, "publishing"), label)
          /\ todo' = [todo EXCEPT ![w] = Pending(w)] /\ UNCHANGED item
      BY <1>9 DEF StartPublishing
    <2>2. todo'[w] = Pending(w) /\ \A v \in Workers : v # w => todo'[v] = todo[v]
      BY <2>1 DEF BatchInv, LocalTypes
    <2>3. /\ Pending(w) \subseteq Selected[Subject(w)]
          /\ \A f \in Selected[Subject(w)] \ Pending(w) : copy[w].items[f].status = "published"
      BY DEF Pending, ItemsWith
    <2>4. ASSUME SavesWell(w, Announced(w, "publishing"), label),
                 copy'[w] = Announced(w, "publishing")
          PROVE  ItemsGoOn(w)'
      BY <1>6, <1>7, <2>2, <2>3, <2>4 DEF SavesWell, ItemsGoOn, ItemStage, Done
    <2> QED
      BY <1>1, <1>2, <1>3, <1>4, <1>7, <2>1, <2>2, <2>4, RunSavesServed DEF AtWorkStatus, Retrying
  <1>10. CASE NextItem(w)
    <2>1. PICK f \in todo[w] :
             /\ item' = [item EXCEPT ![w] = f]
             /\ todo' = [todo EXCEPT ![w] = @ \ {f}]
             /\ Saves(w, [copy[w] EXCEPT !.items[f].status = "publishing"], "ingest")
      BY <1>10 DEF NextItem
    <2>2. pc[w] = "next_item" /\ f \in Selected[Subject(w)] /\ f \in Files
      BY <1>5, <1>10 DEF NextItem, ItemsGoOn, BatchInv, LocalTypes
    <2>3. /\ item'[w] = f /\ todo'[w] = todo[w] \ {f}
          /\ \A v \in Workers : v # w => todo'[v] = todo[v] /\ item'[v] = item[v]
      BY <2>1 DEF BatchInv, LocalTypes
    <2> DEFINE new == [copy[w] EXCEPT !.items[f].status = "publishing"]
    <2> DEFINE items == [copy[w].items EXCEPT ![f].status = "publishing"]
    <2>4. copy[w].items \in [Files -> ItemRecords]
      BY <1>3 DEF BatchRecords
    <2>5. /\ items \in [Files -> ItemRecords] /\ items[f].status = "publishing"
          /\ \A g \in Files : g # f => items[g] = copy[w].items[g]
      BY <2>2, <2>4 DEF ItemRecords
    <2>6. new = [copy[w] EXCEPT !.items = items]
      BY <1>3, <2>2 DEF BatchRecords, ItemRecords
    <2> HIDE DEF items
    <2>7. new \in BatchRecords /\ new.status = copy[w].status /\ new.items = items
      BY <1>3, <2>5, <2>6 DEF BatchRecords
    <2> HIDE DEF new
    <2>8. SavesWell(w, new, "ingest") \/ SavesBadly(w, new)
      BY <1>4, <2>1 DEF new
    <2>9. ASSUME SavesWell(w, new, "ingest"), copy'[w] = new PROVE ItemsGoOn(w)'
      <3>1. pc'[w] = "ingest" /\ Subject(w)' = Subject(w) /\ copy'[w].items = items
        BY <1>6, <2>7, <2>9 DEF SavesWell
      <3>2. \A g \in Selected[Subject(w)] \ todo[w] : Done(w, g) /\ g \in Files
        BY <1>3, <1>5, <2>2, SelectionAssumption DEF ItemsGoOn, ItemStage
      <3>3. todo[w] \subseteq Selected[Subject(w)]
        BY <1>5, <2>2 DEF ItemsGoOn
      <3>4. \A g \in Selected[Subject(w)] \ todo'[w] : Done(w, g)' \/ g = f
        BY <2>3, <2>5, <3>1, <3>2 DEF Done
      <3> QED
        BY <2>2, <2>3, <2>5, <3>1, <3>3, <3>4 DEF ItemsGoOn, ItemStage
    <2>10. \A g \in Files : new.items[g] = copy[w].items[g] \/ new.items[g].status = "publishing"
      BY <2>5, <2>7
    <2> QED
      BY <1>1, <1>2, <2>2, <2>3, <2>7, <2>8, <2>9, <2>10, RunSavesServed
         DEF Retrying, AtWorkStatus
  <1>11. CASE SaveItem(w)
    <2> DEFINE label == IF todo[w] = {} THEN "reconciling" ELSE "next_item"
    <2>1. UNCHANGED <<todo, item>> /\ Saves(w, copy[w], label) /\ pc[w] = "save_item"
      BY <1>11 DEF SaveItem
    <2>2. ASSUME SavesWell(w, copy[w], label), copy'[w] = copy[w] PROVE ItemsGoOn(w)'
      <3>1. pc'[w] = label /\ Subject(w)' = Subject(w)
        BY <1>6, <2>2 DEF SavesWell
      <3>2. /\ todo[w] \subseteq Selected[Subject(w)]
            /\ \A f \in Selected[Subject(w)] \ todo[w] : Done(w, f)'
        BY <1>5, <2>1, <2>2 DEF ItemsGoOn, ItemStage, Done
      <3> QED
        BY <2>1, <3>1, <3>2 DEF ItemsGoOn, ItemStage
    <2> QED
      BY <1>1, <1>2, <1>3, <1>4, <2>1, <2>2, RunSavesServed DEF AtWorkStatus, Retrying
  <1>12. CASE Reconciling(w)
    <2> DEFINE label == IF SomeFailed(w) THEN "items_failed" ELSE "complete"
    <2>1. /\ UNCHANGED <<todo, item>> /\ Saves(w, Announced(w, "reconciling"), label)
          /\ pc[w] = "reconciling"
      BY <1>12 DEF Reconciling
    <2>2. ASSUME SavesWell(w, Announced(w, "reconciling"), label),
                 copy'[w] = Announced(w, "reconciling")
          PROVE  ItemsGoOn(w)'
      <3>1. pc'[w] = label /\ Subject(w)' = Subject(w) /\ copy'[w].items = copy[w].items
        BY <1>6, <1>7, <2>2 DEF SavesWell
      <3>2. ~SomeFailed(w) =>
                \A f \in Selected[Subject(w)] : copy[w].items[f].status = "published"
        BY <1>3, <1>5, <2>1, SelectionAssumption DEF ItemsGoOn, Done, SomeFailed, ItemsWith
      <3> QED
        BY <3>1, <3>2 DEF ItemsGoOn, ItemStage
    <2> QED
      BY <1>1, <1>2, <1>3, <1>4, <1>7, <2>1, <2>2, RunSavesServed DEF AtWorkStatus, Retrying
  <1>13. CASE ItemsFailed(w)
    <2> DEFINE new == With(copy[w], "failed", "items")
    <2>1. UNCHANGED <<todo, item>> /\ Saves(w, new, "current")
      BY <1>13 DEF ItemsFailed
    <2>2. new \in BatchRecords /\ new.status = "failed" /\ new.items = copy[w].items
      BY <1>3, <1>7
    <2> HIDE DEF new
    <2>3. SavesWell(w, new, "current") \/ SavesBadly(w, new)
      BY <1>4, <2>1
    <2> QED
      BY <1>1, <1>2, <2>1, <2>2, <2>3, RunSavesServed DEF PublicationTry, Retrying
  <1>14. CASE Complete(w)
    <2>1. /\ UNCHANGED <<todo, item>> /\ Saves(w, With(copy[w], "completed", "none"), "current")
          /\ pc[w] = "complete"
      BY <1>14 DEF Complete
    <2>2. \A f \in Selected[Subject(w)] : copy[w].items[f].status = "published"
      BY <1>5, <2>1 DEF ItemsGoOn
    <2> QED
      BY <1>1, <1>2, <1>3, <1>4, <1>7, <2>1, <2>2, RunSavesServed DEF PublicationTry, Retrying
  <1>15. CASE Fail(w)
    <2>1. /\ UNCHANGED <<todo, item>> /\ pc[w] = "fail" /\ Save(w, copy[w])
                 /\ Returns(w, "current")
      BY <1>15 DEF Fail
    <2>2. Moves(w, "current") /\ copy[w].status = "failed"
      BY <1>1, <2>1, Returning DEF BatchInv, BatchLabels
    <2>3. SavesWell(w, copy[w], "current")
      BY <2>1, <2>2 DEF SavesWell, Save, Returns
    <2> QED
      BY <1>1, <1>2, <1>3, <2>1, <2>2, <2>3, RunSavesServed DEF PublicationTry, Retrying
  <1> QED
    BY <1>8, <1>9, <1>10, <1>11, <1>12, <1>13, <1>14, <1>15

\* The item at work, held otherwise.
LEMMA ItemHeld ==
    ASSUME BatchInv, NEW w \in Workers, pc[w] \in ItemStage, NEW s, NEW e
    PROVE  /\ \A f \in Files : f # item[w] => WithItem(w, s, e).items[f] = copy[w].items[f]
           /\ WithItem(w, s, e).items[item[w]].status = s
           /\ WithItem(w, s, e).items[item[w]].error = e
           /\ WithItem(w, s, e).items[item[w]].revision = copy[w].items[item[w]].revision
           /\ item[w] \in Files
  <1>1. copy[w] \in BatchRecords /\ item[w] \in Files
    BY BatchSubject DEF Actors, AtItem, BatchInv, BatchLabels, ItemStage
  <1>2. copy[w].items \in [Files -> ItemRecords]
    BY <1>1 DEF BatchRecords
  <1> DEFINE items == [copy[w].items EXCEPT ![item[w]].status = s, ![item[w]].error = e]
  <1>3. WithItem(w, s, e) = [copy[w] EXCEPT !.items = items]
    BY <1>1, <1>2 DEF WithItem, BatchRecords, ItemRecords
  <1>4. /\ \A f \in Files : f # item[w] => items[f] = copy[w].items[f]
        /\ items[item[w]].status = s /\ items[item[w]].error = e
        /\ items[item[w]].revision = copy[w].items[item[w]].revision
    BY <1>1, <1>2 DEF ItemRecords
  <1> HIDE DEF items
  <1>5. WithItem(w, s, e).items = items
    BY <1>1, <1>3 DEF BatchRecords
  <1> QED
    BY <1>1, <1>4, <1>5

\* The item at work is published or fails, or the run goes on with it.
LEMMA ItemStepServed ==
    ASSUME BatchInv, BatchInv', ServedInv, NEW w \in Workers, pc[w] \in ItemStage,
           NEW label \in {"reconcile", "compensate", "save_item"}, Moves(w, label), Learns(w),
           UNCHANGED <<record, overtaken, failures, todo, item>>,
           \/ UNCHANGED copy /\ label # "save_item" /\ Key(w) \in ingested'
                             /\ served \subseteq served'
           \/ /\ label = "save_item"
              /\ \E s \in {"published", "failed"}, e \in {"none", "reconciliation", "other"} :
                   /\ Hold(w, WithItem(w, s, e))
                   /\ s = "published" => Key(w) \in served'
                   /\ s = "failed" /\ e = "reconciliation" => Key(w) \in ingested' \ served'
    PROVE  ServedInv'
  <1>1. /\ w \in Actors /\ w \notin Clients /\ pc[w] # "idle" /\ InRun(w) /\ pc[w] \in AtItem
        /\ pc[w] \in PublicationTry
    BY QueueAssumption DEF ItemStage, Actors, InRun, PublicationTry, AtItem
  <1>2. PICK b \in Batches : b = Subject(w) /\ b = Subject(w)' /\ pc'[w] = label
                               /\ Selected[b] \subseteq Files
    BY <1>1, BatchSubject, Moving, SelectionAssumption DEF BatchInv, Reaches
  <1>3. /\ Isolates(copy[w]) /\ ItemsGoOn(w) /\ RunServes(w)
        /\ copy[w].items[item[w]].status = "publishing" /\ item[w] \in Selected[b]
    BY <1>1, <1>2 DEF ServedInv, RunTells, ItemsGoOn
  <1>4. label \notin Retrying
    BY DEF Retrying
  <1>5. ~Hurried' => ~Hurried
    BY FaultsStay DEF BatchInv, Moves
  <1>6. \A f \in Files : f # item[w] => \A n : <<f, n>> \in served => <<f, n>> \in served'
    BY DEF Learns, Key
  <1>7. CASE UNCHANGED copy /\ label # "save_item" /\ Key(w) \in ingested'
             /\ served \subseteq served'
    <2>1. Isolates(copy[w])'
      BY <1>3, <1>7 DEF Isolates, Learns
    <2>2. ItemsGoOn(w)'
      BY <1>2, <1>3, <1>7 DEF ItemsGoOn, ItemStage, Done, Key
    <2>3. RunServes(w)'
      BY <1>2, <1>3, <1>5, <1>7 DEF RunServes, Serves, Shared
    <2> QED
      BY <1>1, <1>4, <1>7, <2>1, <2>2, <2>3, RunHoldsServed DEF RunTells
  <1>8. ASSUME NEW s \in {"published", "failed"}, NEW e \in {"none", "reconciliation", "other"},
               Hold(w, WithItem(w, s, e)), label = "save_item",
               s = "published" => Key(w) \in served',
               s = "failed" /\ e = "reconciliation" => Key(w) \in ingested' \ served'
        PROVE  ServedInv'
    <2> DEFINE new == WithItem(w, s, e)
    <2>1. new \in BatchRecords
      BY <1>1, HeldItem
    <2>2. /\ \A f \in Files : f # item[w] => new.items[f] = copy[w].items[f]
          /\ new.items[item[w]].status = s /\ new.items[item[w]].error = e
          /\ <<item[w], new.items[item[w]].revision>> = Key(w) /\ item[w] \in Files
      BY ItemHeld DEF Key
    <2>3. Hold(w, new)
      BY <1>8
    <2> HIDE DEF new
    <2>4. copy'[w] = new /\ \A x \in Actors : x # w => copy'[x] = copy[x]
      BY <1>1, <2>1, <2>3, BatchHeld
    <2>5. Isolates(copy[w])'
      <3> SUFFICES ASSUME NEW f \in Files, new.items[f].status = "failed",
                          new.items[f].error = "reconciliation"
                   PROVE  <<f, new.items[f].revision>> \in ingested' \ served'
        BY <2>4 DEF Isolates
      <3>1. CASE f = item[w]
        BY <1>8, <2>2, <3>1
      <3>2. CASE f # item[w]
        BY <1>3, <2>2, <3>2 DEF Isolates, Learns
      <3> QED
        BY <3>1, <3>2
    <2>6. ItemsGoOn(w)'
      <3>1. todo[w] \subseteq Selected[b]
        BY <1>2, <1>3 DEF ItemsGoOn
      <3>2. \A f \in Selected[b] \ todo[w] : Done(w, f)'
        BY <1>2, <1>3, <2>2, <2>4 DEF ItemsGoOn, Done
      <3> QED
        BY <1>2, <1>8, <3>1, <3>2 DEF ItemsGoOn, ItemStage
    <2>7. RunServes(w)'
      <3> SUFFICES ASSUME ~Hurried', b \notin overtaken, ~Shared(b), NEW f \in Selected[b],
                          new.items[f].status = "published"
                   PROVE  <<f, new.items[f].revision>> \in served'
        BY <1>2, <2>4 DEF RunServes, Serves, Shared
      <3>1. CASE f = item[w]
        BY <1>8, <2>2, <3>1
      <3>2. CASE f # item[w]
        BY <1>2, <1>3, <1>5, <1>6, <2>2, <3>2 DEF RunServes, Serves
      <3> QED
        BY <3>1, <3>2
    <2> QED
      BY <1>1, <1>4, <2>4, <2>5, <2>6, <2>7, RunHoldsServed DEF RunTells
  <1> QED
    BY <1>7, <1>8

\* The steps of an item between its two saves.
LEMMA ItemActionsServed ==
    ASSUME BatchInv, BatchInv', ServedInv, NEW w \in Workers,
           Ingest(w) \/ Reconcile(w) \/ Compensate(w) \/ ItemRaises(w)
    PROVE  ServedInv'
  <1>1. /\ pc[w] \in ItemStage /\ w \in Actors /\ w \notin Clients /\ pc[w] # "idle"
        /\ UNCHANGED <<record, overtaken, failures, todo, item>>
    BY QueueAssumption DEF Ingest, Reconcile, Compensate, ItemRaises, Actors, ItemStage
  <1>2. /\ \A label : Returns(w, label) => Moves(w, label)
        /\ \A k \in Kinds : \A label : Raises(k, w, label) => Moves(w, label)
    BY <1>1, Returning, Raising
  <1>3. ItemFails(w) => Moves(w, "save_item") /\ Hold(w, WithItem(w, "failed", "other"))
    BY <1>2 DEF ItemFails, Kinds
  <1>4. InRun(w) /\ ItemsGoOn(w) /\ served \subseteq ingested
    BY <1>1 DEF InRun, PublicationTry, ItemStage, ServedInv, RunTells
  <1>5. pc[w] \in {"reconcile", "compensate"} => Key(w) \in ingested
    BY <1>4 DEF ItemsGoOn
  <1>6. CASE Ingest(w)
    <2>1. Learns(w)
      BY <1>4, <1>6 DEF Ingest, Learns
    <2>2. CASE Returns(w, "reconcile") /\ UNCHANGED copy /\ Key(w) \in ingested'
                  /\ served \subseteq served'
      BY <1>1, <1>2, <2>1, <2>2, ItemStepServed
    <2>3. CASE Returns(w, "save_item") /\ Hold(w, WithItem(w, "failed", "other"))
      BY <1>1, <1>2, <2>1, <2>3, ItemStepServed
    <2> QED
      BY <1>6, <2>2, <2>3 DEF Ingest
  <1>7. CASE Reconcile(w)
    <2>1. Learns(w) /\ UNCHANGED <<ingested, served>>
      BY <1>7, KnowsNothingNew DEF Reconcile, knowledge
    <2>2. CASE ReadBack(w) /\ Hold(w, WithItem(w, "published", "none")) /\ Returns(w, "save_item")
      BY <1>1, <1>2, <2>1, <2>2, ItemStepServed DEF ReadBack
    <2>3. CASE UNCHANGED copy /\ (Returns(w, "compensate") \/ Raises("other", w, "compensate"))
      <3>1. Moves(w, "compensate") /\ Key(w) \in ingested'
        BY <1>2, <1>5, <1>7, <2>1, <2>3 DEF Kinds, Reconcile
      <3> QED
        BY <1>1, <2>1, <2>3, <3>1, ItemStepServed
    <2> QED
      BY <1>7, <2>2, <2>3 DEF Reconcile
  <1>8. CASE Compensate(w)
    <2>1. Learns(w) /\ Key(w) \in ingested' \ served'
      BY <1>4, <1>5, <1>8 DEF Compensate, Isolated, Learns
    <2>2. CASE Hold(w, WithItem(w, "failed", "reconciliation")) /\ Returns(w, "save_item")
      BY <1>1, <1>2, <2>1, <2>2, ItemStepServed
    <2>3. CASE ItemFails(w)
      BY <1>1, <1>3, <2>1, <2>3, ItemStepServed
    <2> QED
      BY <1>8, <2>2, <2>3 DEF Compensate
  <1>9. CASE ItemRaises(w)
    <2>1. Learns(w)
      BY <1>9, KnowsNothingNew DEF ItemRaises
    <2> QED
      BY <1>1, <1>3, <1>9, <2>1, ItemStepServed DEF ItemRaises
  <1> QED
    BY <1>6, <1>7, <1>8, <1>9

\* Whoever goes on without touching batches and items, out of the runs and the retries.
LEMMA ElsewhereServed ==
    ASSUME BatchInv, BatchInv', ServedInv, NEW a \in Actors, Counts,
           NEW label, label \notin PublicationTry \cup {"fail"} \cup Retrying, Reaches(a, label),
           UNCHANGED <<record, copy, asked, ingested, served, failures, todo, item, overtaken>>,
           a \in Clients => pc[a] # "idle",
           \A x \in Actors : pc[x] # "idle" /\ x # a => Subject(x)' = Subject(x)
    PROVE  ServedInv'
  <1>1. Learns(a)
    BY KnowsNothingNew
  <1>2. RetryTells(a)'
    BY DEF RetryTells, Retrying, Reaches
  <1>3. ~InRun(a)'
    BY DEF InRun, Reaches
  <1>4. a \in Clients => record'[asked'[a]].status # "absent"
    BY IsPresent, QueueAssumption DEF Own, Subject
  <1>5. \A x \in Actors : x # a => pc'[x] = pc[x]
    BY DEF Reaches
  <1> QED
    BY <1>1, <1>2, <1>3, <1>4, <1>5, ServedStep

LEMMA StaysServed ==
    ASSUME BatchInv, BatchInv', ServedInv, NEW a \in Actors, NEW label, Moves(a, label),
           label \notin PublicationTry \cup {"fail"} \cup Retrying,
           UNCHANGED <<record, copy, ingested, served, failures, todo, item, overtaken>>
    PROVE  ServedInv'
  <1>1. Reaches(a, label) /\ \A x : Subject(x)' = Subject(x)
    BY Moving DEF BatchInv
  <1>2. Counts /\ pc[a] # "idle" /\ UNCHANGED asked
    BY DEF Moves
  <1> QED
    BY <1>1, <1>2, ElsewhereServed

\* A claimed batch has been waiting: nothing of it has failed.
LEMMA ClaimServed ==
    ASSUME BatchInv, BatchInv', ServedInv, NEW w \in Workers, Claim(w)
    PROVE  ServedInv'
  <1>1. /\ pc[w] = "claim" /\ w \in Actors /\ w \notin Clients
        /\ UNCHANGED <<ingested, served, failures, todo, item, overtaken>>
    BY QueueAssumption DEF Claim, Actors, knowledge
  <1>2. CASE Returns(w, "current") /\ UNCHANGED records
    BY <1>1, <1>2, Returning, StaysServed DEF PublicationTry, Retrying, records
  <1>3. CASE /\ MayClaim(Own(w))
             /\ Save(w, [Own(w) EXCEPT !.status = "preflight", !.error = "none"])
             /\ Returns(w, "preflight")
    <2> DEFINE new == [Own(w) EXCEPT !.status = "preflight", !.error = "none"]
    <2>1. Moves(w, "preflight")
      BY <1>1, <1>3, Returning
    <2>2. Reaches(w, "preflight") /\ \A x : Subject(x)' = Subject(x)
      BY <1>1, <2>1, Moving DEF BatchInv
    <2>3. PICK b \in Batches : b = Subject(w) /\ b = Subject(w)' /\ b \in Records
                                 /\ record[b] \in BatchRecords /\ Selected[b] \subseteq Files
      BY <1>1, <2>2, BatchSubject, SelectionAssumption DEF Own
    <2>4. /\ new \in BatchRecords /\ new.status = "preflight" /\ new.items = record[b].items
          /\ record[b].status = "queued"
      BY <2>3, <1>3 DEF BatchRecords, Errors, MayClaim, AtWorkStatus, Own
    <2>5. record' = [record EXCEPT ![b] = new] /\ Hold(w, new)
      BY <1>3, <2>3 DEF Save
    <2> HIDE DEF new
    <2>6. record'[b] = new /\ \A x \in Records : x # b => record'[x] = record[x]
      BY <2>3, <2>4, <2>5, Writing DEF BatchInv, BatchTypes
    <2>7. copy'[w] = new /\ \A x \in Actors : x # w => copy'[x] = copy[x]
      BY <1>1, <2>4, <2>5, BatchHeld
    <2>8. StoredTells(b) /\ NoneFailedIn(record[b])
      BY <2>4 DEF ServedInv, StoredTells
    <2>9. Counts /\ Learns(w)
      BY <1>1, <2>1, KnowsNothingNew DEF Moves
    <2>10. ~Hurried' => ~Hurried
      BY <2>9, FaultsStay DEF BatchInv
    <2>11. ~Shared(b)' => ~Shared(b)
      BY <2>4, <2>6, SharedStays
    <2>12. Isolates(copy[w])'
      BY <2>4, <2>7, <2>8 DEF NoneFailedIn, Isolates
    <2>13. ItemsGoOn(w)'
      BY <2>2 DEF Reaches, ItemsGoOn, ItemStage
    <2>14. RunServes(w)'
      <3>1. ASSUME ~Hurried', b \notin overtaken, ~Shared(b)'
            PROVE  Serves(record[b], Selected[b])
        BY <2>4, <2>8, <2>10, <2>11, <3>1 DEF StoredTells, AtWorkStatus
      <3>2. ASSUME ~Hurried', b \notin overtaken, ~Shared(b)',
                   NEW f \in Selected[b], copy'[w].items[f].status = "published"
            PROVE  <<f, copy'[w].items[f].revision>> \in served
        BY <2>4, <2>7, <3>1, <3>2 DEF Serves
      <3> QED
        BY <1>1, <2>3, <3>2 DEF RunServes, Serves, Shared
    <2>15. RunTells(w)' /\ RetryTells(w)'
      BY <2>2, <2>12, <2>13, <2>14 DEF RunTells, RetryTells, Reaches, Retrying
    <2>16. StoredTells(b)'
      BY <2>4, <2>6 DEF StoredTells, AtWorkStatus
    <2>17. \A x \in Actors : x # w => pc'[x] = pc[x]
      BY <2>2 DEF Reaches
    <2> QED
      BY <1>1, <2>2, <2>4, <2>6, <2>7, <2>9, <2>15, <2>16, <2>17, ServedStep
  <1> QED
    BY <1>2, <1>3 DEF Claim

\* The calls of a retry.
LEMMA RetryReadServed ==
    ASSUME BatchInv, BatchInv', ServedInv, NEW a \in Actors, RetryRead(a)
    PROVE  ServedInv'
  <1>1. /\ pc[a] = "retry_read" /\ Hold(a, Own(a)) /\ Moves(a, "retry_requeue")
        /\ UNCHANGED <<record, ingested, served, todo, item, overtaken>>
    BY Returning DEF RetryRead, knowledge
  <1>2. Own(a) \in BatchRecords /\ Own(a).status # "absent"
    BY <1>1, BatchSubject, IsPresent
  <1>3. copy'[a] = Own(a) /\ \A x \in Actors : x # a => copy'[x] = copy[x]
    BY <1>1, <1>2, BatchHeld
  <1>4. /\ \A f \in failures'[a] : f \in Files /\ Own(a).items[f].status = "failed"
        /\ \A x \in Actors : x # a => failures'[x] = failures[x]
    <2> DEFINE noted == {f \in ItemsWith(Own(a), "failed") :
                            Own(a).items[f].error = "reconciliation"}
    <2>1. \A f \in noted : f \in Files /\ Own(a).items[f].status = "failed"
      BY DEF ItemsWith
    <2>2. failures' = [failures EXCEPT ![a] = noted] /\ failures \in [Actors -> SUBSET Files]
      BY DEF RetryRead, BatchInv, LocalTypes
    <2> HIDE DEF noted
    <2> QED
      BY <2>1, <2>2
  <1>5. Reaches(a, "retry_requeue") /\ Counts /\ \A x : Subject(x)' = Subject(x)
    BY <1>1, Moving DEF BatchInv, Moves
  <1>6. RetryTells(a)'
    BY <1>3, <1>4, <1>5 DEF RetryTells, Reaches
  <1>7. Learns(a) /\ ~InRun(a)'
    BY <1>1, <1>5, KnowsNothingNew DEF InRun, PublicationTry, Reaches
  <1>8. a \in Clients => record'[asked'[a]].status # "absent"
    BY <1>1, <1>2, QueueAssumption DEF Own, Subject, Moves
  <1>9. \A x \in Actors : x # a => pc'[x] = pc[x]
    BY <1>5 DEF Reaches
  <1> QED
    BY <1>1, <1>3, <1>4, <1>5, <1>6, <1>7, <1>8, <1>9, ServedStep

\* A requeued batch has no failed item, a renamed one the same statuses.
LEMMA RequeuedItems ==
    ASSUME NEW b \in BatchRecords
    PROVE  /\ NoneFailedIn(Requeued(b))
           /\ \A f \in Files : Requeued(b).items[f] = b.items[f]
                               \/ Requeued(b).items[f].status = "pending"
  <1> DEFINE items == [f \in Files |-> IF b.items[f].status = "failed"
                         THEN [b.items[f] EXCEPT !.status = "pending", !.error = "none"]
                         ELSE b.items[f]]
  <1>1. b.items \in [Files -> ItemRecords]
    BY DEF BatchRecords
  <1>2. Requeued(b).items = items
    BY DEF Requeued, BatchRecords
  <1>3. \A f \in Files : /\ items[f] = b.items[f] \/ items[f].status = "pending"
                         /\ items[f].status # "failed"
    BY <1>1 DEF ItemRecords
  <1> HIDE DEF items
  <1> QED
    BY <1>2, <1>3 DEF NoneFailedIn

LEMMA RenamedItems ==
    ASSUME NEW b \in BatchRecords, NEW fs
    PROVE  \A f \in Files :
             /\ Renamed(b, fs).items[f].status = b.items[f].status
             /\ f \notin fs => Renamed(b, fs).items[f] = b.items[f]
  <1> DEFINE items == [f \in Files |-> IF f \in fs THEN [b.items[f] EXCEPT !.revision = @ + 1]
                                       ELSE b.items[f]]
  <1>1. b.items \in [Files -> ItemRecords]
    BY DEF BatchRecords
  <1>2. Renamed(b, fs).items = items
    BY DEF Renamed, BatchRecords
  <1>3. \A f \in Files : /\ items[f].status = b.items[f].status
                         /\ f \notin fs => items[f] = b.items[f]
    <2>1. ASSUME NEW f \in Files
          PROVE  [b.items[f] EXCEPT !.revision = @ + 1].status = b.items[f].status
      <3>1. b.items[f] \in ItemRecords
        BY <1>1
      <3> QED
        BY <3>1 DEF ItemRecords
    <2> QED
      BY <2>1
  <1> HIDE DEF items
  <1> QED
    BY <1>2, <1>3

\* What a retry must leave alone for the invariant to hold again.
LEMMA RetryActsServed ==
    ASSUME BatchInv, BatchInv', ServedInv, NEW a \in Actors, NEW label, Moves(a, label),
           UNCHANGED <<ingested, served, failures, todo, item>>, Overtakes(a),
           label \in {AfterRetry(a), "retry_get", "retry_save"},
           \A x \in Actors : x # a => copy'[x] = copy[x],
           \A x \in Records : x # Subject(a) => record'[x] = record[x],
           record'[Subject(a)].status # "absent",
           record'[Subject(a)] = record[Subject(a)] \/ StoredTells(Subject(a))',
           RetryTells(a)'
    PROVE  ServedInv'
  <1>1. Reaches(a, label) /\ Counts /\ pc[a] # "idle" /\ UNCHANGED asked
            /\ \A x : Subject(x)' = Subject(x)
    BY Moving DEF BatchInv, Moves
  <1>2. PICK b \in Batches : b = Subject(a) /\ b = Subject(a)' /\ b \in Records
    BY <1>1, BatchSubject
  <1>3. overtaken \subseteq overtaken' /\ Learns(a)
    BY Overtaking, KnowsNothingNew
  <1>4. ~InRun(a)'
    BY <1>1, AfterRetryLabels DEF InRun, Reaches, PublicationTry
  <1>5. a \in Clients => record'[asked'[a]].status # "absent"
    BY <1>1, QueueAssumption DEF Subject
  <1>6. record'[b].status = "absent" => record[b].status = "absent"
    BY <1>2
  <1>7. \A x \in Records : x # b => record'[x] = record[x]
    BY <1>2
  <1>8. record'[b] = record[b] \/ StoredTells(b)'
    BY <1>2 DEF StoredTells, Shared
  <1>9. \A x \in Actors : x # a => pc'[x] = pc[x] /\ copy'[x] = copy[x]
                                   /\ failures'[x] = failures[x]
    BY <1>1 DEF Reaches
  <1> QED
    BY <1>1, <1>3, <1>4, <1>5, <1>6, <1>7, <1>8, <1>9, ServedStep

LEMMA RequeueServed ==
    ASSUME BatchInv, BatchInv', ServedInv, NEW a \in Actors, RetryRequeue(a)
    PROVE  ServedInv'
  <1>1. /\ pc[a] = "retry_requeue" /\ Overtakes(a)
               /\ UNCHANGED <<ingested, served, failures, todo, item>>
        /\ pc[a] # "idle" /\ pc[a] \in Retrying /\ pc[a] # "retry_save"
    BY DEF RetryRequeue, knowledge, Retrying
  <1>2. PICK b \in Batches : b = Subject(a) /\ b \in Records /\ record[b] = Own(a)
                               /\ record[b] \in BatchRecords /\ Selected[b] \subseteq Files
    BY <1>1, BatchSubject, SelectionAssumption DEF Own
  <1>3. /\ failures[a] # {} /\ b \notin overtaken' =>
             /\ record[b] = copy[a] /\ b \notin overtaken
             /\ \A f \in failures[a] : copy[a].items[f].status # "published"
        /\ failures[a] \subseteq Files /\ overtaken \subseteq overtaken'
    BY <1>1, <1>2, Overtaking DEF ServedInv, RetryTells, BatchInv, LocalTypes
  <1>4. CASE MayRequeue(Own(a)) /\ Save(a, Requeued(Own(a)))
             /\ Returns(a, IF failures[a] = {} THEN AfterRetry(a) ELSE "retry_save")
    <2> DEFINE new == Requeued(record[b])
    <2> DEFINE label == IF failures[a] = {} THEN AfterRetry(a) ELSE "retry_save"
    <2>1. /\ new \in BatchRecords /\ new.status = "queued" /\ NoneFailedIn(new)
          /\ \A f \in Files : new.items[f] = record[b].items[f] \/ new.items[f].status = "pending"
      BY <1>2, RequeuedBatch, RequeuedItems
    <2>2. /\ label \in {AfterRetry(a), "retry_save"} /\ label # "idle"
          /\ failures[a] = {} => label = AfterRetry(a)
      BY AfterRetryLabels
    <2>3. Save(a, new) /\ Returns(a, label) /\ record[b].status = "failed"
      BY <1>2, <1>4 DEF MayRequeue
    <2> HIDE DEF new, label
    <2>4. /\ record'[b] = new /\ \A x \in Records : x # b => record'[x] = record[x]
          /\ copy'[a] = new /\ \A x \in Actors : x # a => copy'[x] = copy[x]
      BY <1>1, <1>2, <2>1, <2>3, BatchSaved, BatchHeld DEF Save
    <2>5. Moves(a, label)
      BY <1>1, <2>2, <2>3, Returning
    <2>6. Reaches(a, label) /\ Counts /\ Subject(a)' = b
      BY <1>2, <2>5, Moving DEF BatchInv, Moves
    <2>7. ~Hurried' => ~Hurried
      BY <2>6, FaultsStay DEF BatchInv
    <2>8. ~Shared(b)' => ~Shared(b)
      BY <1>2, <2>1, <2>3, <2>4, SharedStays
    <2>9. RetryTells(a)'
      <3>1. pc'[a] = "retry_save" => copy'[a].status = "queued" /\ NoneFailedIn(copy[a])'
        BY <2>1, <2>4 DEF NoneFailedIn
      <3>2. ASSUME failures[a] # {}, b \notin overtaken', NEW f \in failures[a]
            PROVE  copy'[a].items[f].status # "published"
        BY <1>3, <2>1, <2>4, <3>2
      <3>3. copy'[a].status = "queued"
        BY <2>1, <2>4
      <3> QED
        BY <1>1, <2>6, <3>1, <3>2, <3>3 DEF RetryTells
    <2>10. StoredTells(b)'
      <3>1. NoneFailedIn(record[b])'
        BY <2>1, <2>4 DEF NoneFailedIn
      <3>2. ASSUME ~Hurried', b \notin overtaken', ~Shared(b)', NEW f \in Selected[b],
                   new.items[f].status = "published"
            PROVE  <<f, new.items[f].revision>> \in served
        <4>1. Serves(record[b], Selected[b])
          BY <1>3, <2>3, <2>7, <2>8, <3>2 DEF ServedInv, StoredTells, AtWorkStatus
        <4>2. new.items[f] = record[b].items[f]
          BY <1>2, <2>1, <3>2
        <4> QED
          BY <3>2, <4>1, <4>2 DEF Serves
      <3> QED
        BY <1>1, <2>1, <2>4, <3>1, <3>2 DEF StoredTells, Serves
    <2>11. /\ \A x \in Records : x # Subject(a) => record'[x] = record[x]
           /\ record'[Subject(a)].status # "absent"
      BY <1>2, <2>1, <2>4
    <2>12. StoredTells(Subject(a))'
      BY <1>2, <2>6, <2>10 DEF StoredTells, Shared
    <2>13. label \in {AfterRetry(a), "retry_get", "retry_save"}
      BY <2>2
    <2> QED
      BY <1>1, <2>4, <2>5, <2>9, <2>11, <2>12, <2>13, RetryActsServed
  <1>5. CASE ~MayRequeue(Own(a)) /\ Returns(a, "retry_get") /\ UNCHANGED records
    <2>1. Moves(a, "retry_get") /\ UNCHANGED <<record, copy>>
      BY <1>1, <1>5, Returning DEF records
    <2>2. Reaches(a, "retry_get") /\ Subject(a)' = b
      BY <1>2, <2>1, Moving DEF BatchInv
    <2>3. RetryTells(a)'
      BY <1>1, <1>2, <1>3, <1>5, <2>1, <2>2 DEF RetryTells, Reaches, MayRequeue
    <2>4. record'[Subject(a)].status # "absent"
      BY <1>1, <2>1, IsPresent DEF Own
    <2>5. /\ \A x \in Actors : x # a => copy'[x] = copy[x]
          /\ \A x \in Records : x # Subject(a) => record'[x] = record[x]
          /\ record'[Subject(a)] = record[Subject(a)]
      BY <2>1
    <2> QED
      BY <1>1, <2>1, <2>3, <2>4, <2>5, RetryActsServed
  <1> QED
    BY <1>4, <1>5 DEF RetryRequeue

LEMMA RetryGetServed ==
    ASSUME BatchInv, BatchInv', ServedInv, NEW a \in Actors, RetryGet(a)
    PROVE  ServedInv'
  <1> DEFINE label == IF failures[a] = {} THEN AfterRetry(a) ELSE "retry_save"
  <1>1. /\ pc[a] = "retry_get" /\ Overtakes(a)
               /\ UNCHANGED <<record, ingested, served, failures, todo, item>>
        /\ pc[a] # "idle" /\ pc[a] \in Retrying /\ Hold(a, Own(a)) /\ Returns(a, label)
    BY DEF RetryGet, knowledge, Retrying
  <1>2. label \in {AfterRetry(a), "retry_save"} /\ label # "idle"
    BY AfterRetryLabels
  <1> HIDE DEF label
  <1>3. PICK b \in Batches : b = Subject(a) /\ record[b] = Own(a)
                               /\ record[b] \in BatchRecords /\ record[b].status # "absent"
    BY <1>1, BatchSubject, IsPresent DEF Own
  <1>4. /\ failures[a] # {} /\ b \notin overtaken' =>
             /\ record[b] = copy[a] /\ b \notin overtaken
             /\ \A f \in failures[a] : copy[a].items[f].status # "published"
             /\ copy[a].status # "failed"
        /\ overtaken \subseteq overtaken'
    BY <1>1, <1>3, Overtaking DEF ServedInv, RetryTells
  <1>5. copy'[a] = record[b] /\ \A x \in Actors : x # a => copy'[x] = copy[x]
    BY <1>1, <1>3, BatchHeld
  <1>6. Moves(a, label)
    BY <1>1, <1>2, Returning
  <1>7. Reaches(a, label) /\ Subject(a)' = b
    BY <1>3, <1>6, Moving DEF BatchInv
  <1>8. record[b].status = "queued" => NoneFailedIn(record[b])
    BY DEF ServedInv, StoredTells
  <1>9. RetryTells(a)'
    BY <1>1, <1>3, <1>4, <1>5, <1>7, <1>8 DEF RetryTells, NoneFailedIn
  <1> QED
    BY <1>1, <1>2, <1>3, <1>5, <1>6, <1>9, RetryActsServed

LEMMA RetrySaveServed ==
    ASSUME BatchInv, BatchInv', ServedInv, NEW a \in Actors, RetrySave(a)
    PROVE  ServedInv'
  <1>1. /\ pc[a] = "retry_save" /\ Overtakes(a)
               /\ UNCHANGED <<ingested, served, failures, todo, item>>
        /\ pc[a] # "idle" /\ pc[a] \in Retrying /\ failures[a] # {}
        /\ Save(a, Renamed(copy[a], failures[a])) /\ Returns(a, AfterRetry(a))
    BY DEF RetrySave, knowledge, Retrying, BatchInv, BatchLabels
  <1>2. PICK b \in Batches : b = Subject(a) /\ b \in Records /\ record[b] = Own(a)
                               /\ copy[a] \in BatchRecords /\ Selected[b] \subseteq Files
    BY <1>1, BatchSubject, SelectionAssumption DEF Own
  <1>3. b \notin overtaken' =>
             /\ record[b] = copy[a] /\ b \notin overtaken
             /\ \A f \in failures[a] : copy[a].items[f].status # "published"
             /\ copy[a].status # "failed"
    BY <1>1, <1>2, Overtaking DEF ServedInv, RetryTells
  <1>4. copy[a].status # "absent" /\ (copy[a].status = "queued" => NoneFailedIn(copy[a]))
    BY <1>1 DEF ServedInv, RetryTells
  <1> DEFINE new == Renamed(copy[a], failures[a])
  <1>5. /\ new \in BatchRecords /\ new.status = copy[a].status
        /\ \A f \in Files : /\ new.items[f].status = copy[a].items[f].status
                            /\ f \notin failures[a] => new.items[f] = copy[a].items[f]
    BY <1>2, RenamedBatch, RenamedItems
  <1>6. Save(a, new)
    BY <1>1
  <1> HIDE DEF new
  <1>7. /\ record'[b] = new /\ \A x \in Records : x # b => record'[x] = record[x]
        /\ \A x \in Actors : x # a => copy'[x] = copy[x]
    BY <1>1, <1>2, <1>5, <1>6, BatchSaved, BatchHeld, ZenonT(60) DEF Save
  <1>8. Moves(a, AfterRetry(a))
    BY <1>1, Returning, AfterRetryLabels
  <1>9. Reaches(a, AfterRetry(a)) /\ Counts /\ Subject(a)' = b
    BY <1>2, <1>8, Moving DEF BatchInv, Moves
  <1>10. ~Hurried' => ~Hurried
    BY <1>9, FaultsStay DEF BatchInv
  <1>11. ~Shared(b)' => ~Shared(b)
    BY <1>2, <1>4, <1>5, <1>7, SharedStays
  <1>12. RetryTells(a)'
    BY <1>9, AfterRetryLabels DEF RetryTells, Reaches, Retrying
  <1>13. StoredTells(b)'
    <2>1. record'[b].status \in {"absent", "queued"} => NoneFailedIn(record[b])'
      BY <1>4, <1>5, <1>7 DEF NoneFailedIn
    <2>2. b \notin overtaken' => record'[b].status # "failed"
      BY <1>3, <1>5, <1>7
    <2>3. ASSUME ~Hurried', b \notin overtaken', record'[b].status = "completed"
          PROVE  \A f \in Selected[b] : record'[b].items[f].status = "published"
      <3>1. \A f \in Selected[b] : record[b].items[f].status = "published"
        BY <1>3, <1>5, <1>7, <1>10, <2>3 DEF ServedInv, StoredTells
      <3> QED
        BY <1>2, <1>3, <1>5, <1>7, <2>3, <3>1
    <2>4. ASSUME ~Hurried', b \notin overtaken', ~Shared(b)',
                 record'[b].status \notin AtWorkStatus,
                 NEW f \in Selected[b], record'[b].items[f].status = "published"
          PROVE  <<f, record'[b].items[f].revision>> \in served
      <3>1. Serves(record[b], Selected[b])
        BY <1>3, <1>5, <1>7, <1>10, <1>11, <2>4 DEF ServedInv, StoredTells
      <3>2. f \in Files /\ record[b].items[f].status = "published" /\ f \notin failures[a]
        BY <1>2, <1>3, <1>5, <1>7, <2>4
      <3>3. new.items[f] = record[b].items[f]
        BY <1>3, <1>5, <2>4, <3>2
      <3> QED
        BY <1>7, <3>1, <3>2, <3>3 DEF Serves
    <2> QED
      BY <1>1, <2>1, <2>2, <2>3, <2>4 DEF StoredTells, Serves
  <1>14. record'[b].status # "absent"
    BY <1>4, <1>5, <1>7
  <1> QED
    BY <1>1, <1>2, <1>7, <1>8, <1>9, <1>12, <1>13, <1>14, RetryActsServed DEF StoredTells, Shared

\* Clients: a request arrives, or is marked as unsent.
LEMMA ArrivalServed ==
    ASSUME BatchInv, BatchInv', ServedInv, NEW c \in Clients, NEW b \in Batches,
           Submit(c, b) \/ Retry(c, b)
    PROVE  ServedInv'
  <1>1. PICK label \in {"send_read", "retry_read"} : Arrives(c, b, label)
    BY DEF Submit, Retry
  <1>2. /\ UNCHANGED <<copy, failures, todo, item, overtaken, ingested, served>>
        /\ b \in Records /\ c \in Actors /\ c \notin Workers /\ Counts
        /\ record \in [Records -> BatchRecords]
    <2>1. UNCHANGED <<copy, failures, todo, item, overtaken, ingested, served>>
      BY DEF Submit, Retry, records, publicationVars, publicationLocals, knowledge
    <2>2. c \in Actors /\ c \notin Workers /\ b \in Records
      BY SelectionAssumption, QueueAssumption DEF Actors
    <2>3. Counts
      BY <1>1 DEF Arrives, Counts
    <2> QED
      BY <2>1, <2>2, <2>3 DEF BatchInv, BatchTypes
  <1>3. /\ Reaches(c, label) /\ \A x \in Actors : pc[x] # "idle" => Subject(x)' = Subject(x)
    BY <1>1, <1>2, Arriving DEF BatchInv
  <1>4. Learns(c) /\ ~InRun(c)' /\ RetryTells(c)'
    BY <1>2, <1>3, KnowsNothingNew DEF InRun, PublicationTry, RetryTells, Retrying, Reaches
  <1>5. /\ \A x \in Records : x # b => record'[x] = record[x]
        /\ record'[b] = record[b] \/ record[b].status = "absent"
        /\ record'[b] # record[b] => record'[b].status = "queued"
        /\ record'[b].items = record[b].items /\ record'[b].status # "absent"
    <2>1. CASE record' = [record EXCEPT ![b].status = IF @ = "absent" THEN "queued" ELSE @]
      <3> DEFINE new == [record[b] EXCEPT !.status = IF @ = "absent" THEN "queued" ELSE @]
      <3>1. record[b] \in BatchRecords
        BY <1>2
      <3>2. /\ new \in BatchRecords /\ new.items = record[b].items /\ new.status # "absent"
            /\ record[b].status # "absent" => new = record[b]
            /\ record[b].status = "absent" => new.status = "queued"
        BY <3>1 DEF BatchRecords
      <3>3. record' = [record EXCEPT ![b] = new]
        BY <2>1
      <3> HIDE DEF new
      <3> QED
        BY <1>2, <3>2, <3>3, Writing
    <2>2. CASE UNCHANGED record /\ record[b].status # "absent"
      BY <2>2
    <2> QED
      BY <2>1, <2>2 DEF Submit, Retry, records
  <1>6. asked'[c] = b
    BY <1>1 DEF Arrives, BatchInv, QueueInv, QueueShape
  <1>7. (~Hurried' => ~Hurried) /\ (~Shared(b)' => ~Shared(b))
    BY <1>2, <1>5, FaultsStay, SharedStays DEF BatchInv
  <1>8. ASSUME record'[b] # record[b] PROVE StoredTells(b)'
    <2>1. record[b].status = "absent" /\ record'[b].status = "queued" /\ StoredTells(b)
      BY <1>5, <1>8 DEF ServedInv
    <2>2. NoneFailedIn(record[b])'
      BY <1>5, <2>1 DEF StoredTells, NoneFailedIn
    <2>3. ASSUME ~Hurried', b \notin overtaken, ~Shared(b)'
          PROVE  \A f \in Selected[b] : record'[b].items[f].status = "published" =>
                     <<f, record'[b].items[f].revision>> \in served
      BY <1>5, <1>7, <2>1, <2>3 DEF StoredTells, Serves, AtWorkStatus
    <2> QED
      BY <1>2, <2>1, <2>2, <2>3 DEF StoredTells, Serves
  <1>9. \A x \in Actors : x # c => pc'[x] = pc[x]
    BY <1>3 DEF Reaches
  <1> QED
    BY <1>2, <1>3, <1>4, <1>5, <1>6, <1>8, <1>9, ServedStep

LEMMA UnsentServed ==
    ASSUME BatchInv, BatchInv', ServedInv, NEW c \in Clients, MarkUnsent(c),
           UNCHANGED <<ingested, served, failures, todo, item, overtaken>>
    PROVE  ServedInv'
  <1>1. /\ c \in Actors /\ c \notin Workers /\ pc[c] # "idle"
               /\ pc[c] \in {"unsent", "unsent_save"}
        /\ "broker" \in Kinds
    BY QueueAssumption DEF MarkUnsent, Actors, Kinds
  <1>2. PICK label \in {"unsent_save", "done"} : Moves(c, label)
    BY ClientsMove DEF BatchInv
  <1>3. Reaches(c, label) /\ Counts /\ UNCHANGED asked /\ \A x : Subject(x)' = Subject(x)
    BY <1>1, <1>2, Moving DEF BatchInv, Moves
  <1>4. PICK b \in Batches : b = Subject(c) /\ b \in Records /\ Own(c) \in BatchRecords
                               /\ copy[c] \in BatchRecords /\ record[b].status # "absent"
    BY <1>1, BatchSubject, IsPresent DEF Own
  <1>5. Hurried' /\ faults'["broker"] # 0
    <2>1. /\ faults["broker"] > 0 /\ faults'["broker"] \in Nat /\ faults["broker"] \in Nat
          /\ faults["broker"] <= faults'["broker"]
      BY <1>1, <1>3, CountsGrow DEF BatchInv, BatchLabels, QueueInv, QueueShape
    <2> QED
      BY <2>1 DEF Hurried
  <1> DEFINE new == With(copy[c], "failed", "queue")
  <1>6. new \in BatchRecords /\ new.status = "failed"
    BY <1>4 DEF With, BatchRecords, Errors
  <1> HIDE DEF new
  <1>7. /\ \A x \in Actors : x # c => copy'[x] = copy[x]
        /\ \A x \in Records : x # b => record'[x] = record[x]
        /\ record'[b] = record[b] \/ record'[b].status = "failed"
    <2>1. CASE Hold(c, Own(c)) /\ UNCHANGED record
      BY <1>1, <1>4, <2>1, BatchHeld
    <2>2. CASE Save(c, new)
      BY <1>1, <1>4, <1>6, <2>2, BatchHeld, BatchSaved DEF Save
    <2> QED
      BY <2>1, <2>2 DEF MarkUnsent, new
  <1>8. record'[b] = record[b] \/ StoredTells(b)'
    BY <1>5, <1>7 DEF StoredTells
  <1>9. Learns(c) /\ ~InRun(c)' /\ RetryTells(c)'
    BY <1>3, KnowsNothingNew DEF InRun, PublicationTry, RetryTells, Retrying, Reaches
  <1>10. record'[asked'[c]].status # "absent"
             /\ (record'[b].status = "absent" => record[b].status = "absent")
    BY <1>1, <1>3, <1>4, <1>7 DEF Subject
  <1>11. \A x \in Actors : x # c => pc'[x] = pc[x]
    BY <1>3 DEF Reaches
  <1> QED
    BY <1>1, <1>3, <1>7, <1>8, <1>9, <1>10, <1>11, ServedStep

\* A request that sends its task, a worker that takes one, sends it again or is lost.
LEMMA TurnServed ==
    ASSUME BatchInv, BatchInv', ServedInv, NEW a \in Actors,
           UNCHANGED <<ingested, served, failures, todo, item, overtaken>>,
           \/ a \in Clients /\ Send(a)
           \/ a \in Workers /\ ((\E m \in waiting : Take(a, m)) \/ Resend(a) \/ LoseWorker(a))
    PROVE  ServedInv'
  <1>1. ASSUME NEW label \in {"task_read", "acknowledge", "idle", "done", "unsent"},
               Reaches(a, label), Counts, UNCHANGED <<record, copy, asked>>,
               a \in Clients => pc[a] # "idle",
               \A x \in Actors : pc[x] # "idle" => Subject(x)' = Subject(x)
        PROVE  ServedInv'
    <2>1. label \notin PublicationTry \cup {"fail"} \cup Retrying
      BY DEF PublicationTry, Retrying
    <2> QED
      BY <1>1, <2>1, ElsewhereServed
  <1>2. CASE a \in Clients /\ Send(a)
    <2>1. /\ Reaches(a, "done") \/ Reaches(a, "unsent")
          /\ \A x : Subject(x)' = Subject(x)
      BY <1>2, Sending DEF BatchInv
    <2>2. UNCHANGED <<record, copy, asked>> /\ pc[a] = "send" /\ Counts
      BY <1>2 DEF Send, Kinds, Counts, records
    <2> QED
      BY <1>1, <2>1, <2>2
  <1>3. ASSUME a \in Workers, NEW m \in waiting, Take(a, m) PROVE ServedInv'
    <2>1. Counts /\ UNCHANGED <<record, copy, asked>> /\ a \notin Clients
      BY <1>3, QueueAssumption DEF Take, Counts, records
    <2> QED
      BY <1>1, <1>3, <2>1, Taking DEF BatchInv
  <1>4. CASE a \in Workers /\ Resend(a)
    <2>1. Counts /\ UNCHANGED <<record, copy, asked>> /\ a \notin Clients
      BY <1>4, QueueAssumption DEF Resend, Raises, Returns, Counts, Kinds, records
    <2> QED
      BY <1>1, <1>4, <2>1, Resending DEF BatchInv
  <1>5. CASE a \in Workers /\ LoseWorker(a)
    <2>1. Counts /\ UNCHANGED <<record, copy, asked>> /\ a \notin Clients
      BY <1>5, QueueAssumption DEF LoseWorker, Counts, Kinds, records
    <2> QED
      BY <1>1, <1>5, <2>1, LosingWorker DEF BatchInv
  <1> QED
    BY <1>2, <1>3, <1>4, <1>5

\* A step of nobody in the service.
LEMMA NobodyServed ==
    ASSUME BatchInv, BatchInv', ServedInv, Counts,
           UNCHANGED <<record, copy, pc, asked, task, ingested, served, failures, todo, item,
                       overtaken>>
    PROVE  ServedInv'
  <1>1. PICK a : a \notin Actors \cup Clients \cup Workers
    BY NoSetContainsEverything
  <1>2. Learns(a) /\ \A x : Subject(x)' = Subject(x)
    BY KnowsNothingNew DEF Subject
  <1> QED
    BY <1>1, <1>2, ServedStep

\* Every step of the publication service keeps what is stored, held and served in
\* agreement.
LEMMA PublicationServes ==
    ASSUME BatchInv, BatchInv', ServedInv,
           PublicationNext \/ UNCHANGED <<publicationVars, queueVars>>
    PROVE  ServedInv'
  <1> USE DEF Actors, Kinds
  <1> DEFINE same == UNCHANGED <<ingested, served, failures, todo, item, overtaken>>
  <1>0. UNCHANGED publicationVars => same
    BY DEF publicationVars, publicationLocals, knowledge
  <1>1. ASSUME NEW c \in Clients, NEW b \in Batches, Submit(c, b) \/ Retry(c, b) PROVE ServedInv'
    BY <1>1, ArrivalServed
  <1>2. ASSUME NEW a \in Actors, RetryRead(a) \/ RetryRequeue(a) \/ RetryGet(a) \/ RetrySave(a)
        PROVE  ServedInv'
    BY <1>2, RetryReadServed, RequeueServed, RetryGetServed, RetrySaveServed
  <1>3. ASSUME NEW c \in Clients, SendRead(c) \/ LoseRequest(c), UNCHANGED publicationVars
        PROVE  ServedInv'
    <2>1. c \in Actors /\ c \notin Workers /\ QueueInv
      BY QueueAssumption DEF BatchInv
    <2>2. PICK label \in {"send", "done"} : Moves(c, label) /\ UNCHANGED <<record, copy>>
      BY <1>3, <2>1, ClientsMove DEF records
    <2>3. same
      BY <1>0, <1>3
    <2> QED
      BY <2>1, <2>2, <2>3, StaysServed DEF PublicationTry, Retrying
  <1>4. ASSUME NEW c \in Clients, Send(c), UNCHANGED publicationVars PROVE ServedInv'
    BY <1>0, <1>4, TurnServed
  <1>5. ASSUME NEW c \in Clients, MarkUnsent(c), UNCHANGED publicationVars PROVE ServedInv'
    BY <1>0, <1>5, UnsentServed
  <1>6. ASSUME NEW w \in Workers, (\E m \in waiting : Take(w, m)) \/ Resend(w),
               UNCHANGED publicationVars
        PROVE  ServedInv'
    BY <1>0, <1>6, TurnServed
  <1>7. ASSUME NEW w \in Workers, PublicationLosesWorker(w) PROVE ServedInv'
    BY <1>7, TurnServed DEF PublicationLosesWorker, publicationLocals
  <1>8. ASSUME NEW w \in Workers, TaskRead(w) \/ Current(w) PROVE ServedInv'
    <2>1. same /\ UNCHANGED <<record, copy>> /\ w \in Actors /\ w \notin Clients /\ pc[w] # "idle"
      BY <1>0, <1>8, QueueAssumption DEF TaskRead, Current, records
    <2>2. PICK label \in {"retry_read", "claim", "idle"} : Moves(w, label)
      <3>1. CASE TaskRead(w)
        BY <2>1, <3>1, Returning DEF TaskRead
      <3>2. CASE Current(w)
        BY <2>1, <3>2 DEF Current, Ends, Moves, Counts
      <3> QED
        BY <1>8, <3>1, <3>2
    <2> QED
      BY <2>1, <2>2, StaysServed DEF PublicationTry, Retrying
  <1>9. ASSUME NEW w \in Workers, Claim(w) PROVE ServedInv'
    BY <1>9, ClaimServed
  <1>10. ASSUME NEW w \in Workers,
                \/ Preflight(w) \/ StartPublishing(w) \/ NextItem(w) \/ SaveItem(w)
                \/ Reconciling(w) \/ ItemsFailed(w) \/ Complete(w) \/ Fail(w)
         PROVE  ServedInv'
    BY <1>10, RunActionsServed
  <1>11. ASSUME NEW w \in Workers, Ingest(w) \/ Reconcile(w) \/ Compensate(w) \/ ItemRaises(w)
         PROVE  ServedInv'
    BY <1>11, ItemActionsServed
  <1>12. ASSUME NEW a \in Actors, Breaks(a) PROVE ServedInv'
    <2>1. PICK label \in {"done", "idle"} : Moves(a, label)
      BY <1>12, Raising, QueueAssumption DEF Breaks, Retrying
    <2>2. same /\ UNCHANGED <<record, copy>>
      BY <1>0, <1>12 DEF Breaks, records
    <2> QED
      BY <2>1, <2>2, StaysServed DEF PublicationTry, Retrying
  <1>13. CASE UNCHANGED <<publicationVars, queueVars>>
    <2>1. same /\ UNCHANGED <<record, copy, pc, asked, task>> /\ Counts
      BY <1>0, <1>13 DEF queueVars, records, Counts
    <2> QED
      BY <2>1, NobodyServed
  <1>14. CASE Rereview
    <2>1. same /\ UNCHANGED <<record, copy, pc, asked, task>> /\ Counts
      BY <1>14 DEF Rereview, records, publicationLocals, knowledge, Counts
    <2> QED
      BY <2>1, NobodyServed
  <1> QED
    BY <1>1, <1>2, <1>3, <1>4, <1>5, <1>6, <1>7, <1>8, <1>9, <1>10, <1>11, <1>12, <1>13, <1>14
       DEF PublicationNext, PublicationClientStep, PublicationWorkerStep

LEMMA ServedStarts ==
    ASSUME NothingPublished, record = [r \in Records |-> NoBatch],
           \A a \in Actors : pc[a] = "idle"
    PROVE  ServedInv
  <1>1. \A b \in Batches : record[b] = NoBatch
    BY SelectionAssumption
  <1>2. \A f \in Files : NoBatch.items[f].status = "pending" /\ NoBatch.status = "absent"
    BY DEF NoBatch, NewItem
  <1>3. \A b \in Batches : StoredTells(b)
    <2> TAKE b \in Batches
    <2>1. NoneFailedIn(record[b]) /\ Serves(record[b], Selected[b]) /\ record[b].status = "absent"
      BY <1>1, <1>2, SelectionAssumption DEF NoneFailedIn, Serves, NoBatch
    <2> QED
      BY <2>1 DEF StoredTells
  <1>4. /\ \A a \in Actors : RetryTells(a)
        /\ \A w \in Workers : ~InRun(w)
    BY DEF RetryTells, Retrying, InRun, PublicationTry, Actors
  <1> QED
    BY <1>3, <1>4 DEF ServedInv, AskedIsPresent, NothingPublished, Actors

LEMMA ServedTells == ASSUME ServedInv PROVE CompletedIsServed /\ IsolatedIsHidden
  <1>1. CompletedIsServed
    <2> SUFFICES ASSUME ~Hurried, NEW b \in Batches, Has(b, {"completed"}), b \notin overtaken,
                        ~Shared(b)
                 PROVE  Published(b)
      BY DEF CompletedIsServed
    <2>1. /\ \A f \in Selected[b] : record[b].items[f].status = "published"
          /\ Serves(record[b], Selected[b])
      BY DEF ServedInv, StoredTells, Has, AtWorkStatus
    <2> QED
      BY <2>1 DEF Published, Serves
  <1>2. IsolatedIsHidden
    <2> SUFFICES ASSUME faults["broker"] = 0, NEW b \in Batches \ overtaken,
                        NEW f \in Selected[b],
                        Has(b, {"failed"}), record[b].items[f].status = "failed",
                        record[b].items[f].error = "reconciliation"
                 PROVE  <<f, record[b].items[f].revision>> \notin served
      BY DEF IsolatedIsHidden
    <2>1. f \in Files /\ Isolates(record[b])
      BY SelectionAssumption DEF ServedInv, StoredTells, Has
    <2> QED
      BY <2>1 DEF Isolates
  <1> QED
    BY <1>1, <1>2

-----------------------------------------------------------------------------
(* The services together *)

\* The services as they are, with neither the bounds nor the fairness of Spec.
ServicesSpec == Init /\ [][Next]_vars

\* One service is at work in a behaviour, and its faults are only added to.
Keeps == Counts /\ UNCHANGED service

LEMMA CallsKeep ==
    ASSUME NEW a
    PROVE  /\ \A label : Returns(a, label) => Keeps
           /\ \A k \in Kinds : \A label : Raises(k, a, label) => Keeps
           /\ \A r, label : Arrives(a, r, label) => Keeps
           /\ \A saved, label : Saves(a, saved, label) => Keeps
           /\ \A k \in Kinds : \A held : TryRaises(k, a, held) => Keeps
           /\ \A r, label : Ends(a, r, label) => Keeps
  <1>1. \A label : Returns(a, label) => Keeps
    BY DEF Returns, Keeps, Counts
  <1>2. \A k \in Kinds : \A label : Raises(k, a, label) => Keeps
    BY DEF Raises, Keeps, Counts
  <1>3. \A k \in Kinds : \A held : TryRaises(k, a, held) => Keeps
    BY <1>2 DEF TryRaises
  <1>4. \A saved, label : Saves(a, saved, label) => Keeps
    BY <1>1, <1>3 DEF Saves, Kinds
  <1>5. \A r, label : Arrives(a, r, label) => Keeps
    BY DEF Arrives, Keeps, Counts
  <1>6. \A r, label : Ends(a, r, label) => Keeps
    BY DEF Ends, Keeps, Counts
  <1> QED
    BY <1>1, <1>2, <1>3, <1>4, <1>5, <1>6

LEMMA TurnsKeep ==
    ASSUME NEW a
    PROVE  /\ SendRead(a) \/ Send(a) \/ MarkUnsent(a) \/ LoseRequest(a) => Keeps
           /\ Resend(a) \/ LoseWorker(a) => Keeps
           /\ \A m : Take(a, m) => Keeps
  <1>1. SendRead(a) \/ MarkUnsent(a) \/ LoseRequest(a) => Keeps
    BY CallsKeep DEF SendRead, MarkUnsent, LoseRequest, Kinds
  <1>2. Send(a) => Keeps
    BY DEF Send, Keeps, Counts, Kinds
  <1>3. Resend(a) => Keeps
    BY CallsKeep DEF Resend, Keeps, Counts, Kinds
  <1>4. LoseWorker(a) => Keeps
    BY DEF LoseWorker, Keeps, Counts, Kinds
  <1>5. \A m : Take(a, m) => Keeps
    BY DEF Take, Keeps, Counts
  <1> QED
    BY <1>1, <1>2, <1>3, <1>4, <1>5

\* Whatever is called or raised, the service stays the same and faults are counted.
LEMMA ServicesKeep == ASSUME Next \/ UNCHANGED vars PROVE Keeps
  <1>1. HoldoutNext => Keeps
    BY CallsKeep, TurnsKeep
       DEF HoldoutNext, FreezeRead, SaveFreeze, FindFrozen, OpenRelease, OpenDataset, Baseline, SaveRun
  <1>2. EvaluationNext => Keeps
    <2>1. \A c : \A r : CreateRun(c, r) \/ RetryRun(c, r) => Keeps
      BY CallsKeep DEF CreateRun, RetryRun
    <2>2. \A a : Check(a) \/ Prepare(a) \/ ClaimRun(a) \/ Existing(a) \/ GetDataset(a)
              \/ FinishRun(a) => Keeps
      BY CallsKeep DEF Check, Prepare, ClaimRun, Existing, GetDataset, FinishRun
    <2>3. \A a : Cases(a) \/ RunBreaks(a) => Keeps
      BY CallsKeep DEF Cases, RunBreaks, Kinds
    <2>4. \A a : FailAndRaise(a) \/ ExecuteRaises(a) => Keeps
      BY DEF FailAndRaise, ExecuteRaises, Keeps, Counts, Kinds
    <2> QED
      BY <2>1, <2>2, <2>3, <2>4, TurnsKeep
         DEF EvaluationNext, EvaluationClientStep, EvaluationWorkerStep
  <1>3. StandardizationNext => Keeps
    <2>1. \A c : \A j : Upload(c, j) \/ RetryJob(c, j) => Keeps
      BY CallsKeep DEF Upload, RetryJob
    <2>2. \A a : RequeueRead(a) \/ RequeueSave(a) \/ JobTaskRead(a) \/ Process(a) \/ JobFails(a) =>
              Keeps
      BY CallsKeep DEF RequeueRead, RequeueSave, JobTaskRead, Process, JobFails
    <2>3. \A a : Advance(a) \/ Finish(a) \/ Outcome(a) => Keeps
      BY CallsKeep DEF Advance, Finish, Outcome
    <2>4. \A a : JobBreaks(a) => Keeps
      BY CallsKeep DEF JobBreaks, Kinds
    <2> QED
      BY <2>1, <2>2, <2>3, <2>4, TurnsKeep
         DEF StandardizationNext, StandardizationClientStep, StandardizationWorkerStep
  <1>4. PublicationNext => Keeps
    <2>1. \A c : \A b : Submit(c, b) \/ Retry(c, b) => Keeps
      BY CallsKeep DEF Submit, Retry
    <2>2. \A a : RetryRead(a) \/ RetryRequeue(a) \/ RetryGet(a) \/ RetrySave(a) => Keeps
      BY CallsKeep DEF RetryRead, RetryRequeue, RetryGet, RetrySave
    <2>3. \A a : TaskRead(a) \/ Claim(a) \/ Current(a) \/ Fail(a) => Keeps
      BY CallsKeep DEF TaskRead, Claim, Current, Fail
    <2>4. \A a : Preflight(a) \/ StartPublishing(a) \/ NextItem(a) \/ SaveItem(a)
                   \/ Reconciling(a) \/ ItemsFailed(a) \/ Complete(a) => Keeps
      BY CallsKeep DEF Preflight, StartPublishing, NextItem, SaveItem, Reconciling, ItemsFailed,
         Complete
    <2>5. \A a : Ingest(a) \/ Reconcile(a) \/ Compensate(a) \/ ItemRaises(a) \/ Breaks(a) => Keeps
      BY CallsKeep DEF Ingest, Reconcile, Compensate, ItemRaises, ItemFails, Breaks, Kinds
    <2>6. \A a : PublicationLosesWorker(a) => Keeps
      BY TurnsKeep DEF PublicationLosesWorker
    <2>7. Rereview => Keeps
      BY DEF Rereview, Keeps, Counts, Kinds
    <2> QED
      BY <2>1, <2>2, <2>3, <2>4, <2>5, <2>6, <2>7, TurnsKeep
         DEF PublicationNext, PublicationClientStep, PublicationWorkerStep
  <1>5. UNCHANGED vars => Keeps
    BY DEF vars, queueVars, Keeps, Counts
  <1> QED
    BY <1>1, <1>2, <1>3, <1>4, <1>5 DEF Next, Mode

LEMMA NeverLess ==
    ASSUME faults \in [Kinds -> Nat], Keeps
    PROVE  /\ faults' \in [Kinds -> Nat] /\ \A k \in Kinds : faults[k] <= faults'[k]
           /\ \A k \in {"broker", "resent", "answer"} : faults[k] > 0 => faults'[k] > 0
  <1>1. faults' \in [Kinds -> Nat] /\ \A k \in Kinds : faults[k] <= faults'[k]
    <2>1. CASE faults' = faults
      BY <2>1
    <2>2. ASSUME NEW k \in Kinds, Fault(k)
          PROVE  faults' \in [Kinds -> Nat] /\ \A j \in Kinds : faults[j] <= faults'[j]
      BY <2>2 DEF Fault
    <2> QED
      BY <2>1, <2>2 DEF Keeps, Counts
  <1>2. {"broker", "resent", "answer"} \subseteq Kinds
    BY DEF Kinds
  <1> QED
    BY <1>1, <1>2

\* The invariant of the service at work; the others have not begun.
ServicesInv ==
    /\ faults \in [Kinds -> Nat]
    /\ service = "publication" => BatchInv /\ ServedInv
    /\ service = "standardization" => JobInv
    /\ service = "evaluation" => EvaluationInv
    /\ service = "holdout" => HoldoutInv
    /\ service # "holdout" => runs = {}

LEMMA ServicesStart == ASSUME Init PROVE ServicesInv
  <1>1. NothingPublished /\ outrun = {} /\ NothingOpened
    BY DEF Init, NothingStandardized
  <1>2. CASE QueueInit("publication", NoBatch)
    <2>1. QueueInv /\ \A a \in Actors : pc[a] = "idle"
      BY <1>2, QueueStarts
    <2>2. NoBatch \in BatchRecords
      BY DEF NoBatch, NewItem, BatchRecords, ItemRecords, Errors
    <2>3. BatchTypes
      BY <1>2, <2>2 DEF QueueInit, BatchTypes
    <2>4. LocalTypes
      BY <1>1 DEF NothingPublished, LocalTypes
    <2>5. BatchLabels /\ RunIsAlone
      BY <2>1 DEF BatchLabels, RunIsAlone, InRun, PublicationTry, AtItem, Actors
    <2>6. faults \in [Kinds -> Nat] /\ service = "publication"
      BY <1>2 DEF QueueInit
    <2>7. ServedInv
      BY <1>1, <1>2, <2>1, ServedStarts DEF QueueInit
    <2> QED
      BY <1>1, <2>1, <2>3, <2>4, <2>5, <2>6, <2>7 DEF ServicesInv, BatchInv, NothingOpened
  <1>3. CASE QueueInit("standardization", NoJob)
    <2>1. QueueInv /\ \A a \in Actors : pc[a] = "idle"
      BY <1>3, QueueStarts
    <2>2. NoJob \in JobRecords
      BY DEF NoJob, JobRecords, Errors
    <2>3. JobTypes
      BY <1>3, <2>2 DEF QueueInit, JobTypes
    <2>4. JobLabels
      BY <2>1 DEF JobLabels, Actors
    <2>5. WorkIsAlone
      BY <2>1, WorkLabels DEF WorkIsAlone, StageNames, Actors
    <2>6. faults \in [Kinds -> Nat] /\ service = "standardization"
      BY <1>3 DEF QueueInit
    <2> QED
      BY <1>1, <2>1, <2>3, <2>4, <2>5, <2>6 DEF ServicesInv, JobInv, NothingOpened
  <1>4. CASE EvaluationInit
    <2>1. QueueInit("evaluation", NoRun)
      BY <1>4 DEF EvaluationInit
    <2>2. QueueInv /\ \A a \in Actors : pc[a] = "idle"
      BY <2>1, QueueStarts
    <2>3. NoRun \in RunRecords
      BY DEF NoRun, RunRecords, Errors
    <2>4. RunTypes
      BY <2>1, <2>3 DEF QueueInit, RunTypes
    <2>5. RunLabels /\ RunsAreOwned
      BY <2>2 DEF RunLabels, RunsAreOwned, AtRun, Actors
    <2>6. waiting = {} /\ \A w \in Workers : \A c : ~Holds(w, c)
      BY <2>1, <2>2 DEF QueueInit, Holds, Actors
    <2>7. OnePlace
      BY <2>6 DEF OnePlace
    <2>8. faults \in [Kinds -> Nat] /\ service = "evaluation"
      BY <2>1 DEF QueueInit
    <2> QED
      BY <1>1, <2>2, <2>4, <2>5, <2>7, <2>8 DEF ServicesInv, EvaluationInv, NothingOpened
  <1>5. CASE QueueInit("holdout", NoFreeze)
    <2>1. HoldoutInv
      BY <1>1, <1>5, HoldoutStarts
    <2>2. faults \in [Kinds -> Nat] /\ service = "holdout"
      BY <1>5 DEF QueueInit
    <2> QED
      BY <2>1, <2>2 DEF ServicesInv
  <1> QED
    BY <1>2, <1>3, <1>4, <1>5 DEF Init

\* What a step of the service at work does, and what the others do meanwhile: nothing.
LEMMA ServicesMove ==
    ASSUME ServicesInv, Next \/ UNCHANGED vars
    PROVE  /\ ServicesInv' /\ Keeps
           /\ service = "publication" => BatchGoal
           /\ service # "publication" => UNCHANGED publicationVars
           /\ service = "standardization" => JobGoal
           /\ service # "standardization" => UNCHANGED outrun
           /\ service = "evaluation" => EvaluationGoal
  <1>1. Keeps /\ UNCHANGED service
    BY ServicesKeep DEF Keeps
  <1>2. faults' \in [Kinds -> Nat]
    BY <1>1, NeverLess DEF ServicesInv
  <1>3. service = "publication" =>
           (PublicationNext /\ UNCHANGED holdoutVars)
               \/ UNCHANGED <<publicationVars, queueVars, holdoutVars>>
    BY DEF Next, Mode, vars
  <1>4. service = "standardization" =>
           (StandardizationNext /\ UNCHANGED holdoutVars)
               \/ UNCHANGED <<queueVars, outrun, holdoutVars>>
    BY DEF Next, Mode, vars
  <1>5. service = "evaluation" =>
           (EvaluationNext /\ UNCHANGED holdoutVars) \/ UNCHANGED <<queueVars, holdoutVars>>
    BY DEF Next, Mode, vars
  <1>6. service = "holdout" => HoldoutNext \/ UNCHANGED <<queueVars, holdoutVars>>
    BY DEF Next, Mode, vars
  <1>7. service # "publication" => UNCHANGED publicationVars
    BY DEF Next, Mode, vars
  <1>8. service # "standardization" => UNCHANGED outrun
    BY DEF Next, Mode, vars
  <1>9. service = "publication" => BatchGoal
    BY <1>3, PublicationStep DEF ServicesInv
  <1>10. service = "standardization" => JobGoal
    BY <1>4, StandardizationStep DEF ServicesInv
  <1>11. service = "evaluation" => EvaluationGoal
    BY <1>5, EvaluationStep DEF ServicesInv
  <1>12. service = "holdout" => HoldoutInv'
    <2>1. ASSUME HoldoutInv, UNCHANGED <<queueVars, holdoutVars>> PROVE HoldoutInv'
      <3>1. UNCHANGED <<record, pc, asked, dataset, opening, runs>>
        BY <2>1 DEF queueVars, records, holdoutVars
      <3> QED
        BY <2>1, <3>1 DEF HoldoutInv, HoldoutTypes, OpeningIsKnown, RunsAreOfIt, Opened
    <2> QED
      BY <1>6, <2>1, HoldoutSteps DEF ServicesInv
  <1>13. service # "holdout" => UNCHANGED runs
    BY DEF Next, Mode, vars, holdoutVars
  <1>14. service = "publication" => BatchInv' /\ ServedInv'
    BY <1>3, <1>9, PublicationServes DEF ServicesInv, BatchGoal
  <1>15. ServicesInv'
    BY <1>1, <1>2, <1>9, <1>10, <1>11, <1>12, <1>13, <1>14
       DEF ServicesInv, BatchGoal, JobGoal, EvaluationGoal
  <1> QED
    BY <1>1, <1>7, <1>8, <1>9, <1>10, <1>11, <1>15

LEMMA ServicesInvariant == ServicesSpec => []ServicesInv
  <1>1. Init => ServicesInv
    BY ServicesStart
  <1>2. ServicesInv /\ [Next]_vars => ServicesInv'
    BY ServicesMove
  <1> QED
    BY <1>1, <1>2, PTL DEF ServicesSpec

\* All runs of the sealed holdout carry one opening, of releases that are marked as opened,
\* for any number of requests and releases, whatever order their checks and marks come in
\* (evaluation/governance.py, create_run).
THEOREM HoldoutIsOpenedOnce == ServicesSpec => []OpenedOnce
  <1>1. ServicesInv => OpenedOnce
    <2>1. CASE service = "holdout"
      BY <2>1 DEF ServicesInv, HoldoutInv, RunsAreOfIt, Opened, OpenedOnce
    <2>2. CASE service # "holdout"
      BY <2>2 DEF ServicesInv, OpenedOnce
    <2> QED
      BY <2>1, <2>2
  <1> QED
    BY <1>1, ServicesInvariant, PTL

\* A batch stored as completed has all its files published and served, and what a failed
\* batch has isolated is not served (CompletedIsServed and IsolatedIsHidden, under their
\* conditions), for every number of clients, workers, batches, files and faults.
THEOREM RecordsAreTrue == ServicesSpec => []RecordsMatchServed
  <1>1. ServicesInv => RecordsMatchServed
    <2>1. CASE service = "publication"
      BY <2>1, ServedTells DEF ServicesInv, RecordsMatchServed
    <2>2. CASE service # "publication"
      BY <2>2 DEF RecordsMatchServed, CompletedIsServed, IsolatedIsHidden, Has
    <2> QED
      BY <2>1, <2>2
  <1> QED
    BY <1>1, ServicesInvariant, PTL

\* Two workers never carry out one batch or one evaluation together, whatever is sent again,
\* delivered again or retried, for any number of requests, workers and faults (claim_batch,
\* claim_run, workers/tasks.py).
THEOREM WorkersAreAlone == ServicesSpec => []OneAtATime
  <1>1. ASSUME ServicesInv PROVE OneRun
    <2> SUFFICES ASSUME ~Hurried, NEW v \in Workers, NEW w \in Workers,
                        Running(v), Running(w), Subject(v) = Subject(w), Subject(v) \notin overtaken
                 PROVE  v = w
      BY DEF OneRun
    <2>1. BatchInv /\ ~Hurried /\ InRun(v) /\ InRun(w)
      BY <1>1 DEF ServicesInv, Running, InRun, Hurried
    <2> QED
      BY <2>1 DEF BatchInv, RunIsAlone
  <1>2. ASSUME ServicesInv PROVE OneEvaluation
    <2> SUFFICES ASSUME ~RunDisturbed, NEW v \in Workers, NEW w \in Workers,
                        Executes(v), Executes(w), Subject(v) = Subject(w)
                 PROVE  v = w
      BY DEF OneEvaluation
    <2>1. EvaluationInv /\ faults \in [Kinds -> Nat]
              /\ {"broker", "resent", "answer"} \subseteq Kinds
      BY <1>2 DEF ServicesInv, Executes, Kinds
    <2>2. Quiet
      BY <2>1 DEF RunDisturbed, Quiet
    <2>3. AtRun(v) /\ AtRun(w) /\ pc[v] \notin {"idle", "acknowledge"}
      BY DEF Executes, AtRun
    <2> QED
      BY <2>1, <2>2, <2>3, RunsAlone
  <1>3. ServicesInv => OneAtATime
    BY <1>1, <1>2 DEF OneAtATime
  <1> QED
    BY <1>3, ServicesInvariant, PTL

-----------------------------------------------------------------------------
(* The services are jobs *)

\* What moves a batch is a step of BackgroundJob, and what disturbs it disturbs it for good.
LEMMA BatchesAreJobs ==
    /\ Init => BatchesJob!Init
    /\ ServicesInv /\ (Next \/ UNCHANGED vars) => BatchesJob!Next \/ UNCHANGED BatchesJob!jobVars
  <1>1. ASSUME Init PROVE BatchesJob!Init
    <2>1. overtaken = {} /\ faults = [k \in Kinds |-> 0] /\ {"broker", "answer"} \subseteq Kinds
      BY <1>1 DEF Init, NothingPublished, QueueInit, EvaluationInit, Kinds
    <2>2. ~BatchDisturbed
      BY <2>1 DEF BatchDisturbed, Hurried
    <2>3. service = "publication" => record = [r \in Records |-> NoBatch]
      BY <1>1 DEF Init, QueueInit, EvaluationInit
    <2>4. \A b \in Batches : BatchPhase(b) = "absent"
      BY <2>3, SelectionAssumption DEF BatchPhase, NoBatch
    <2> QED
      BY <2>2, <2>4 DEF BatchesJob!Init
  <1>2. ASSUME ServicesInv, Next \/ UNCHANGED vars
        PROVE  BatchesJob!Next \/ UNCHANGED BatchesJob!jobVars
    <2>1. /\ ServicesInv' /\ Keeps
          /\ service = "publication" => BatchGoal
          /\ service # "publication" => UNCHANGED publicationVars
      BY <1>2, ServicesMove
    <2>2. BatchDisturbed => BatchDisturbed'
      <3>1. \A k \in {"broker", "answer"} : faults[k] > 0 => faults'[k] > 0
        BY <1>2, <2>1, NeverLess DEF ServicesInv
      <3>2. overtaken \subseteq overtaken'
        BY <2>1 DEF publicationVars, BatchGoal
      <3> QED
        BY <3>1, <3>2 DEF BatchDisturbed, Hurried
    <2>3. [b \in Batches |-> BatchPhase(b)]' \in [Batches -> BatchesJob!Phases]
      BY DEF BatchPhase, BatchesJob!Phases
    <2>4. CASE BatchDisturbed'
      BY <2>3, <2>4 DEF BatchesJob!Next, BatchesJob!Disturb
    <2>5. ASSUME ~BatchDisturbed', \A b \in Batches : BatchPhase(b)' = BatchPhase(b)
          PROVE  UNCHANGED BatchesJob!jobVars
      BY <2>2, <2>5 DEF BatchesJob!jobVars, BatchDisturbed, Hurried
    <2>6. CASE ~BatchDisturbed' /\ service # "publication"
      BY <2>1, <2>5, <2>6 DEF BatchPhase, Keeps
    <2>7. CASE ~BatchDisturbed' /\ service = "publication"
      <3>1. service' = service /\ (UNCHANGED record \/ BatchMoves)
        BY <2>1, <2>7 DEF BatchGoal, Keeps
      <3>2. CASE UNCHANGED record
        BY <2>5, <2>7, <3>1, <3>2 DEF BatchPhase
      <3>3. CASE BatchMoves
        <4>1. PICK r \in Records :
                 /\ \A x \in Records : x # r => record'[x] = record[x]
                 /\ \/ record'[r].status = record[r].status
                    \/ <<record[r].status, record'[r].status>> \in
                           {<<"absent", "queued">>, <<"queued", "preflight">>, <<"failed", "queued">>}
                    \/ record[r].status \in AtWorkStatus
                           /\ record'[r].status \in AtWorkStatus \cup {"completed", "failed"}
          BY <3>3 DEF BatchMoves
        <4>2. \A b \in Batches : b # r => BatchPhase(b)' = BatchPhase(b)
          BY <3>1, <4>1, SelectionAssumption DEF BatchPhase
        <4>3. CASE r \notin Batches \/ BatchPhase(r)' = BatchPhase(r)
          BY <2>5, <2>7, <4>2, <4>3
        <4>4. CASE r \in Batches /\ BatchPhase(r)' # BatchPhase(r)
          <5>1. <<BatchPhase(r), BatchPhase(r)'>> \in BatchesJob!Steps
            BY <2>7, <3>1, <4>1, <4>4 DEF BatchPhase, AtWorkStatus, BatchesJob!Steps
          <5>2. BatchesJob!Move(r)
            BY <2>2, <2>3, <2>7, <4>2, <4>4, <5>1 DEF BatchesJob!Move, BatchDisturbed
          <5> QED
            BY <4>4, <5>2 DEF BatchesJob!Next
        <4> QED
          BY <4>3, <4>4
      <3> QED
        BY <3>1, <3>2, <3>3
    <2> QED
      BY <2>4, <2>6, <2>7
  <1> QED
    BY <1>1, <1>2

LEMMA StandardizationsAreJobs ==
    /\ Init => StandardizationJob!Init
    /\ ServicesInv /\ (Next \/ UNCHANGED vars) =>
           StandardizationJob!Next \/ UNCHANGED StandardizationJob!jobVars
  <1>1. ASSUME Init PROVE StandardizationJob!Init
    <2>1. outrun = {} /\ faults = [k \in Kinds |-> 0] /\ {"broker", "answer"} \subseteq Kinds
      BY <1>1 DEF Init, NothingStandardized, QueueInit, EvaluationInit, Kinds
    <2>2. ~JobDisturbed
      BY <2>1 DEF JobDisturbed
    <2>3. service = "standardization" => record = [r \in Records |-> NoJob]
      BY <1>1 DEF Init, QueueInit, EvaluationInit
    <2>4. \A j \in Jobs : JobPhase(j) = "absent"
      BY <2>3, JobsAssumption DEF JobPhase, NoJob
    <2> QED
      BY <2>2, <2>4 DEF StandardizationJob!Init
  <1>2. ASSUME ServicesInv, Next \/ UNCHANGED vars
        PROVE  StandardizationJob!Next \/ UNCHANGED StandardizationJob!jobVars
    <2>1. /\ ServicesInv' /\ Keeps
          /\ service = "standardization" => JobGoal
          /\ service # "standardization" => UNCHANGED outrun
      BY <1>2, ServicesMove
    <2>2. JobDisturbed => JobDisturbed'
      <3>1. \A k \in {"broker", "answer"} : faults[k] > 0 => faults'[k] > 0
        BY <1>2, <2>1, NeverLess DEF ServicesInv
      <3> QED
        BY <2>1, <3>1 DEF JobDisturbed, JobGoal
    <2>3. [j \in Jobs |-> JobPhase(j)]' \in [Jobs -> StandardizationJob!Phases]
      BY DEF JobPhase, StandardizationJob!Phases
    <2>4. CASE JobDisturbed'
      BY <2>3, <2>4 DEF StandardizationJob!Next, StandardizationJob!Disturb
    <2>5. ASSUME ~JobDisturbed', \A j \in Jobs : JobPhase(j)' = JobPhase(j)
          PROVE  UNCHANGED StandardizationJob!jobVars
      BY <2>2, <2>5 DEF StandardizationJob!jobVars, JobDisturbed
    <2>6. CASE ~JobDisturbed' /\ service # "standardization"
      BY <2>1, <2>5, <2>6 DEF JobPhase, Keeps
    <2>7. CASE ~JobDisturbed' /\ service = "standardization"
      <3>1. service' = service /\ (UNCHANGED record \/ JobMoves)
        BY <2>1, <2>7 DEF JobGoal, Keeps
      <3>2. CASE UNCHANGED record
        BY <2>5, <2>7, <3>1, <3>2 DEF JobPhase
      <3>3. CASE JobMoves
        <4>1. PICK r \in Records :
                 /\ \A x \in Records : x # r => record'[x] = record[x]
                 /\ \/ record'[r].status = record[r].status
                    \/ <<record[r].status, record'[r].status>> \in
                           {<<"absent", "queued">>, <<"queued", "failed">>, <<"failed", "queued">>}
                    \/ record[r].status \in {"queued"} \cup StageNames
                           /\ record'[r].status \in StageNames
                    \/ record[r].status \in StageNames
                           /\ record'[r].status \in {"review", "failed"}
          BY <3>3 DEF JobMoves
        <4>2. \A j \in Jobs : j # r => JobPhase(j)' = JobPhase(j)
          BY <3>1, <4>1, JobsAssumption DEF JobPhase
        <4>3. CASE r \notin Jobs \/ JobPhase(r)' = JobPhase(r)
          BY <2>5, <2>7, <4>2, <4>3
        <4>4. CASE r \in Jobs /\ JobPhase(r)' # JobPhase(r)
          <5>1. <<JobPhase(r), JobPhase(r)'>> \in StandardizationJob!Steps
            BY <2>7, <3>1, <4>1, <4>4 DEF JobPhase, StageNames, StandardizationJob!Steps
          <5>2. StandardizationJob!Move(r)
            BY <2>2, <2>3, <2>7, <4>2, <4>4, <5>1 DEF StandardizationJob!Move, JobDisturbed
          <5> QED
            BY <4>4, <5>2 DEF StandardizationJob!Next
        <4> QED
          BY <4>3, <4>4
      <3> QED
        BY <3>1, <3>2, <3>3
    <2> QED
      BY <2>4, <2>6, <2>7
  <1> QED
    BY <1>1, <1>2

LEMMA EvaluationsAreJobs ==
    /\ Init => RunsJob!Init
    /\ ServicesInv /\ (Next \/ UNCHANGED vars) => RunsJob!Next \/ UNCHANGED RunsJob!jobVars
  <1>1. ASSUME Init PROVE RunsJob!Init
    <2>1. faults = [k \in Kinds |-> 0] /\ {"broker", "resent", "answer"} \subseteq Kinds
      BY <1>1 DEF Init, QueueInit, EvaluationInit, Kinds
    <2>2. ~RunDisturbed
      BY <2>1 DEF RunDisturbed
    <2>3. service = "evaluation" => record = [r \in Records |-> NoRun]
      BY <1>1 DEF Init, QueueInit, EvaluationInit
    <2>4. \A r \in Runs : RunPhase(r) = "absent"
      BY <2>3, RunsAssumption DEF RunPhase, NoRun
    <2> QED
      BY <2>2, <2>4 DEF RunsJob!Init
  <1>2. ASSUME ServicesInv, Next \/ UNCHANGED vars
        PROVE  RunsJob!Next \/ UNCHANGED RunsJob!jobVars
    <2>1. /\ ServicesInv' /\ Keeps
          /\ service = "evaluation" => EvaluationGoal
      BY <1>2, ServicesMove
    <2>2. RunDisturbed => RunDisturbed'
      <3>1. \A k \in {"broker", "resent", "answer"} : faults[k] > 0 => faults'[k] > 0
        BY <1>2, <2>1, NeverLess DEF ServicesInv
      <3> QED
        BY <3>1 DEF RunDisturbed
    <2>3. ~RunDisturbed' => Quiet'
      <3>1. faults' \in [Kinds -> Nat] /\ {"broker", "resent", "answer"} \subseteq Kinds
        BY <2>1 DEF ServicesInv, Kinds
      <3> QED
        BY <3>1 DEF RunDisturbed, Quiet
    <2>4. \A r \in Runs : service = "evaluation" =>
              record[r] \in RunRecords /\ record'[r] \in RunRecords
      BY <1>2, <2>1, RunsAssumption DEF ServicesInv, EvaluationInv, EvaluationGoal, RunTypes
    <2>5. [r \in Runs |-> RunPhase(r)]' \in [Runs -> RunsJob!Phases]
      BY <2>1, <2>4 DEF RunPhase, RunsJob!Phases, RunRecords, Keeps
    <2>6. CASE RunDisturbed'
      BY <2>5, <2>6 DEF RunsJob!Next, RunsJob!Disturb
    <2>7. ASSUME ~RunDisturbed', \A r \in Runs : RunPhase(r)' = RunPhase(r)
          PROVE  UNCHANGED RunsJob!jobVars
      BY <2>2, <2>7 DEF RunsJob!jobVars, RunDisturbed
    <2>8. CASE ~RunDisturbed' /\ service # "evaluation"
      BY <2>1, <2>7, <2>8 DEF RunPhase, Keeps
    <2>9. CASE ~RunDisturbed' /\ service = "evaluation"
      <3>1. service' = service /\ (UNCHANGED record \/ RunMoves)
        BY <2>1, <2>3, <2>9 DEF EvaluationGoal, Keeps
      <3>2. CASE UNCHANGED record
        BY <2>7, <2>9, <3>1, <3>2 DEF RunPhase
      <3>3. CASE RunMoves
        <4>1. PICK r \in Records :
                 /\ \A x \in Records : x # r => record'[x] = record[x]
                 /\ \/ record'[r].status = record[r].status
                    \/ <<record[r].status, record'[r].status>> \in RunSteps
          BY <3>3 DEF RunMoves
        <4>2. \A x \in Runs : x # r => RunPhase(x)' = RunPhase(x)
          BY <3>1, <4>1, RunsAssumption DEF RunPhase
        <4>3. CASE r \notin Runs \/ RunPhase(r)' = RunPhase(r)
          BY <2>7, <2>9, <4>2, <4>3
        <4>4. CASE r \in Runs /\ RunPhase(r)' # RunPhase(r)
          <5>1. <<record[r].status, record'[r].status>> \in RunSteps
            BY <2>9, <3>1, <4>1, <4>4 DEF RunPhase
          <5>2. <<RunPhase(r), RunPhase(r)'>> \in RunsJob!Steps
            BY <2>9, <3>1, <5>1 DEF RunPhase, RunSteps, RunsJob!Steps
          <5>3. RunsJob!Move(r)
            BY <2>2, <2>5, <2>9, <4>2, <4>4, <5>2 DEF RunsJob!Move, RunDisturbed
          <5> QED
            BY <4>4, <5>3 DEF RunsJob!Next
        <4> QED
          BY <4>3, <4>4
      <3> QED
        BY <3>1, <3>2, <3>3
    <2> QED
      BY <2>6, <2>8, <2>9
  <1> QED
    BY <1>1, <1>2

\* Batches, standardizations and evaluations implement BackgroundJob: each starts over only
\* after it has failed, and what has succeeded is left alone, until it is disturbed as its
\* service says.
THEOREM ServicesImplementJobs == ServicesSpec => ServicesAreJobs
  <1>1. ServicesInv /\ [Next]_vars => [BatchesJob!Next]_(BatchesJob!jobVars)
    BY BatchesAreJobs
  <1>2. ServicesInv /\ [Next]_vars => [StandardizationJob!Next]_(StandardizationJob!jobVars)
    BY StandardizationsAreJobs
  <1>3. ServicesInv /\ [Next]_vars => [RunsJob!Next]_(RunsJob!jobVars)
    BY EvaluationsAreJobs
  <1>4. ServicesSpec => BatchesJob!Spec
    BY <1>1, BatchesAreJobs, ServicesInvariant, PTL DEF ServicesSpec, BatchesJob!Spec
  <1>5. ServicesSpec => StandardizationJob!Spec
    BY <1>2, StandardizationsAreJobs, ServicesInvariant, PTL
       DEF ServicesSpec, StandardizationJob!Spec
  <1>6. ServicesSpec => RunsJob!Spec
    BY <1>3, EvaluationsAreJobs, ServicesInvariant, PTL DEF ServicesSpec, RunsJob!Spec
  <1> QED
    BY <1>4, <1>5, <1>6 DEF ServicesAreJobs, BatchIsAJob, StandardizationIsAJob, RunIsAJob

=============================================================================
