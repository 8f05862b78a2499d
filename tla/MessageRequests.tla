-------------------------- MODULE MessageRequests --------------------------
(***************************************************************************)
(* One conversation thread, its write lease and its ledger of message      *)
(* requests, as MongoConversationRepository keeps them in agent_threads    *)
(* and agent_message_requests, driven by the handlers of                   *)
(* POST .../messages/stream and POST .../message-requests/{id}/cancel.     *)
(*                                                                         *)
(* A handler is one HTTP call, and a completed record's result is named    *)
(* after the handler that wrote it.                                        *)
(* Every database call is one action, so handlers interleave between any   *)
(* two calls; a handler may crash between any two calls, and a write may   *)
(* fail without being applied.  Database calls run in worker threads, so a *)
(* call whose handler is cancelled is carried out all the same.  The       *)
(* LangGraph run is a single action whose outcome is a result, an error or *)
(* a cancellation.                                                         *)
(***************************************************************************)
EXTENDS Integers, Sequences

CONSTANTS
    Requests,     \* request_id values, all of one thread and one actor
    Handlers,     \* HTTP calls, each served once
    None,         \* no request, no handler
    LeasePeriod,  \* agent_thread_lease_seconds, in clock units
    MaxNow,       \* bound on the clock
    MaxMishaps    \* bound on handlers lost or cut off and failing calls together

ASSUME RequestsAssumption == None \notin Requests
ASSUME HandlersAssumption == None \notin Handlers
ASSUME LeaseAssumption == LeasePeriod \in Nat

VARIABLES
    now,       \* the wall clock the repository reads
    lease,     \* active_request_id and active_request_started_at
    nextSeq,   \* next_turn_seq
    messages,  \* the thread's messages, oldest first
    ledger,    \* agent_message_requests, one record per request
    pc,        \* the database call each handler makes next
    req,       \* the request each handler serves
    seq,       \* the user_turn_seq each handler carries
    seen,      \* the ledger status each handler read last
    want,      \* the terminal status each handler is writing
    after,     \* where each handler goes once its release is done
    late,      \* the call of each handler that outlives it, and what it writes
    mishaps    \* handlers lost or cut off and calls that raised so far

threadVars == <<lease, nextSeq, messages>>
localVars == <<req, seq, seen, want, after>>
vars == <<now, lease, nextSeq, messages, ledger, pc, req, seq, seen, want,
          after, late, mishaps>>

Active == {"accepted", "running"}
Retryable == {"failed", "cancelled"}
Terminal == Retryable \cup {"completed"}
Status == Active \cup Terminal \cup {"absent"}

Message == [req : Requests, role : {"user", "assistant"}, seq : Nat \ {0}]

Record == [status : Status, useq : Nat, updated : Nat,
           answer : Handlers \cup {None}]

PC == {"idle", "claim_new", "insert", "reread", "claim_retry",
       "update", "append", "start", "graph", "finalize", "terminal",
       "confirm", "release", "cleanup", "leave", "exit", "done"}

\* A call that outlives its handler; NoCall when there is none.
LateCall == [call : {"none", "start", "finalize", "terminal", "confirm", "release"},
             want : Terminal]
NoCall == [call |-> "none", want |-> "failed"]

Init ==
    /\ now = 0
    /\ lease = [holder |-> None, since |-> 0]
    /\ nextSeq = 1
    /\ messages = <<>>
    /\ ledger = [r \in Requests |-> [status |-> "absent", useq |-> 0,
                                     updated |-> 0, answer |-> None]]
    /\ pc = [w \in Handlers |-> "idle"]
    /\ req = [w \in Handlers |-> None]
    /\ seq = [w \in Handlers |-> 0]
    /\ seen = [w \in Handlers |-> "absent"]
    /\ want = [w \in Handlers |-> "failed"]
    /\ after = [w \in Handlers |-> "done"]
    /\ late = [w \in Handlers |-> NoCall]
    /\ mishaps = 0

-----------------------------------------------------------------------------
(* Helpers *)

\* "$lt": now - lease seconds, the test on started_at and on updated_at.
Stale(stamp) == stamp < now - LeasePeriod

\* The filter of _claim_thread: the thread is free, or this same request
\* holds a lease that has gone stale.
Claimable(r) ==
    \/ lease.holder = None
    \/ lease.holder = r /\ Stale(lease.since)

Claim(r) == lease' = [holder |-> r, since |-> now]

\* Mutant of TakeTurn: next_turn_seq is read and not advanced.
TakeTurnTwice(w) ==
    /\ seq' = [seq EXCEPT ![w] = nextSeq]
    /\ UNCHANGED nextSeq

\* last_turn_seq and next_turn_seq, assigned in the claiming update itself.
TakeTurn(w) ==
    /\ seq' = [seq EXCEPT ![w] = nextSeq]
    /\ nextSeq' = nextSeq + 1

\* Mutant of Said: the role is left out of the "$elemMatch".
SaidAnything(r, role) == \E i \in DOMAIN messages : messages[i].req = r

\* "$elemMatch" on messages: request r already has a message of this role.
Said(r, role) ==
    \E i \in DOMAIN messages : messages[i].req = r /\ messages[i].role = role

\* Mutant of MayAppend: the duplicate check is left out of the filter.
MayAppendAgain(w, role) == lease.holder = req[w]

\* Mutant of MayAppend: "active_request_id" is left out of the filter.
MayAppendUnleased(w, role) == ~Said(req[w], role)

\* The filter of both message writes: the lease, and no such message yet.
MayAppend(w, role) == lease.holder = req[w] /\ ~Said(req[w], role)

\* Neither written nor there already: "was not acknowledged".
Unacknowledged(w, role) == lease.holder # req[w] /\ ~Said(req[w], role)

Say(w, role, n) ==
    messages' = Append(messages, [req |-> req[w], role |-> role, seq |-> n])

\* "$set" on the record of request r; every such write stamps updated_at.
SetRecord(r, status, answer) ==
    ledger' = [ledger EXCEPT ![r] =
        [status |-> status, useq |-> ledger[r].useq,
         updated |-> now, answer |-> answer]]

\* The same, for the terminal write of status s: a result only with completion.
SetTerminal(w, s) ==
    SetRecord(req[w], s, IF s = "completed" THEN w ELSE None)

\* "$unset" of the lease, by request_id only.
Release(r) ==
    lease' = IF lease.holder = r THEN [holder |-> None, since |-> 0] ELSE lease

Goto(w, label) == pc' = [pc EXCEPT ![w] = label]

\* A terminal write of status s, made on the way to label next.
Ending(w, s, next) ==
    /\ Goto(w, "terminal")
    /\ want' = [want EXCEPT ![w] = s]
    /\ after' = [after EXCEPT ![w] = next]

\* Mutant of GiveBack: the early return keeps the lease.
KeepLease(w, next) == Goto(w, next) /\ UNCHANGED after

\* The lease is released on the way to label next.
GiveBack(w, next) ==
    /\ Goto(w, "release")
    /\ after' = [after EXCEPT ![w] = next]

\* A database call of this handler raises, and is not applied.
Raises ==
    /\ mishaps < MaxMishaps
    /\ mishaps' = mishaps + 1

-----------------------------------------------------------------------------
(* prepare_message_request *)

\* _prepare_existing_request up to its first write: a different content hash is
\* a conflict, a completed request is replayed, any other one is taken up again.
PrepareExisting(w, r) ==
    LET status == ledger[r].status IN
    /\ status # "absent"
    /\ \/ Goto(w, "done") /\ UNCHANGED seen
       \/ status = "completed" /\ Goto(w, "cleanup") /\ UNCHANGED seen
       \/ /\ status # "completed"
          /\ Goto(w, "claim_retry")
          /\ seen' = [seen EXCEPT ![w] = status]

\* POST messages/stream arrives: thread and scope are checked, then the ledger is
\* read.
Post(w, r) ==
    /\ pc[w] = "idle"
    /\ req' = [req EXCEPT ![w] = r]
    /\ \/ PrepareExisting(w, r)
       \/ /\ ledger[r].status = "absent"
          /\ Goto(w, "claim_new")
          /\ UNCHANGED seen
    /\ UNCHANGED <<now, threadVars, ledger, seq, want, after, late, mishaps>>

\* _claim_thread(allocate_user_turn=True): one atomic update, or ThreadBusyError.
ClaimNew(w) ==
    /\ pc[w] = "claim_new"
    /\ \/ /\ Claimable(req[w])
          /\ Claim(req[w])
          /\ TakeTurn(w)
          /\ Goto(w, "insert")
       \/ /\ ~Claimable(req[w])
          /\ Goto(w, "done")
          /\ UNCHANGED <<lease, nextSeq, seq>>
    /\ UNCHANGED <<now, messages, ledger, req, seen, want, after, late, mishaps>>

\* insert_one: the record is new, or its key is taken, or the call raises; in
\* the last two cases the lease is given back.
InsertRecord(w) ==
    /\ pc[w] = "insert"
    /\ \/ /\ ledger[req[w]].status = "absent"
          /\ ledger' = [ledger EXCEPT ![req[w]] =
                 [status |-> "accepted", useq |-> seq[w], updated |-> now, answer |-> None]]
          /\ Goto(w, "append")
          /\ UNCHANGED <<after, mishaps>>
       \/ /\ ledger[req[w]].status # "absent"
          /\ GiveBack(w, "reread")
          /\ UNCHANGED <<ledger, mishaps>>
       \/ /\ Raises
          /\ GiveBack(w, "done")
          /\ UNCHANGED ledger
    /\ UNCHANGED <<now, threadVars, req, seq, seen, want, late>>

\* After a duplicate key the record is read again and taken up as an existing one.
RereadLedger(w) ==
    /\ pc[w] = "reread"
    /\ PrepareExisting(w, req[w])
    /\ UNCHANGED <<now, threadVars, ledger, req, seq, want, after, late, mishaps>>

ClaimRetry(w) ==
    /\ pc[w] = "claim_retry"
    /\ \/ Claimable(req[w]) /\ Claim(req[w]) /\ Goto(w, "update")
       \/ ~Claimable(req[w]) /\ Goto(w, "done") /\ UNCHANGED lease
    /\ UNCHANGED <<now, nextSeq, messages, ledger, localVars, late, mishaps>>

\* Mutant of Resumable: "status" is left out of the filter.
ResumableAny(w) == seen[w] \in Active => Stale(ledger[req[w]].updated)

\* The filter of the retry's find_one_and_update depends on the status read
\* earlier: an active record must also be stale.
Resumable(w) ==
    LET record == ledger[req[w]] IN
    IF seen[w] \in Active
      THEN record.status \in Active /\ Stale(record.updated)
      ELSE record.status \in Retryable

ResumeRecord(w) ==
    /\ pc[w] = "update"
    /\ \/ /\ Resumable(w)
          /\ SetRecord(req[w], "accepted", None)
          /\ seq' = [seq EXCEPT ![w] = ledger[req[w]].useq]
          /\ Goto(w, "append")
          /\ UNCHANGED after
       \/ /\ ~Resumable(w)
          /\ GiveBack(w, "done")
          /\ UNCHANGED <<ledger, seq>>
    /\ UNCHANGED <<now, threadVars, req, seen, want, late, mishaps>>

\* Mutant of QuestionLost: the error is swallowed and the run goes on.
QuestionIgnored(w) == Goto(w, "start") /\ UNCHANGED <<want, after>>

\* prepare_stream_message: _mark_failed(FAILED), and the call ends with the error.
QuestionLost(w) == Ending(w, "failed", "done")

\* append_message_once: pushed by the lease holder unless it is there already;
\* a message neither pushed nor present, or a call that raises, fails the request.
AppendUserMessage(w) ==
    /\ pc[w] = "append"
    /\ \/ /\ MayAppend(w, "user")
          /\ Say(w, "user", seq[w])
          /\ Goto(w, "start")
          /\ UNCHANGED <<want, after, mishaps>>
       \/ /\ Said(req[w], "user")
          /\ Goto(w, "start")
          /\ UNCHANGED <<messages, want, after, mishaps>>
       \/ /\ Unacknowledged(w, "user")
          /\ QuestionLost(w)
          /\ UNCHANGED <<messages, mishaps>>
       \/ Raises /\ QuestionLost(w) /\ UNCHANGED messages
    /\ UNCHANGED <<now, lease, nextSeq, ledger, req, seq, seen, late>>

-----------------------------------------------------------------------------
(* stream_message *)

\* mark_message_request_running: a compare-and-set from accepted.
StartRun(w) ==
    /\ pc[w] = "start"
    /\ \/ /\ ledger[req[w]].status = "accepted"
          /\ SetRecord(req[w], "running", ledger[req[w]].answer)
          /\ Goto(w, "graph")
          /\ UNCHANGED <<want, after, mishaps>>
       \/ /\ ledger[req[w]].status # "accepted"
          /\ Ending(w, "failed", "cleanup")
          /\ UNCHANGED <<ledger, mishaps>>
       \/ Raises /\ Ending(w, "failed", "cleanup") /\ UNCHANGED ledger
    /\ UNCHANGED <<now, threadVars, req, seq, seen, late>>

\* The graph run: a verified answer, an error, or a cancellation (the client
\* left, or a cancel call reached the run in this process).
RunGraph(w) ==
    /\ pc[w] = "graph"
    /\ \/ Goto(w, "finalize") /\ UNCHANGED <<want, after>>
       \/ \E s \in Retryable : Ending(w, s, "cleanup")
    /\ UNCHANGED <<now, threadVars, ledger, req, seq, seen, late, mishaps>>

\* finalize_stream_response: the answer and its turn number in one update guarded
\* by the lease.
FinalizeResponse(w) ==
    /\ pc[w] = "finalize"
    /\ \/ /\ MayAppend(w, "assistant")
          /\ Say(w, "assistant", nextSeq)
          /\ nextSeq' = nextSeq + 1
          /\ Ending(w, "completed", "cleanup")
          /\ UNCHANGED mishaps
       \/ /\ Said(req[w], "assistant")
          /\ Ending(w, "completed", "cleanup")
          /\ UNCHANGED <<messages, nextSeq, mishaps>>
       \/ /\ Unacknowledged(w, "assistant")
          /\ Ending(w, "failed", "cleanup")
          /\ UNCHANGED <<messages, nextSeq, mishaps>>
       \/ /\ Raises
          /\ Ending(w, "failed", "cleanup")
          /\ UNCHANGED <<messages, nextSeq>>
    /\ UNCHANGED <<now, lease, ledger, req, seq, seen, late>>

\* What follows a terminal write that failed: stream_message turns a failed
\* completion into a failure, _mark_failed swallows every error.
GiveUpEnding(w) ==
    \/ want[w] = "completed" /\ Ending(w, "failed", "cleanup")
    \/ want[w] # "completed" /\ Goto(w, after[w]) /\ UNCHANGED <<want, after>>

\* mark_message_request_terminal, its find_one_and_update: any active record of
\* this request, whichever run it belongs to.
MarkTerminal(w) ==
    /\ pc[w] = "terminal"
    /\ \/ /\ ledger[req[w]].status \in Active
          /\ SetTerminal(w, want[w])
          /\ Goto(w, "release")
          /\ UNCHANGED <<want, after, mishaps>>
       \/ /\ ledger[req[w]].status \notin Active
          /\ Goto(w, "confirm")
          /\ UNCHANGED <<ledger, want, after, mishaps>>
       \/ Raises /\ GiveUpEnding(w) /\ UNCHANGED ledger
    /\ UNCHANGED <<now, threadVars, req, seq, seen, late>>

\* ... and its second read when nothing matched.
ConfirmTerminal(w) ==
    /\ pc[w] = "confirm"
    /\ \/ /\ ledger[req[w]].status = want[w]
          /\ Goto(w, "release")
          /\ UNCHANGED <<want, after>>
       \/ ledger[req[w]].status # want[w] /\ GiveUpEnding(w)
    /\ UNCHANGED <<now, threadVars, ledger, req, seq, seen, late, mishaps>>

\* _release_thread.
ReleaseThread(w) ==
    /\ pc[w] = "release"
    /\ Release(req[w])
    /\ Goto(w, after[w])
    /\ UNCHANGED <<now, nextSeq, messages, ledger, localVars, late, mishaps>>

\* cancel_stream_message on request r, on the way to label next: the ledger is
\* read, and an active record gets a cancelled ending.
Cancel(w, r, next) ==
    \/ ledger[r].status \in Active /\ Ending(w, "cancelled", next)
    \/ /\ ledger[r].status \notin Active
       /\ Goto(w, next)
       /\ UNCHANGED <<want, after>>

\* POST message-requests/{id}/cancel arrives.
PostCancel(w, r) ==
    /\ pc[w] = "idle"
    /\ req' = [req EXCEPT ![w] = r]
    /\ Cancel(w, r, "done")
    /\ UNCHANGED <<now, threadVars, ledger, seq, seen, late, mishaps>>

\* cleanup_stream runs it for every stream that has ended or whose client left.
CleanupStream(w) ==
    /\ \/ pc[w] = "cleanup" /\ Cancel(w, req[w], "done")
       \/ pc[w] = "leave" /\ Cancel(w, req[w], "exit")
    /\ UNCHANGED <<now, threadVars, ledger, req, seq, seen, late, mishaps>>

\* aclose after that: GeneratorExit at a yield of the try block is one more
\* cancelled ending.
ExitStream(w) ==
    /\ pc[w] = "exit"
    /\ Ending(w, "cancelled", "done")
    /\ UNCHANGED <<now, threadVars, ledger, req, seq, seen, late, mishaps>>

-----------------------------------------------------------------------------
(* Database calls that outlive their handler *)

\* The handler's task is cancelled while a call of its try block is under way:
\* it turns to the cancelled ending; within _mark_failed it ends at once.
CutOff(w) ==
    LET marking == pc[w] \in {"terminal", "confirm", "release"} /\ after[w] = "cleanup"
    IN
    /\ late[w] = NoCall
    /\ mishaps < MaxMishaps
    /\ \/ /\ pc[w] \in {"start", "finalize"} \/ (marking /\ want[w] = "completed")
          /\ Ending(w, "cancelled", "cleanup")
       \/ /\ marking /\ want[w] # "completed"
          /\ Goto(w, "cleanup")
          /\ UNCHANGED <<want, after>>
    /\ late' = [late EXCEPT ![w] = [call |-> pc[w], want |-> want[w]]]
    /\ mishaps' = mishaps + 1
    /\ UNCHANGED <<now, threadVars, ledger, req, seq, seen>>

LateGoto(w, call) ==
    late' = [late EXCEPT ![w] = [call |-> call, want |-> late[w].want]]
LateOver(w) == late' = [late EXCEPT ![w] = NoCall]

\* The rest of a mark_message_request_running.
LateStart(w) ==
    /\ late[w].call = "start"
    /\ \/ /\ ledger[req[w]].status = "accepted"
          /\ SetRecord(req[w], "running", ledger[req[w]].answer)
       \/ ledger[req[w]].status # "accepted" /\ UNCHANGED ledger
    /\ LateOver(w)
    /\ UNCHANGED <<now, threadVars, pc, localVars, mishaps>>

\* The rest of a finalize_stream_response.
LateAnswer(w) ==
    /\ late[w].call = "finalize"
    /\ \/ /\ MayAppend(w, "assistant")
          /\ Say(w, "assistant", nextSeq)
          /\ nextSeq' = nextSeq + 1
       \/ ~MayAppend(w, "assistant") /\ UNCHANGED <<messages, nextSeq>>
    /\ LateOver(w)
    /\ UNCHANGED <<now, lease, ledger, pc, localVars, mishaps>>

\* The rest of a mark_message_request_terminal: its update, its second read and
\* its release.
LateTerminal(w) ==
    /\ late[w].call = "terminal"
    /\ \/ /\ ledger[req[w]].status \in Active
          /\ SetTerminal(w, late[w].want)
          /\ LateGoto(w, "release")
       \/ /\ ledger[req[w]].status \notin Active
          /\ LateGoto(w, "confirm")
          /\ UNCHANGED ledger
    /\ UNCHANGED <<now, threadVars, pc, localVars, mishaps>>

LateConfirm(w) ==
    /\ late[w].call = "confirm"
    /\ \/ ledger[req[w]].status = late[w].want /\ LateGoto(w, "release")
       \/ ledger[req[w]].status # late[w].want /\ LateOver(w)
    /\ UNCHANGED <<now, threadVars, ledger, pc, localVars, mishaps>>

LateRelease(w) ==
    /\ late[w].call = "release"
    /\ Release(req[w])
    /\ LateOver(w)
    /\ UNCHANGED <<now, nextSeq, messages, ledger, pc, localVars, mishaps>>

LateStep(w) ==
    \/ LateStart(w) \/ LateAnswer(w) \/ LateTerminal(w) \/ LateConfirm(w)
    \/ LateRelease(w)

-----------------------------------------------------------------------------
(* The environment *)

\* The client leaves at a yield: before the try block at the accepted event, in
\* it at a progress event or before the answer is saved.
Leave(w) ==
    /\ pc[w] \in {"start", "graph", "finalize"}
    /\ Goto(w, IF pc[w] = "start" THEN "cleanup" ELSE "leave")
    /\ UNCHANGED <<now, threadVars, ledger, localVars, late, mishaps>>

\* The handler's process stops, or its task is cancelled outside every try block.
Crash(w) ==
    /\ pc[w] \notin {"idle", "done"}
    /\ mishaps < MaxMishaps
    /\ mishaps' = mishaps + 1
    /\ Goto(w, "done")
    /\ UNCHANGED <<now, threadVars, ledger, localVars, late>>

Tick ==
    /\ now < MaxNow
    /\ now' = now + 1
    /\ UNCHANGED <<threadVars, ledger, pc, localVars, late, mishaps>>

Step(w) ==
    \/ ClaimNew(w) \/ InsertRecord(w) \/ RereadLedger(w)
    \/ ClaimRetry(w) \/ ResumeRecord(w) \/ AppendUserMessage(w)
    \/ StartRun(w) \/ RunGraph(w) \/ FinalizeResponse(w)
    \/ MarkTerminal(w) \/ ConfirmTerminal(w) \/ ReleaseThread(w)
    \/ CleanupStream(w) \/ ExitStream(w)

Arrive(w) == \E r \in Requests : Post(w, r) \/ PostCancel(w, r)

Next ==
    \/ \E w \in Handlers : Arrive(w) \/ Step(w) \/ Leave(w) \/ Crash(w)
                       \/ CutOff(w) \/ LateStep(w)
    \/ Tick

Spec == Init /\ [][Next]_vars

\* A handler that has started runs on: asyncio schedules every ready task, and the
\* executor every call.  Calls need not arrive, clients need not leave, clocks need
\* not advance, crashes need not happen.
FairSpec == Spec /\ \A w \in Handlers : WF_vars(Step(w)) /\ WF_vars(LateStep(w))

-----------------------------------------------------------------------------
(* Properties *)

\* The two collections and the handlers keep the shapes their code gives them.
StoreTypeOK ==
    /\ now \in Nat
    /\ lease \in [holder : Requests \cup {None}, since : Nat]
    /\ nextSeq \in Nat \ {0}
    /\ messages \in Seq(Message)
    /\ ledger \in [Requests -> Record]
    /\ mishaps \in Nat

HandlerTypeOK ==
    /\ pc \in [Handlers -> PC]
    /\ req \in [Handlers -> Requests \cup {None}]
    /\ seq \in [Handlers -> Nat]
    /\ seen \in [Handlers -> Status]
    /\ want \in [Handlers -> Terminal]
    /\ after \in [Handlers -> {"reread", "cleanup", "exit", "done"}]
    /\ late \in [Handlers -> LateCall]

TypeOK == StoreTypeOK /\ HandlerTypeOK

\* However often a request is retried, taken over or sent twice, the thread holds
\* at most one message of it in each role.
OncePerRole ==
    \A i, j \in DOMAIN messages :
        /\ messages[i].req = messages[j].req
        /\ messages[i].role = messages[j].role
        => i = j

\* Turn numbers handed out by the claim of a new turn and by the finalizing
\* update never meet: no two messages carry the same one.
TurnSeqUnique ==
    \A i, j \in DOMAIN messages : messages[i].seq = messages[j].seq => i = j

\* A completed request has its answer in the thread: the ledger write comes
\* after the thread write on every path that reaches it.
CompletedIsAnswered ==
    \A r \in Requests : ledger[r].status = "completed" =>
        \E i \in DOMAIN messages :
            messages[i].req = r /\ messages[i].role = "assistant"

\* An answer comes after its question, in the thread and in turn numbers, also
\* when the question was appended by another attempt than the answer.
AnswerFollowsQuestion ==
    \A j \in DOMAIN messages : messages[j].role = "assistant" =>
        \E i \in 1 .. j - 1 : /\ messages[i].req = messages[j].req
                              /\ messages[i].role = "user"
                              /\ messages[i].seq < messages[j].seq

\* What the thread holds is final: messages are never changed, removed or moved,
\* and a completed request keeps its result, whatever late handlers do.
HistoryIsFinal ==
    [][/\ Len(messages') >= Len(messages)
       /\ SubSeq(messages', 1, Len(messages)) = messages
       /\ \A r \in Requests :
            ledger[r].status = "completed" => ledger'[r] = ledger[r]]_vars

\* A request never takes the lease from another one: it passes through free
\* (what ThreadIsALog says of the writer alone).
LeaseNotPreempted ==
    [][lease'.holder = lease.holder \/ None \in {lease.holder, lease'.holder}]_vars

\* The result a request is settled with: that of its completed record.
Settled(r) == IF ledger[r].status = "completed" THEN ledger[r].answer ELSE None

Log == INSTANCE ThreadLog WITH
    Results <- Handlers, writer <- lease.holder, issued <- nextSeq - 1,
    log <- messages, result <- [r \in Requests |-> Settled(r)]

\* The two collections, the lease and the handlers, late ones included, together
\* keep a log with one writer: only the lease holder writes, and a request is
\* settled once its answer is in the thread.
ThreadIsALog == Log!Spec

\* Where no handler is lost and no call fails, a lease that was taken is given
\* back, whatever mixture of runs, retries and cancellations meets on it.
LeaseIsReleased ==
    \A r \in Requests : lease.holder = r ~> lease.holder # r
-----------------------------------------------------------------------------
(* What the documents say of the code and its steps do not keep *)

\* docs/开发记录.md:312, "only the same request_id may recover" a stale lease: a
\* lease nobody is going to release is held by a request that can still be
\* taken up again.
HeldLeaseIsRecoverable ==
    \A r \in Requests : lease.holder = r =>
        \/ \E w \in Handlers : req[w] = r /\ pc[w] \notin {"idle", "done"}
        \/ ledger[r].status # "completed"

=============================================================================
