----------------------- MODULE MessageRequestsProofs -----------------------
(***************************************************************************)
(* What MessageRequests promises for every set of requests and handlers,   *)
(* every lease period and any number of crashes and failing calls.         *)
(***************************************************************************)
EXTENDS MessageRequests, TLAPS

IsUser(i) == messages[i].role = "user"
IsAssistant(i) == messages[i].role = "assistant"

\* A handler that has started serves a request of the thread; only such a handler
\* can have left a call behind.
Serving ==
    \A w \in Handlers :
        IF pc[w] = "idle" THEN late[w] = NoCall ELSE req[w] \in Requests

\* Every turn number that is out (on a message, in the ledger, or carried by a
\* handler that has not inserted its record yet) was issued by the thread.
SeqIssued ==
    /\ \A i \in DOMAIN messages : messages[i].seq < nextSeq
    /\ \A r \in Requests : ledger[r].status # "absent" =>
            ledger[r].useq \in 1 .. nextSeq - 1
    /\ \A w \in Handlers : pc[w] = "insert" => seq[w] \in 1 .. nextSeq - 1

\* A turn number in transit belongs to its handler alone.
SeqInTransit ==
    \A w \in Handlers : pc[w] = "insert" =>
        /\ \A i \in DOMAIN messages : messages[i].seq # seq[w]
        /\ \A r \in Requests : ledger[r].status # "absent" => ledger[r].useq # seq[w]
        /\ \A v \in Handlers : pc[v] = "insert" /\ seq[v] = seq[w] => v = w

\* The ledger owns the turn numbers of questions, one for each request.
SeqOwned ==
    /\ \A r, q \in Requests :
            /\ ledger[r].status # "absent"
            /\ ledger[q].status # "absent"
            /\ ledger[r].useq = ledger[q].useq
            => r = q
    /\ \A i \in DOMAIN messages : IsUser(i) =>
            /\ ledger[messages[i].req].status # "absent"
            /\ messages[i].seq = ledger[messages[i].req].useq
    /\ \A i \in DOMAIN messages, r \in Requests :
            IsAssistant(i) /\ ledger[r].status # "absent" =>
                messages[i].seq # ledger[r].useq
    /\ \A i, j \in DOMAIN messages :
            IsAssistant(i) /\ IsAssistant(j) /\ messages[i].seq = messages[j].seq
            => i = j
    /\ \A w \in Handlers : pc[w] = "append" =>
            /\ ledger[req[w]].status # "absent"
            /\ seq[w] = ledger[req[w]].useq

\* A run that has passed the prepare phase has its question in the thread, and a
\* handler about to complete a request has its answer there.
Backed ==
    /\ \A w \in Handlers : pc[w] \in {"start", "graph", "finalize"} =>
            Said(req[w], "user")
    /\ \A w \in Handlers :
            pc[w] \in {"terminal", "confirm"} /\ want[w] = "completed" =>
                Said(req[w], "assistant")
    /\ \A w \in Handlers :
            /\ late[w].call = "finalize" => Said(req[w], "user")
            /\ late[w].call = "terminal" /\ late[w].want = "completed" =>
                Said(req[w], "assistant")

IInv ==
    /\ TypeOK
    /\ Serving
    /\ SeqIssued
    /\ SeqInTransit
    /\ SeqOwned
    /\ OncePerRole
    /\ Backed
    /\ CompletedIsAnswered
    /\ AnswerFollowsQuestion

-----------------------------------------------------------------------------
(* Lemmas on the helpers *)

\* Appending to a sequence of members of S.
LEMMA AppendFacts ==
    ASSUME NEW S, NEW s \in Seq(S), NEW e \in S
    PROVE  /\ Append(s, e) \in Seq(S)
           /\ Len(Append(s, e)) = Len(s) + 1
           /\ \A i \in 1 .. Len(s) : Append(s, e)[i] = s[i]
           /\ Append(s, e)[Len(s) + 1] = e
OBVIOUS

\* A sequence over S holds members of S.
LEMMA ElementFacts ==
    ASSUME NEW S, NEW s \in Seq(S)
    PROVE  \A i \in DOMAIN s : s[i] \in S
OBVIOUS

\* Every message names a request of the thread and a positive turn number.
LEMMA MessageFacts ==
    ASSUME TypeOK
    PROVE  \A i \in DOMAIN messages : /\ messages[i].req \in Requests
                                      /\ messages[i].seq \in Nat \ {0}
<1>1. messages \in Seq(Message)
    BY DEF TypeOK, StoreTypeOK
<1>2. \A i \in DOMAIN messages : messages[i] \in Message
    BY <1>1, ElementFacts
<1> QED
    BY <1>2 DEF Message

\* The handlers' work, the arrivals, the losses and the clock, action by action.
LEMMA NextCases ==
    ASSUME Next
    PROVE  \/ \E w \in Handlers, r \in Requests : Post(w, r) \/ PostCancel(w, r)
           \/ \E w \in Handlers :
                \/ ClaimNew(w) \/ InsertRecord(w) \/ RereadLedger(w)
                \/ ClaimRetry(w) \/ ResumeRecord(w) \/ AppendUserMessage(w)
                \/ StartRun(w) \/ RunGraph(w) \/ FinalizeResponse(w)
                \/ MarkTerminal(w) \/ ConfirmTerminal(w) \/ ReleaseThread(w)
                \/ CleanupStream(w) \/ ExitStream(w)
           \/ \E w \in Handlers :
                \/ LateStart(w) \/ LateAnswer(w) \/ LateTerminal(w)
                \/ LateConfirm(w) \/ LateRelease(w)
                \/ Leave(w) \/ Crash(w) \/ CutOff(w)
           \/ Tick
BY DEF Next, Arrive, Step, LateStep

\* A handler at work can name its request.
LEMMA ServesRequest ==
    ASSUME Serving, NEW w \in Handlers, pc[w] # "idle" \/ late[w].call # "none"
    PROVE  req[w] \in Requests
BY DEF Serving, NoCall

\* Say adds one well-formed message at the end and moves nothing.
LEMMA SayAppends ==
    ASSUME TypeOK, NEW w \in Handlers, req[w] \in Requests,
           NEW role \in {"user", "assistant"}, NEW n \in Nat \ {0}, Say(w, role, n)
    PROVE  /\ messages' \in Seq(Message)
           /\ DOMAIN messages = 1 .. Len(messages)
           /\ DOMAIN messages' = 1 .. Len(messages) + 1
           /\ Len(messages) \in Nat
           /\ Len(messages') = Len(messages) + 1
           /\ \A i \in DOMAIN messages : messages'[i] = messages[i]
           /\ messages'[Len(messages) + 1] =
                [req |-> req[w], role |-> role, seq |-> n]
<1> DEFINE m == [req |-> req[w], role |-> role, seq |-> n]
<1>1. m \in Message
    BY DEF Message
<1>2. messages \in Seq(Message) /\ messages' = Append(messages, m)
    BY DEF TypeOK, StoreTypeOK, Say
<1> HIDE DEF m
<1>3. /\ messages' \in Seq(Message)
      /\ Len(messages') = Len(messages) + 1
      /\ \A i \in 1 .. Len(messages) : messages'[i] = messages[i]
      /\ messages'[Len(messages) + 1] = m
    BY <1>1, <1>2, AppendFacts
<1>4. /\ DOMAIN messages = 1 .. Len(messages)
      /\ DOMAIN messages' = 1 .. Len(messages')
      /\ Len(messages) \in Nat
    BY <1>2, <1>3
<1> QED
    BY <1>3, <1>4 DEF m

\* SetRecord rewrites one record, keeps its turn number and leaves the others.
LEMMA SetRecordUpdates ==
    ASSUME TypeOK, NEW r \in Requests, NEW status \in Status,
           NEW answer \in Handlers \cup {None}, SetRecord(r, status, answer)
    PROVE  /\ ledger' \in [Requests -> Record]
           /\ ledger'[r].status = status
           /\ ledger'[r].useq = ledger[r].useq
           /\ \A q \in Requests : q # r => ledger'[q] = ledger[q]
<1>1. ledger \in [Requests -> Record] /\ now \in Nat
    BY DEF TypeOK, StoreTypeOK
<1>2. ledger[r].useq \in Nat
    BY <1>1 DEF Record
<1>3. [status |-> status, useq |-> ledger[r].useq, updated |-> now,
       answer |-> answer] \in Record
    BY <1>1, <1>2 DEF Record
<1> QED
    BY <1>1, <1>3 DEF SetRecord

-----------------------------------------------------------------------------
(* Type correctness *)

\* An empty thread is well typed.
LEMMA TypeInit == Init => TypeOK /\ Serving
<1> SUFFICES ASSUME Init PROVE TypeOK /\ Serving
    OBVIOUS
<1>1. StoreTypeOK
    <2>1. ledger \in [Requests -> Record]
        BY DEF Init, Record, Status
    <2> QED
        BY <2>1 DEF Init, StoreTypeOK
<1>2. HandlerTypeOK /\ Serving
    BY DEF Init, HandlerTypeOK, Serving, PC, Status, Terminal, Retryable, LateCall, NoCall
<1> QED
    BY <1>1, <1>2 DEF TypeOK

\* Every step keeps the types of the stores.
LEMMA StoreTypeStep ==
    ASSUME TypeOK, Serving, SeqIssued, SeqOwned, [Next]_vars
    PROVE  StoreTypeOK'
<1>1. ASSUME NEW w \in Handlers, NEW r \in Requests, Post(w, r) \/ PostCancel(w, r)
      PROVE  StoreTypeOK'
    BY <1>1 DEF TypeOK, StoreTypeOK, Post, PostCancel, threadVars
<1>2. ASSUME NEW w \in Handlers,
             \/ RereadLedger(w) \/ CleanupStream(w) \/ ExitStream(w) \/ RunGraph(w)
             \/ ConfirmTerminal(w) \/ LateConfirm(w) \/ Leave(w) \/ Crash(w) \/ CutOff(w)
      PROVE  StoreTypeOK'
    BY <1>2 DEF TypeOK, StoreTypeOK, RereadLedger, CleanupStream, ExitStream, RunGraph,
                ConfirmTerminal, LateConfirm, Leave, Crash, CutOff, threadVars
<1>3. ASSUME NEW w \in Handlers,
             ClaimNew(w) \/ ClaimRetry(w) \/ ReleaseThread(w) \/ LateRelease(w)
      PROVE  StoreTypeOK'
    <2> USE DEF ClaimNew, ClaimRetry, ReleaseThread, LateRelease
    <2>1. req[w] \in Requests
        BY <1>3, ServesRequest
    <2>2. lease' \in [holder : Requests \cup {None}, since : Nat]
        BY <1>3, <2>1 DEF TypeOK, StoreTypeOK, Claim, Release
    <2> QED
        BY <1>3, <2>2 DEF TypeOK, StoreTypeOK, TakeTurn
<1>4. ASSUME NEW w \in Handlers, InsertRecord(w)
      PROVE  StoreTypeOK'
    <2>1. req[w] \in Requests
        BY <1>4, ServesRequest DEF InsertRecord
    <2>2. ledger' \in [Requests -> Record]
        BY <1>4, <2>1 DEF TypeOK, StoreTypeOK, HandlerTypeOK, InsertRecord, Record,
                          Status, Active
    <2> QED
        BY <1>4, <2>2 DEF TypeOK, StoreTypeOK, InsertRecord, Raises, threadVars
<1>5. ASSUME NEW w \in Handlers,
             \/ ResumeRecord(w) \/ StartRun(w) \/ MarkTerminal(w) \/ LateStart(w)
             \/ LateTerminal(w)
      PROVE  StoreTypeOK'
    <2> USE DEF ResumeRecord, StartRun, MarkTerminal, LateStart, LateTerminal
    <2>1. req[w] \in Requests
        BY <1>5, ServesRequest
    <2>2. /\ ledger \in [Requests -> Record] /\ want[w] \in Status
          /\ late[w].want \in Status
        BY <2>1 DEF TypeOK, StoreTypeOK, HandlerTypeOK, Status, LateCall
    <2>3. ledger[req[w]].answer \in Handlers \cup {None}
        BY <2>1, <2>2 DEF Record
    <2>4. "accepted" \in Status /\ "running" \in Status
        BY DEF Status, Active
    <2>5. ASSUME NEW status \in Status, NEW answer \in Handlers \cup {None},
                 SetRecord(req[w], status, answer)
          PROVE  ledger' \in [Requests -> Record]
        BY <2>1, <2>5, SetRecordUpdates
    <2>6. ledger' \in [Requests -> Record]
        <3>1. CASE ResumeRecord(w)
            BY <3>1, <2>2, <2>4, <2>5
        <3>2. CASE StartRun(w) \/ LateStart(w)
            BY <3>2, <2>2, <2>3, <2>4, <2>5
        <3>3. CASE MarkTerminal(w) \/ LateTerminal(w)
            BY <3>3, <2>2, <2>5 DEF SetTerminal
        <3> QED
            BY <1>5, <3>1, <3>2, <3>3
    <2> QED
        BY <1>5, <2>6 DEF TypeOK, StoreTypeOK, Raises, threadVars
<1>6. ASSUME NEW w \in Handlers, AppendUserMessage(w)
      PROVE  StoreTypeOK'
    <2>1. req[w] \in Requests
        BY <1>6, ServesRequest DEF AppendUserMessage
    <2>2. seq[w] \in Nat \ {0}
        BY <1>6, <2>1 DEF AppendUserMessage, SeqOwned, SeqIssued, TypeOK, HandlerTypeOK
    <2>3. messages' \in Seq(Message)
        <3>1. CASE Say(w, "user", seq[w])
            BY <3>1, <2>1, <2>2, SayAppends
        <3> QED
            BY <1>6, <3>1 DEF AppendUserMessage, TypeOK, StoreTypeOK
    <2> QED
        BY <1>6, <2>3 DEF TypeOK, StoreTypeOK, AppendUserMessage, Raises
<1>7. ASSUME NEW w \in Handlers, FinalizeResponse(w) \/ LateAnswer(w)
      PROVE  StoreTypeOK'
    <2> USE DEF FinalizeResponse, LateAnswer
    <2>1. req[w] \in Requests
        BY <1>7, ServesRequest
    <2>2. messages' \in Seq(Message)
        <3>1. CASE Say(w, "assistant", nextSeq)
            BY <3>1, <2>1, SayAppends DEF TypeOK, StoreTypeOK
        <3> QED
            BY <1>7, <3>1 DEF TypeOK, StoreTypeOK
    <2> QED
        BY <1>7, <2>2 DEF TypeOK, StoreTypeOK, Raises
<1>8. CASE Tick
    BY <1>8 DEF TypeOK, StoreTypeOK, Tick, threadVars
<1>9. CASE UNCHANGED vars
    BY <1>9 DEF TypeOK, StoreTypeOK, vars
<1> QED
    BY NextCases, <1>1, <1>2, <1>3, <1>4, <1>5, <1>6, <1>7, <1>8, <1>9

\* Every step keeps the types of the handlers, and a handler keeps the request it
\* arrived with.
LEMMA HandlerTypeStep ==
    ASSUME TypeOK, Serving, [Next]_vars
    PROVE  HandlerTypeOK' /\ Serving'
<1> USE DEF TypeOK, HandlerTypeOK, Serving, PC
<1>0. \A r \in Requests : ledger[r].status \in Status
    BY DEF StoreTypeOK, Record
<1>1. ASSUME NEW w \in Handlers, NEW r \in Requests, Post(w, r) \/ PostCancel(w, r)
      PROVE  HandlerTypeOK' /\ Serving'
    <2>1. CASE Post(w, r)
        BY <1>0, <2>1 DEF Post, PrepareExisting, Goto
    <2>2. CASE PostCancel(w, r)
        BY <2>2 DEF PostCancel, Cancel, Ending, Goto, Terminal, Retryable
    <2> QED
        BY <1>1, <2>1, <2>2
<1>2. ASSUME NEW w \in Handlers, RereadLedger(w)
      PROVE  HandlerTypeOK' /\ Serving'
    BY <1>0, <1>2 DEF RereadLedger, PrepareExisting, Goto
<1>3. ASSUME NEW w \in Handlers, CleanupStream(w) \/ ExitStream(w) \/ RunGraph(w)
      PROVE  HandlerTypeOK' /\ Serving'
    BY <1>3 DEF CleanupStream, ExitStream, RunGraph, Cancel, Ending, Goto, Terminal,
                Retryable
<1>4. ASSUME NEW w \in Handlers, ClaimNew(w)
      PROVE  HandlerTypeOK' /\ Serving'
    <2>1. nextSeq \in Nat
        BY DEF StoreTypeOK
    <2> QED
        BY <1>4, <2>1 DEF ClaimNew, TakeTurn, Goto
<1>5. ASSUME NEW w \in Handlers,
             ClaimRetry(w) \/ ReleaseThread(w) \/ Leave(w) \/ Crash(w)
      PROVE  HandlerTypeOK' /\ Serving'
    BY <1>5 DEF ClaimRetry, ReleaseThread, Leave, Crash, Goto, localVars
<1>6. ASSUME NEW w \in Handlers, InsertRecord(w)
      PROVE  HandlerTypeOK' /\ Serving'
    BY <1>6 DEF InsertRecord, GiveBack, Goto
<1>7. ASSUME NEW w \in Handlers, ResumeRecord(w)
      PROVE  HandlerTypeOK' /\ Serving'
    <2>1. req[w] \in Requests
        BY <1>7, ServesRequest DEF ResumeRecord
    <2>2. ledger[req[w]].useq \in Nat
        BY <2>1 DEF StoreTypeOK, Record
    <2> QED
        BY <1>7, <2>2 DEF ResumeRecord, GiveBack, Goto
<1>8. ASSUME NEW w \in Handlers, AppendUserMessage(w) \/ StartRun(w)
      PROVE  HandlerTypeOK' /\ Serving'
    BY <1>8 DEF AppendUserMessage, StartRun, QuestionLost, Ending, Goto, Terminal,
                Retryable
<1>9. ASSUME NEW w \in Handlers, FinalizeResponse(w)
      PROVE  HandlerTypeOK' /\ Serving'
    BY <1>9 DEF FinalizeResponse, Ending, Goto, Terminal, Retryable
<1>10. ASSUME NEW w \in Handlers, MarkTerminal(w) \/ ConfirmTerminal(w)
       PROVE  HandlerTypeOK' /\ Serving'
    BY <1>10 DEF MarkTerminal, ConfirmTerminal, GiveUpEnding, Ending, Goto, Terminal,
                 Retryable
<1>11. CASE Tick \/ UNCHANGED vars
    BY <1>11 DEF Tick, vars, localVars
<1>12. ASSUME NEW w \in Handlers,
              \/ LateStart(w) \/ LateAnswer(w) \/ LateTerminal(w) \/ LateConfirm(w)
              \/ LateRelease(w)
       PROVE  HandlerTypeOK' /\ Serving'
    <2>1. UNCHANGED <<pc, req, seq, seen, want, after>>
        BY <1>12 DEF LateStart, LateAnswer, LateTerminal, LateConfirm, LateRelease,
                     localVars
    <2>2. late[w].call # "none" /\ pc[w] # "idle"
        BY <1>12 DEF LateStart, LateAnswer, LateTerminal, LateConfirm, LateRelease, NoCall
    <2>3. late[w] \in LateCall /\ NoCall \in LateCall
        BY DEF LateCall, NoCall, Terminal, Retryable
    <2>4. PICK call \in LateCall : late' = [late EXCEPT ![w] = call]
        BY <1>12, <2>3 DEF LateStart, LateAnswer, LateTerminal, LateConfirm,
                           LateRelease, LateGoto, LateOver, LateCall
    <2> QED
        BY <2>1, <2>2, <2>4
<1>13. ASSUME NEW w \in Handlers, CutOff(w)
       PROVE  HandlerTypeOK' /\ Serving'
    <2>1. [call |-> pc[w], want |-> want[w]] \in LateCall
        BY <1>13 DEF CutOff, LateCall
    <2> QED
        BY <1>13, <2>1 DEF CutOff, Ending, Goto, Terminal, Retryable
<1> QED
    BY NextCases, <1>1, <1>2, <1>3, <1>4, <1>5, <1>6, <1>7, <1>8, <1>9, <1>10, <1>11,
       <1>12, <1>13

-----------------------------------------------------------------------------
(* The inductive invariant: five shapes of step *)

\* What a step of any shape must keep besides the types.
Kept == SeqIssued /\ SeqInTransit /\ SeqOwned /\ OncePerRole /\ Backed
          /\ CompletedIsAnswered /\ AnswerFollowsQuestion

\* Request r keeps its turn number, and completes only on an answer.
TurnKept(r) ==
    /\ ledger'[r].useq = ledger[r].useq
    /\ ledger'[r].status = "absent" <=> ledger[r].status = "absent"
    /\ ledger'[r].status = "completed" =>
         ledger[r].status = "completed" \/ Said(r, "assistant")

\* What handler v needs for where the step takes it.
Covered(v) ==
    /\ pc'[v] = "insert" => pc[v] = "insert" /\ seq'[v] = seq[v]
    /\ pc'[v] = "append" =>
         \/ pc[v] = "append" /\ seq'[v] = seq[v] /\ req'[v] = req[v]
         \/ /\ ledger[req'[v]].status # "absent"
            /\ seq'[v] = ledger[req'[v]].useq
    /\ pc'[v] \in {"start", "graph", "finalize"} => Said(req'[v], "user")
    /\ pc'[v] \in {"terminal", "confirm"} /\ want'[v] = "completed" =>
         Said(req'[v], "assistant")
    /\ late'[v].call = "finalize" => Said(req'[v], "user")
    /\ late'[v].call = "terminal" /\ late'[v].want = "completed" =>
         Said(req'[v], "assistant")

\* A handler the step leaves alone has what it needs.
LEMMA OthersCovered ==
    ASSUME IInv, NEW v \in Handlers, pc'[v] = pc[v], seq'[v] = seq[v],
           req'[v] = req[v], want'[v] = want[v], late'[v] = late[v]
    PROVE  Covered(v)
BY DEF IInv, Backed, Covered

\* Requests keep their turn numbers and nothing new is said: a handler that goes
\* to append carries the ledger's number, one that runs has its question in the
\* thread, and whatever is or is about to be completed has its answer there.
LEMMA NoNewTurn ==
    ASSUME IInv, TypeOK', Serving',
           UNCHANGED <<messages, nextSeq>>, \A r \in Requests : TurnKept(r),
           \A v \in Handlers : Covered(v)
    PROVE  Kept'
<1>1. \A i \in DOMAIN messages : messages[i].req \in Requests
    BY MessageFacts DEF IInv
<1>2. \A v \in Handlers : pc'[v] # "idle" => req'[v] \in Requests
    BY DEF Serving
<1>3. SeqIssued'
    BY DEF IInv, SeqIssued, TurnKept, Covered
<1>4. SeqInTransit'
    BY DEF IInv, SeqInTransit, TurnKept, Covered
<1>5. SeqOwned'
    BY <1>1, <1>2 DEF IInv, SeqOwned, IsUser, IsAssistant, TurnKept, Covered
<1>6. OncePerRole' /\ AnswerFollowsQuestion'
    BY DEF IInv, OncePerRole, AnswerFollowsQuestion
<1>7. Backed'
    BY DEF Backed, Said, Covered
<1>8. CompletedIsAnswered'
    BY DEF IInv, CompletedIsAnswered, Said, TurnKept
<1> QED
    BY <1>3, <1>4, <1>5, <1>6, <1>7, <1>8 DEF Kept

\* A claim hands out the next turn number to its handler.
LEMMA TurnTaken ==
    ASSUME IInv, TypeOK', Serving', NEW w \in Handlers, TakeTurn(w), Goto(w, "insert"),
           UNCHANGED <<messages, ledger, req, want, late>>
    PROVE  Kept'
<1>1. /\ nextSeq \in Nat \ {0} /\ nextSeq' = nextSeq + 1
      /\ \A v \in Handlers : v # w => pc'[v] = pc[v] /\ seq'[v] = seq[v]
      /\ pc'[w] = "insert" /\ seq'[w] = nextSeq
    BY DEF IInv, TypeOK, StoreTypeOK, HandlerTypeOK, TakeTurn, Goto
<1>2. \A i \in DOMAIN messages : messages[i].seq \in Nat
    BY MessageFacts DEF IInv
<1>3. \A v \in Handlers : seq[v] \in Nat
    BY DEF IInv, TypeOK, HandlerTypeOK
<1>4. SeqIssued'
    BY <1>1, <1>2, <1>3 DEF IInv, SeqIssued
<1>5. SeqInTransit'
    <2>1. /\ \A i \in DOMAIN messages : messages[i].seq # nextSeq
          /\ \A r \in Requests : ledger[r].status # "absent" => ledger[r].useq # nextSeq
          /\ \A v \in Handlers : pc[v] = "insert" => seq[v] # nextSeq
        BY <1>1, <1>2, <1>3 DEF IInv, SeqIssued
    <2> QED
        BY <1>1, <2>1 DEF IInv, SeqInTransit
<1>6. SeqOwned'
    BY <1>1 DEF IInv, SeqOwned, IsUser, IsAssistant
<1>7. OncePerRole' /\ AnswerFollowsQuestion' /\ CompletedIsAnswered'
    BY DEF IInv, OncePerRole, AnswerFollowsQuestion, CompletedIsAnswered
<1>8. Backed'
    BY <1>1 DEF IInv, Backed, Said
<1> QED
    BY <1>4, <1>5, <1>6, <1>7, <1>8 DEF Kept

\* A new record takes over the turn number its handler carried.
LEMMA RecordInserted ==
    ASSUME IInv, TypeOK', Serving', NEW w \in Handlers,
           pc[w] = "insert", Goto(w, "append"),
           ledger[req[w]].status = "absent",
           ledger' = [ledger EXCEPT ![req[w]] =
                 [status |-> "accepted", useq |-> seq[w],
                  updated |-> now, answer |-> None]],
           UNCHANGED <<messages, nextSeq, req, seq, want, late>>
    PROVE  Kept'
<1>1. /\ req[w] \in Requests
      /\ \A v \in Handlers : v # w => pc'[v] = pc[v]
      /\ pc'[w] = "append"
    BY DEF IInv, TypeOK, HandlerTypeOK, Serving, Goto
<1>2. /\ ledger'[req[w]].status = "accepted"
      /\ ledger'[req[w]].useq = seq[w]
      /\ \A r \in Requests : r # req[w] => ledger'[r] = ledger[r]
    BY <1>1 DEF IInv, TypeOK, StoreTypeOK
<1>3. seq[w] \in 1 .. nextSeq - 1
    BY DEF IInv, SeqIssued
<1>4. \A i \in DOMAIN messages : messages[i].req \in Requests
    BY MessageFacts DEF IInv
<1>5. SeqIssued'
    BY <1>1, <1>2, <1>3 DEF IInv, SeqIssued
<1>6. SeqInTransit'
    BY <1>1, <1>2 DEF IInv, SeqInTransit
<1>7. SeqOwned'
    <2>1. \A r \in Requests : ledger[r].status # "absent" => ledger[r].useq # seq[w]
        BY DEF IInv, SeqInTransit
    <2>2. \A i \in DOMAIN messages : messages[i].seq # seq[w]
        BY DEF IInv, SeqInTransit
    <2>3. \A v \in Handlers : v # w /\ pc'[v] = "append" =>
            /\ req[v] \in Requests /\ req[v] # req[w]
            /\ ledger[req[v]].status # "absent" /\ seq[v] = ledger[req[v]].useq
        BY <1>1 DEF IInv, Serving, SeqOwned
    <2>4. \A i \in DOMAIN messages : IsUser(i) => messages[i].req # req[w]
        BY DEF IInv, SeqOwned
    <2>5. \A r, q \in Requests :
             ledger'[r].status # "absent" /\ ledger'[q].status # "absent"
               /\ ledger'[r].useq = ledger'[q].useq => r = q
        BY <1>2, <2>1 DEF IInv, SeqOwned
    <2>6. \A i \in DOMAIN messages : IsUser(i) =>
             /\ ledger'[messages[i].req].status # "absent"
             /\ messages[i].seq = ledger'[messages[i].req].useq
        BY <1>2, <1>4, <2>4 DEF IInv, SeqOwned
    <2>7. \A i \in DOMAIN messages, r \in Requests :
             IsAssistant(i) /\ ledger'[r].status # "absent" =>
                messages[i].seq # ledger'[r].useq
        BY <1>2, <2>2 DEF IInv, SeqOwned
    <2>8. \A v \in Handlers : pc'[v] = "append" =>
             ledger'[req[v]].status # "absent" /\ seq[v] = ledger'[req[v]].useq
        BY <1>1, <1>2, <2>3
    <2> QED
        BY <2>5, <2>6, <2>7, <2>8 DEF IInv, SeqOwned, IsUser, IsAssistant
<1>8. OncePerRole' /\ AnswerFollowsQuestion'
    BY DEF IInv, OncePerRole, AnswerFollowsQuestion
<1>9. CompletedIsAnswered'
    BY <1>2 DEF IInv, CompletedIsAnswered
<1>10. Backed'
    BY <1>1 DEF IInv, Backed, Said
<1> QED
    BY <1>5, <1>6, <1>7, <1>8, <1>9, <1>10 DEF Kept

\* The lease holder appends the question of a request that has none.
LEMMA QuestionSaid ==
    ASSUME IInv, TypeOK', Serving', NEW w \in Handlers, pc[w] = "append",
           MayAppend(w, "user"), Say(w, "user", seq[w]), Goto(w, "start"),
           UNCHANGED <<nextSeq, ledger, req, seq, want, late>>
    PROVE  Kept'
<1> DEFINE n == Len(messages) + 1
<1>1. /\ req[w] \in Requests /\ seq[w] \in Nat \ {0}
      /\ ledger[req[w]].status # "absent" /\ seq[w] = ledger[req[w]].useq
      /\ seq[w] < nextSeq
    BY DEF IInv, Serving, SeqOwned, SeqIssued, TypeOK, StoreTypeOK
<1>2. /\ DOMAIN messages = 1 .. Len(messages)
      /\ DOMAIN messages' = 1 .. n
      /\ Len(messages) \in Nat
      /\ \A i \in DOMAIN messages : messages'[i] = messages[i]
      /\ messages'[n].req = req[w]
      /\ messages'[n].role = "user"
      /\ messages'[n].seq = seq[w]
    <2>1. TypeOK /\ "user" \in {"user", "assistant"}
        BY DEF IInv
    <2>2. /\ DOMAIN messages = 1 .. Len(messages)
          /\ DOMAIN messages' = 1 .. n
          /\ Len(messages) \in Nat
          /\ \A i \in DOMAIN messages : messages'[i] = messages[i]
          /\ messages'[n] = [req |-> req[w], role |-> "user", seq |-> seq[w]]
        BY <1>1, <2>1, SayAppends
    <2> QED
        BY <2>2
<1> HIDE DEF n
<1>3. \A i \in DOMAIN messages' : i \in DOMAIN messages \/ i = n
    BY <1>2 DEF n
<1>4. /\ n \in DOMAIN messages' /\ n \notin DOMAIN messages
      /\ \A i \in DOMAIN messages : i \in DOMAIN messages' /\ i < n
    BY <1>2 DEF n
<1>5. /\ \A v \in Handlers : v # w => pc'[v] = pc[v]
      /\ pc'[w] = "start"
    BY DEF IInv, TypeOK, HandlerTypeOK, Goto
<1>6. SeqIssued'
    BY <1>1, <1>2, <1>3, <1>5 DEF IInv, SeqIssued
<1>7. SeqInTransit'
    BY <1>1, <1>2, <1>3, <1>5 DEF IInv, SeqInTransit
<1>8. SeqOwned'
    BY <1>1, <1>2, <1>3, <1>5 DEF IInv, SeqOwned, IsUser, IsAssistant
<1>9. OncePerRole'
    BY <1>2, <1>3 DEF IInv, OncePerRole, MayAppend, Said
<1>10. Backed'
    <2>1. \A r \in Requests, role \in {"user", "assistant"} :
            Said(r, role) => Said(r, role)'
        BY <1>2, <1>4 DEF Said
    <2>2. Said(req[w], "user")'
        BY <1>2, <1>4 DEF Said
    <2>3. \A v \in Handlers : pc[v] # "idle" => req[v] \in Requests
        BY DEF IInv, Serving
    <2>4. \A v \in Handlers : pc[v] \in {"start", "graph", "finalize"} =>
            Said(req[v], "user")'
        BY <2>1, <2>3 DEF IInv, Backed
    <2>5. \A v \in Handlers :
            pc[v] \in {"terminal", "confirm"} /\ want[v] = "completed" =>
            Said(req[v], "assistant")'
        BY <2>1, <2>3 DEF IInv, Backed
    <2>6. \A v \in Handlers :
            /\ late[v].call = "finalize" => Said(req[v], "user")'
            /\ late[v].call = "terminal" /\ late[v].want = "completed" =>
                 Said(req[v], "assistant")'
        BY <2>1 DEF IInv, Backed, Serving, NoCall
    <2> QED
        BY <1>5, <2>2, <2>4, <2>5, <2>6 DEF Backed, Said
<1>11. CompletedIsAnswered'
    BY <1>2, <1>4 DEF IInv, CompletedIsAnswered
<1>12. AnswerFollowsQuestion'
    BY <1>2, <1>3 DEF IInv, AnswerFollowsQuestion
<1> QED
    BY <1>6, <1>7, <1>8, <1>9, <1>10, <1>11, <1>12 DEF Kept

\* The lease holder appends the answer under a turn number of its own.
LEMMA AnswerSaid ==
    ASSUME IInv, TypeOK', Serving', NEW w \in Handlers,
           req[w] \in Requests, Said(req[w], "user"),
           MayAppend(w, "assistant"), Say(w, "assistant", nextSeq),
           nextSeq' = nextSeq + 1, UNCHANGED <<ledger, req, seq>>,
           \A v \in Handlers :
             /\ (pc'[v] = pc[v] /\ want'[v] = want[v]) \/ (v = w /\ pc'[v] = "terminal")
             /\ late'[v] = late[v] \/ late'[v] = NoCall
    PROVE  Kept'
<1> DEFINE n == Len(messages) + 1
<1>1. /\ req[w] \in Requests /\ nextSeq \in Nat \ {0}
      /\ \A v \in Handlers : seq[v] \in Nat
      /\ \A r \in Requests : ledger[r].status # "absent" => ledger[r].useq < nextSeq
      /\ \A v \in Handlers : pc[v] = "insert" => seq[v] < nextSeq
      /\ \A i \in DOMAIN messages : messages[i].seq < nextSeq
    BY DEF IInv, Serving, SeqIssued, TypeOK, StoreTypeOK, HandlerTypeOK
<1>2. /\ DOMAIN messages = 1 .. Len(messages)
      /\ DOMAIN messages' = 1 .. n
      /\ Len(messages) \in Nat
      /\ \A i \in DOMAIN messages : messages'[i] = messages[i]
      /\ messages'[n].req = req[w]
      /\ messages'[n].role = "assistant"
      /\ messages'[n].seq = nextSeq
    <2>1. TypeOK /\ "assistant" \in {"user", "assistant"}
        BY DEF IInv
    <2>2. /\ DOMAIN messages = 1 .. Len(messages)
          /\ DOMAIN messages' = 1 .. n
          /\ Len(messages) \in Nat
          /\ \A i \in DOMAIN messages : messages'[i] = messages[i]
          /\ messages'[n] = [req |-> req[w], role |-> "assistant", seq |-> nextSeq]
        BY <1>1, <2>1, SayAppends
    <2> QED
        BY <2>2
<1> HIDE DEF n
<1>3. \A i \in DOMAIN messages' : i \in DOMAIN messages \/ i = n
    BY <1>2 DEF n
<1>4. /\ n \in DOMAIN messages' /\ n \notin DOMAIN messages
      /\ \A i \in DOMAIN messages : i \in DOMAIN messages' /\ i \in 1 .. n - 1
    BY <1>2 DEF n
<1>5. \A v \in Handlers : pc'[v] = pc[v] \/ pc'[v] = "terminal"
    OBVIOUS
<1>6. \A i \in DOMAIN messages : messages[i].seq \in Nat /\ messages[i].req \in Requests
    BY MessageFacts DEF IInv
<1>7. SeqIssued'
    <2>1. /\ \A r \in Requests : ledger[r].status # "absent" =>
                ledger[r].useq \in 1 .. nextSeq' - 1
          /\ \A v \in Handlers : pc[v] = "insert" => seq[v] \in 1 .. nextSeq' - 1
        BY <1>1 DEF IInv, SeqIssued
    <2>2. /\ \A i \in DOMAIN messages : messages[i].seq < nextSeq'
          /\ nextSeq < nextSeq'
        BY <1>1, <1>6
    <2> QED
        BY <1>2, <1>3, <1>5, <2>1, <2>2 DEF SeqIssued
<1>8. SeqInTransit'
    BY <1>1, <1>2, <1>3, <1>5 DEF IInv, SeqInTransit
<1>9. SeqOwned'
    <2>1. \A r \in Requests : ledger[r].status # "absent" => ledger[r].useq # nextSeq
        BY <1>1
    <2>2. \A i \in DOMAIN messages : messages[i].seq # nextSeq
        BY <1>1
    <2> QED
        BY <1>2, <1>3, <1>5, <2>1, <2>2 DEF IInv, SeqOwned, IsUser, IsAssistant
<1>10. OncePerRole'
    BY <1>2, <1>3 DEF IInv, OncePerRole, MayAppend, Said
<1>11. Backed'
    <2>1. \A r \in Requests, role \in {"user", "assistant"} :
            Said(r, role) => Said(r, role)'
        BY <1>2, <1>4 DEF Said
    <2>2. Said(req[w], "assistant")'
        BY <1>2, <1>4 DEF Said
    <2>3. \A v \in Handlers : pc[v] # "idle" => req[v] \in Requests
        BY DEF IInv, Serving
    <2>4. \A v \in Handlers : pc[v] \in {"start", "graph", "finalize"} =>
            Said(req[v], "user")'
        BY <2>1, <2>3 DEF IInv, Backed
    <2>5. \A v \in Handlers :
            pc[v] \in {"terminal", "confirm"} /\ want[v] = "completed" =>
            Said(req[v], "assistant")'
        BY <2>1, <2>3 DEF IInv, Backed
    <2>6. \A v \in Handlers :
            /\ late[v].call = "finalize" => Said(req[v], "user")'
            /\ late[v].call = "terminal" /\ late[v].want = "completed" =>
                 Said(req[v], "assistant")'
        BY <2>1 DEF IInv, Backed, Serving, NoCall
    <2>7. \A v \in Handlers : pc'[v] \in {"start", "graph", "finalize"} => pc'[v] = pc[v]
        BY <1>5
    <2> QED
        BY <2>2, <2>4, <2>5, <2>6, <2>7 DEF Backed, Said, NoCall
<1>12. CompletedIsAnswered'
    BY <1>2, <1>4 DEF IInv, CompletedIsAnswered
<1>13. AnswerFollowsQuestion'
    <2>1. PICK q \in DOMAIN messages : messages[q].req = req[w] /\ messages[q].role = "user"
        BY DEF Said
    <2>2. messages[q].seq < nextSeq /\ q \in 1 .. n - 1
        BY <1>1, <1>4
    <2> QED
        BY <1>2, <1>3, <2>1, <2>2 DEF IInv, AnswerFollowsQuestion
<1> QED
    BY <1>7, <1>8, <1>9, <1>10, <1>11, <1>12, <1>13 DEF Kept

\* A step that leaves the ledger alone keeps every turn.
LEMMA LedgerKept ==
    ASSUME UNCHANGED ledger
    PROVE  \A r \in Requests : TurnKept(r)
BY DEF TurnKept

\* Rewriting an existing record keeps every turn.
LEMMA RecordRewritten ==
    ASSUME TypeOK, NEW r \in Requests, NEW status \in Status,
           NEW answer \in Handlers \cup {None}, SetRecord(r, status, answer),
           ledger[r].status # "absent", status # "absent",
           status = "completed" => Said(r, "assistant")
    PROVE  \A q \in Requests : TurnKept(q)
BY SetRecordUpdates DEF TurnKept

\* A terminal write to an active record keeps every turn.
LEMMA TerminalWritten ==
    ASSUME TypeOK, NEW w \in Handlers, req[w] \in Requests, NEW s \in Terminal,
           ledger[req[w]].status \in Active, SetTerminal(w, s),
           s = "completed" => Said(req[w], "assistant")
    PROVE  \A q \in Requests : TurnKept(q)
<1>1. /\ s \in Status /\ s # "absent"
      /\ ledger[req[w]].status # "absent"
    BY DEF Status, Active, Terminal, Retryable
<1>2. (IF s = "completed" THEN w ELSE None) \in Handlers \cup {None}
    OBVIOUS
<1> QED
    BY <1>1, <1>2, RecordRewritten DEF SetTerminal

-----------------------------------------------------------------------------
(* The inductive invariant: every action *)

\* Every action is a step of one of the five shapes.
LEMMA KeptStep ==
    ASSUME IInv, [Next]_vars, TypeOK', Serving'
    PROVE  Kept'
<1> USE NoNewTurn, LedgerKept, OthersCovered
<1>t. /\ HandlerTypeOK
      /\ \A w \in Handlers : pc[w] # "idle" => req[w] \in Requests
      /\ \A w \in Handlers : late[w].call # "none" => pc[w] # "idle"
    BY DEF IInv, TypeOK, Serving, NoCall
<1>b. \A w \in Handlers :
        /\ late[w].call = "finalize" => Said(req[w], "user")
        /\ late[w].call = "terminal" /\ late[w].want = "completed" =>
             Said(req[w], "assistant")
    BY DEF IInv, Backed
<1>1. ASSUME NEW w \in Handlers, NEW r \in Requests, Post(w, r) \/ PostCancel(w, r)
      PROVE  Kept'
    <2>1. late[w].call = "none"
        BY <1>1, <1>t DEF Post, PostCancel
    <2>2. Covered(w)
        <3>1. CASE Post(w, r)
            BY <2>1, <3>1, <1>t DEF HandlerTypeOK, Covered, Post, PrepareExisting, Goto
        <3>2. CASE PostCancel(w, r)
            BY <2>1, <3>2, <1>t DEF HandlerTypeOK, Covered, PostCancel, Cancel, Ending, Goto
        <3> QED
            BY <1>1, <3>1, <3>2
    <2>3. \A v \in Handlers : Covered(v)
        BY <1>1, <1>t, <2>2 DEF HandlerTypeOK, Post, PostCancel, PrepareExisting, Cancel,
                                Ending, Goto
    <2> QED
        BY <1>1, <2>3 DEF Post, PostCancel, threadVars
<1>2. ASSUME NEW w \in Handlers, RereadLedger(w)
      PROVE  Kept'
    <2>1. Covered(w)
        BY <1>2, <1>t, <1>b DEF HandlerTypeOK, Covered, RereadLedger, PrepareExisting, Goto
    <2>2. \A v \in Handlers : Covered(v)
        BY <1>2, <1>t, <2>1 DEF HandlerTypeOK, RereadLedger, PrepareExisting, Goto
    <2> QED
        BY <1>2, <2>2 DEF RereadLedger, threadVars
<1>3. ASSUME NEW w \in Handlers,
             \/ CleanupStream(w) \/ ExitStream(w) \/ ConfirmTerminal(w) \/ RunGraph(w)
      PROVE  Kept'
    <2> USE DEF CleanupStream, ExitStream, ConfirmTerminal, RunGraph
    <2>1. Covered(w)
        <3>1. CASE CleanupStream(w) \/ ExitStream(w)
            BY <3>1, <1>t, <1>b DEF HandlerTypeOK, Covered, Cancel, Ending, Goto
        <3>2. CASE ConfirmTerminal(w)
            BY <3>2, <1>t, <1>b DEF HandlerTypeOK, Covered, GiveUpEnding, Ending, Goto
        <3>3. CASE RunGraph(w)
            BY <3>3, <1>t, <1>b
               DEF IInv, Backed, HandlerTypeOK, Covered, Ending, Goto, Retryable
        <3> QED
            BY <1>3, <3>1, <3>2, <3>3
    <2>2. \A v \in Handlers : Covered(v)
        BY <1>3, <1>t, <2>1 DEF HandlerTypeOK, Cancel, GiveUpEnding, Ending, Goto
    <2> QED
        BY <1>3, <2>2 DEF threadVars
<1>4. ASSUME NEW w \in Handlers,
             ClaimRetry(w) \/ ReleaseThread(w) \/ Leave(w) \/ Crash(w)
      PROVE  Kept'
    <2> USE DEF ClaimRetry, ReleaseThread, Leave, Crash
    <2>1. Covered(w)
        BY <1>4, <1>t, <1>b DEF HandlerTypeOK, Covered, Goto, localVars
    <2>2. \A v \in Handlers : Covered(v)
        BY <1>4, <1>t, <2>1 DEF HandlerTypeOK, Goto, localVars
    <2> QED
        BY <1>4, <2>2 DEF threadVars
<1>5. ASSUME NEW w \in Handlers, ClaimNew(w)
      PROVE  Kept'
    <2>1. CASE Claimable(req[w])
        BY <1>5, <2>1, TurnTaken DEF ClaimNew
    <2>2. CASE ~Claimable(req[w])
        <3>1. Covered(w)
            BY <1>5, <2>2, <1>t, <1>b DEF HandlerTypeOK, Covered, ClaimNew, Goto
        <3>2. \A v \in Handlers : Covered(v)
            BY <1>5, <2>2, <1>t, <3>1 DEF HandlerTypeOK, ClaimNew, Goto
        <3> QED
            BY <1>5, <2>2, <3>2 DEF ClaimNew
    <2> QED
        BY <2>1, <2>2
<1>6. ASSUME NEW w \in Handlers, InsertRecord(w)
      PROVE  Kept'
    <2>1. CASE Goto(w, "append")
        <3>1. pc'[w] = "append"
            BY <2>1, <1>t DEF Goto, HandlerTypeOK
        <3>2. ~GiveBack(w, "reread") /\ ~GiveBack(w, "done")
            BY <3>1, <1>t DEF GiveBack, Goto, HandlerTypeOK
        <3> QED
            BY <1>6, <2>1, <3>2, RecordInserted DEF InsertRecord, threadVars
    <2>2. CASE ~Goto(w, "append")
        <3>1. GiveBack(w, "reread") \/ GiveBack(w, "done")
            BY <1>6, <2>2 DEF InsertRecord
        <3>2. Covered(w)
            BY <1>6, <3>1, <1>t, <1>b DEF HandlerTypeOK, Covered, InsertRecord, GiveBack, Goto
        <3>3. \A v \in Handlers : Covered(v)
            BY <1>6, <3>1, <3>2, <1>t DEF HandlerTypeOK, InsertRecord, GiveBack, Goto
        <3> QED
            BY <1>6, <2>2, <3>3 DEF InsertRecord, threadVars
    <2> QED
        BY <2>1, <2>2
<1>7. ASSUME NEW w \in Handlers, ResumeRecord(w)
      PROVE  Kept'
    <2> USE DEF ResumeRecord
    <2>1. CASE ~Resumable(w)
        <3>1. Covered(w)
            BY <1>7, <2>1, <1>t, <1>b DEF HandlerTypeOK, Covered, GiveBack, Goto
        <3>2. \A v \in Handlers : Covered(v)
            BY <1>7, <2>1, <3>1, <1>t DEF HandlerTypeOK, GiveBack, Goto
        <3> QED
            BY <1>7, <2>1, <3>2 DEF threadVars
    <2>2. CASE Resumable(w)
        <3>1. req[w] \in Requests
            BY <1>7, <1>t
        <3>2. ledger[req[w]].status # "absent"
            BY <2>2 DEF Resumable, Active, Retryable
        <3>3. Covered(w)
            BY <1>7, <2>2, <3>2, <1>t, <1>b DEF HandlerTypeOK, Covered, Goto
        <3>4. \A v \in Handlers : Covered(v)
            BY <1>7, <2>2, <3>3, <1>t DEF HandlerTypeOK, Goto
        <3>5. \A r \in Requests : TurnKept(r)
            <4>1. SetRecord(req[w], "accepted", None) /\ TypeOK
                BY <1>7, <2>2 DEF IInv
            <4>2. "accepted" \in Status
                BY DEF Status, Active
            <4> QED
                BY <3>1, <3>2, <4>1, <4>2, RecordRewritten
        <3> QED
            BY <1>7, <3>4, <3>5 DEF threadVars
    <2> QED
        BY <2>1, <2>2
<1>8. ASSUME NEW w \in Handlers, AppendUserMessage(w)
      PROVE  Kept'
    <2> USE DEF AppendUserMessage
    <2>1. CASE /\ MayAppend(w, "user") /\ Say(w, "user", seq[w]) /\ Goto(w, "start")
               /\ UNCHANGED want
        BY <1>8, <2>1, QuestionSaid
    <2>2. CASE /\ UNCHANGED messages
               /\ \/ Said(req[w], "user") /\ Goto(w, "start") /\ UNCHANGED want
                  \/ QuestionLost(w)
        <3>1. Covered(w)
            BY <1>8, <2>2, <1>t, <1>b DEF HandlerTypeOK, Covered, QuestionLost, Ending, Goto
        <3>2. \A v \in Handlers : Covered(v)
            BY <1>8, <2>2, <3>1, <1>t DEF HandlerTypeOK, QuestionLost, Ending, Goto
        <3> QED
            BY <1>8, <2>2, <3>2
    <2> QED
        BY <1>8, <2>1, <2>2
<1>9. ASSUME NEW w \in Handlers, StartRun(w)
      PROVE  Kept'
    <2> USE DEF StartRun
    <2>1. req[w] \in Requests /\ Said(req[w], "user")
        BY <1>9, <1>t DEF IInv, Backed
    <2>2. Covered(w)
        BY <1>9, <2>1, <1>t, <1>b DEF HandlerTypeOK, Covered, Ending, Goto
    <2>3. \A v \in Handlers : Covered(v)
        BY <1>9, <2>2, <1>t DEF HandlerTypeOK, Ending, Goto
    <2>4. \A r \in Requests : TurnKept(r)
        <3>1. CASE UNCHANGED ledger
            BY <3>1
        <3>2. CASE /\ ledger[req[w]].status = "accepted"
                   /\ SetRecord(req[w], "running", ledger[req[w]].answer)
            <4>1. ledger[req[w]] \in Record /\ TypeOK
                BY <2>1 DEF IInv, TypeOK, StoreTypeOK
            <4>2. /\ ledger[req[w]].answer \in Handlers \cup {None}
                  /\ "running" \in Status
                BY <4>1 DEF Record, Status, Active
            <4> QED
                BY <2>1, <3>2, <4>1, <4>2, RecordRewritten
        <3> QED
            BY <1>9, <3>1, <3>2
    <2> QED
        BY <1>9, <2>3, <2>4 DEF threadVars
<1>10. ASSUME NEW w \in Handlers, FinalizeResponse(w)
       PROVE  Kept'
    <2> USE DEF FinalizeResponse
    <2>1. CASE /\ MayAppend(w, "assistant") /\ Say(w, "assistant", nextSeq)
               /\ nextSeq' = nextSeq + 1
               /\ Ending(w, "completed", "cleanup")
        <3>1. /\ pc'[w] = "terminal" /\ UNCHANGED late
              /\ \A v \in Handlers : v # w => pc'[v] = pc[v] /\ want'[v] = want[v]
            BY <1>10, <2>1, <1>t DEF Ending, Goto, HandlerTypeOK
        <3>2. req[w] \in Requests /\ Said(req[w], "user")
            BY <1>10, <1>t DEF IInv, Backed
        <3>3. UNCHANGED <<ledger, req, seq>>
            BY <1>10
        <3>4. \A v \in Handlers :
                /\ (pc'[v] = pc[v] /\ want'[v] = want[v]) \/ (v = w /\ pc'[v] = "terminal")
                /\ late'[v] = late[v] \/ late'[v] = NoCall
            BY <3>1
        <3> HIDE DEF FinalizeResponse
        <3> QED
            BY <2>1, <3>2, <3>3, <3>4, AnswerSaid
    <2>2. CASE /\ UNCHANGED <<messages, nextSeq>>
               /\ \/ Said(req[w], "assistant") /\ Ending(w, "completed", "cleanup")
                  \/ Ending(w, "failed", "cleanup")
        <3>1. Covered(w)
            BY <1>10, <2>2, <1>t, <1>b DEF HandlerTypeOK, Covered, Ending, Goto
        <3>2. \A v \in Handlers : Covered(v)
            BY <1>10, <2>2, <3>1, <1>t DEF HandlerTypeOK, Ending, Goto
        <3> QED
            BY <1>10, <2>2, <3>2
    <2> QED
        BY <1>10, <2>1, <2>2
<1>11. ASSUME NEW w \in Handlers, MarkTerminal(w)
       PROVE  Kept'
    <2> USE DEF MarkTerminal
    <2>1. req[w] \in Requests /\ (want[w] = "completed" => Said(req[w], "assistant"))
        BY <1>11, <1>t DEF IInv, Backed
    <2>2. Covered(w)
        BY <1>11, <2>1, <1>t, <1>b DEF HandlerTypeOK, Covered, GiveUpEnding, Ending, Goto
    <2>3. \A v \in Handlers : Covered(v)
        BY <1>11, <2>2, <1>t DEF HandlerTypeOK, GiveUpEnding, Ending, Goto
    <2>4. \A r \in Requests : TurnKept(r)
        <3>1. CASE UNCHANGED ledger
            BY <3>1
        <3>2. CASE ledger[req[w]].status \in Active /\ SetTerminal(w, want[w])
            <4>1. want[w] \in Terminal
                BY <1>t DEF HandlerTypeOK
            <4> QED
                BY <2>1, <3>2, <4>1, TerminalWritten DEF IInv
        <3> QED
            BY <1>11, <3>1, <3>2
    <2> QED
        BY <1>11, <2>3, <2>4 DEF threadVars
<1>12. ASSUME NEW w \in Handlers, LateStart(w) \/ LateTerminal(w) \/ LateConfirm(w)
                                  \/ LateRelease(w)
       PROVE  Kept'
    <2> USE DEF LateStart, LateTerminal, LateConfirm, LateRelease
    <2>1. /\ UNCHANGED <<messages, nextSeq, pc, req, seq, want>>
          /\ \A v \in Handlers : v # w => late'[v] = late[v]
          /\ late'[w].call \notin {"finalize", "terminal"}
        BY <1>12, <1>t DEF LateOver, LateGoto, NoCall, localVars, threadVars, HandlerTypeOK
    <2>2. \A v \in Handlers : Covered(v)
        BY <2>1, <1>t, <1>b DEF IInv, Backed, Covered
    <2>3. req[w] \in Requests
        BY <1>12, <1>t
    <2>4. \A r \in Requests : TurnKept(r)
        <3>1. CASE UNCHANGED ledger
            BY <3>1
        <3>2. CASE LateStart(w) /\ ledger[req[w]].status = "accepted"
            <4>1. ledger[req[w]] \in Record /\ TypeOK
                BY <2>3 DEF IInv, TypeOK, StoreTypeOK
            <4>2. ledger[req[w]].answer \in Handlers \cup {None} /\ "running" \in Status
                BY <4>1 DEF Record, Status, Active
            <4> QED
                BY <2>3, <3>2, <4>1, <4>2, RecordRewritten
        <3>3. CASE LateTerminal(w) /\ ledger[req[w]].status \in Active
            <4>1. late[w].want \in Terminal
                BY <1>t DEF HandlerTypeOK, LateCall
            <4>2. late[w].want = "completed" => Said(req[w], "assistant")
                BY <3>3, <1>b
            <4> QED
                BY <2>3, <3>3, <4>1, <4>2, TerminalWritten DEF IInv
        <3> QED
            BY <1>12, <3>1, <3>2, <3>3 DEF threadVars
    <2> QED
        BY <2>1, <2>2, <2>4
<1>13. ASSUME NEW w \in Handlers, LateAnswer(w)
       PROVE  Kept'
    <2> USE DEF LateAnswer
    <2>1. /\ req[w] \in Requests /\ Said(req[w], "user")
          /\ UNCHANGED <<ledger, pc, req, seq, want>>
          /\ \A v \in Handlers : late'[v] = late[v] \/ late'[v] = NoCall
        BY <1>13, <1>t, <1>b DEF LateOver, localVars, HandlerTypeOK
    <2>2. CASE MayAppend(w, "assistant")
        <3>1. Say(w, "assistant", nextSeq) /\ nextSeq' = nextSeq + 1
            BY <1>13, <2>2
        <3>2. \A v \in Handlers :
                /\ (pc'[v] = pc[v] /\ want'[v] = want[v]) \/ (v = w /\ pc'[v] = "terminal")
                /\ late'[v] = late[v] \/ late'[v] = NoCall
            BY <2>1
        <3> QED
            BY <2>1, <2>2, <3>1, <3>2, AnswerSaid
    <2>3. CASE UNCHANGED <<messages, nextSeq>>
        <3>1. \A v \in Handlers : Covered(v)
            BY <2>1, <2>3, <1>b, <1>t DEF IInv, Backed, Covered, NoCall
        <3> QED
            BY <2>1, <2>3, <3>1
    <2> QED
        BY <1>13, <2>2, <2>3
<1>14. ASSUME NEW w \in Handlers, CutOff(w)
       PROVE  Kept'
    <2> USE DEF CutOff
    <2>1. /\ late' = [late EXCEPT ![w] = [call |-> pc[w], want |-> want[w]]]
          /\ UNCHANGED <<messages, nextSeq, ledger, req, seq>>
        BY <1>14 DEF threadVars
    <2>2. Covered(w)
        BY <1>14, <2>1, <1>t, <1>b
           DEF IInv, Backed, HandlerTypeOK, Covered, Ending, Goto
    <2>3. \A v \in Handlers : Covered(v)
        BY <1>14, <2>1, <2>2, <1>t DEF HandlerTypeOK, Ending, Goto
    <2> QED
        BY <2>1, <2>3
<1>15. CASE Tick \/ UNCHANGED vars
    <2>1. \A v \in Handlers : Covered(v)
        BY <1>15 DEF Tick, vars, localVars
    <2> QED
        BY <1>15, <2>1 DEF Tick, vars, threadVars
<1> QED
    BY NextCases, <1>1, <1>2, <1>3, <1>4, <1>5, <1>6, <1>7, <1>8, <1>9, <1>10, <1>11,
       <1>12, <1>13, <1>14, <1>15

\* The inductive invariant holds of an empty thread ...
LEMMA InvInit == Init => IInv
<1> SUFFICES ASSUME Init PROVE IInv
    OBVIOUS
<1>1. TypeOK /\ Serving
    BY TypeInit
<1>2. /\ DOMAIN messages = {}
      /\ \A r \in Requests : ledger[r].status = "absent"
      /\ \A w \in Handlers : pc[w] = "idle" /\ late[w].call = "none"
    BY DEF Init, NoCall
<1>3. SeqIssued /\ SeqInTransit /\ SeqOwned /\ OncePerRole
    BY <1>2 DEF SeqIssued, SeqInTransit, SeqOwned, OncePerRole
<1>4. Backed /\ CompletedIsAnswered /\ AnswerFollowsQuestion
    BY <1>2 DEF Backed, CompletedIsAnswered, AnswerFollowsQuestion
<1> QED
    BY <1>1, <1>3, <1>4 DEF IInv

\* ... is kept by every step ...
LEMMA InvStep == IInv /\ [Next]_vars => IInv'
<1> SUFFICES ASSUME IInv, [Next]_vars PROVE IInv'
    OBVIOUS
<1>1. TypeOK' /\ Serving'
    BY StoreTypeStep, HandlerTypeStep DEF IInv, TypeOK
<1>2. Kept'
    BY <1>1, KeptStep
<1> QED
    BY <1>1, <1>2 DEF IInv, Kept

\* ... and so holds always.
LEMMA Invariance == Spec => []IInv
BY InvInit, InvStep, PTL DEF Spec

-----------------------------------------------------------------------------
(* What follows *)

\* The two collections and the handlers keep their shapes, on every path and for
\* any number of handlers (prepare_message_request through _release_thread).
THEOREM TypeCorrectness == Spec => []TypeOK
<1>1. IInv => TypeOK
    BY DEF IInv
<1> QED
    BY <1>1, Invariance, PTL

\* Retries, takeovers and duplicate posts never put a second question or a second
\* answer of one request into the thread (append_message_once and
\* finalize_stream_response).
THEOREM NothingSaidTwice == Spec => []OncePerRole
<1>1. IInv => OncePerRole
    BY DEF IInv
<1> QED
    BY <1>1, Invariance, PTL

\* Questions are numbered by the ledger and answers by the finalizing update, and
\* the two sources never meet (_claim_thread, finalize_stream_response).
THEOREM TurnsAreUnique == Spec => []TurnSeqUnique
<1>1. IInv => TurnSeqUnique
    <2> SUFFICES ASSUME IInv, NEW i \in DOMAIN messages, NEW j \in DOMAIN messages,
                        messages[i].seq = messages[j].seq
                 PROVE  i = j
        BY DEF TurnSeqUnique
    <2>1. \A k \in DOMAIN messages : messages[k].req \in Requests
        BY MessageFacts DEF IInv
    <2>2. \A k \in DOMAIN messages : IsUser(k) \/ IsAssistant(k)
        <3>1. messages \in Seq(Message)
            BY DEF IInv, TypeOK, StoreTypeOK
        <3>2. \A k \in DOMAIN messages : messages[k] \in Message
            BY <3>1, ElementFacts
        <3> QED
            BY <3>2 DEF Message, IsUser, IsAssistant
    <2>3. CASE IsUser(i) /\ IsUser(j)
        <3>1. messages[i].req = messages[j].req
            BY <2>1, <2>3 DEF IInv, SeqOwned
        <3> QED
            BY <2>3, <3>1 DEF IInv, OncePerRole, IsUser
    <2>4. CASE IsAssistant(i) /\ IsAssistant(j)
        BY <2>4 DEF IInv, SeqOwned
    <2>5. CASE IsUser(i) /\ IsAssistant(j)
        BY <2>1, <2>5 DEF IInv, SeqOwned
    <2>6. CASE IsAssistant(i) /\ IsUser(j)
        BY <2>1, <2>6 DEF IInv, SeqOwned
    <2> QED
        BY <2>2, <2>3, <2>4, <2>5, <2>6
<1> QED
    BY <1>1, Invariance, PTL

\* The ledger says completed only of a request whose answer is in the thread
\* (finalize_stream_response before mark_message_request_terminal).
THEOREM CompletionIsAnswered == Spec => []CompletedIsAnswered
<1>1. IInv => CompletedIsAnswered
    BY DEF IInv
<1> QED
    BY <1>1, Invariance, PTL

\* No answer stands before its question, in place or in turn number, whichever
\* attempts wrote the two.
THEOREM AnswersFollowQuestions == Spec => []AnswerFollowsQuestion
<1>1. IInv => AnswerFollowsQuestion
    BY DEF IInv
<1> QED
    BY <1>1, Invariance, PTL

\* The lease changes hands only through a free thread (_claim_thread takes it free
\* or from the same request, _release_thread frees it).
THEOREM LeasePassesThroughFree == Spec => LeaseNotPreempted
<1>1. ASSUME IInv, [Next]_vars
      PROVE  lease'.holder = lease.holder \/ None \in {lease.holder, lease'.holder}
    <2>1. ASSUME NEW w \in Handlers,
                 ClaimNew(w) \/ ClaimRetry(w) \/ ReleaseThread(w) \/ LateRelease(w)
          PROVE  lease'.holder = lease.holder \/ None \in {lease.holder, lease'.holder}
        BY <2>1 DEF ClaimNew, ClaimRetry, ReleaseThread, LateRelease, Claimable, Claim,
                    Release
    <2>2. CASE UNCHANGED lease
        BY <2>2
    <2>3. UNCHANGED lease \/ \E w \in Handlers :
                ClaimNew(w) \/ ClaimRetry(w) \/ ReleaseThread(w) \/ LateRelease(w)
        <3> USE DEF threadVars
        <3>1. ASSUME NEW w \in Handlers, NEW r \in Requests, Post(w, r) \/ PostCancel(w, r)
              PROVE  UNCHANGED lease
            BY <3>1 DEF Post, PostCancel
        <3>2. ASSUME NEW w \in Handlers,
                     \/ InsertRecord(w) \/ RereadLedger(w) \/ ResumeRecord(w)
                     \/ AppendUserMessage(w) \/ StartRun(w) \/ LateStart(w)
              PROVE  UNCHANGED lease
            BY <3>2 DEF InsertRecord, RereadLedger, ResumeRecord, AppendUserMessage,
                        StartRun, LateStart
        <3>3. ASSUME NEW w \in Handlers,
                     \/ RunGraph(w) \/ FinalizeResponse(w) \/ MarkTerminal(w)
                     \/ ConfirmTerminal(w) \/ LateAnswer(w) \/ LateTerminal(w)
                     \/ LateConfirm(w)
              PROVE  UNCHANGED lease
            BY <3>3 DEF RunGraph, FinalizeResponse, MarkTerminal, ConfirmTerminal,
                        LateAnswer, LateTerminal, LateConfirm
        <3>4. ASSUME NEW w \in Handlers,
                     \/ CleanupStream(w) \/ ExitStream(w) \/ Leave(w) \/ Crash(w)
                     \/ CutOff(w)
              PROVE  UNCHANGED lease
            BY <3>4 DEF CleanupStream, ExitStream, Leave, Crash, CutOff
        <3>5. CASE Tick \/ UNCHANGED vars
            BY <3>5 DEF Tick, vars
        <3> QED
            BY <1>1, NextCases, <3>1, <3>2, <3>3, <3>4, <3>5
    <2> QED
        BY <2>1, <2>2, <2>3
<1> QED
    BY <1>1, Invariance, PTL DEF Spec, LeaseNotPreempted

\* A sequence is a prefix of what Append makes of it.
LEMMA SubSeqFacts ==
    ASSUME NEW S, NEW s \in Seq(S), NEW e \in S
    PROVE  /\ Len(Append(s, e)) >= Len(s)
           /\ SubSeq(Append(s, e), 1, Len(s)) = s
<1>1. Len(s) \in Nat /\ DOMAIN s = 1 .. Len(s)
    OBVIOUS
<1>2. /\ Append(s, e) \in Seq(S)
      /\ Len(Append(s, e)) = Len(s) + 1
      /\ \A i \in 1 .. Len(s) : Append(s, e)[i] = s[i]
    BY AppendFacts
<1>3. SubSeq(Append(s, e), 1, Len(s)) = s
    BY <1>1, <1>2
<1> QED
    BY <1>1, <1>2, <1>3

\* A message is never changed, removed or moved, and a completed request keeps its
\* result, whatever late handlers, retries and cancellations do (the filters of
\* _prepare_existing_request and mark_message_request_terminal).
THEOREM HistoryIsPermanent == Spec => HistoryIsFinal
<1> DEFINE Extended == /\ Len(messages') >= Len(messages)
                       /\ SubSeq(messages', 1, Len(messages)) = messages
           Final == \A r \in Requests :
                        ledger[r].status = "completed" => ledger'[r] = ledger[r]
<1>1. ASSUME IInv, [Next]_vars
      PROVE  Extended /\ Final
    <2>t. /\ messages \in Seq(Message)
          /\ ledger \in [Requests -> Record]
          /\ \A w \in Handlers :
                pc[w] # "idle" \/ late[w].call # "none" => req[w] \in Requests
        BY <1>1 DEF IInv, TypeOK, StoreTypeOK, Serving, NoCall
    <2>1. ASSUME UNCHANGED messages
          PROVE  Extended
        <3>1. Len(messages) \in Nat /\ SubSeq(messages, 1, Len(messages)) = messages
            BY <2>t
        <3> QED
            BY <2>1, <3>1
    <2>2. ASSUME NEW w \in Handlers, NEW role \in {"user", "assistant"},
                 NEW n \in Nat \ {0}, Say(w, role, n), req[w] \in Requests
          PROVE  Extended
        <3> DEFINE m == [req |-> req[w], role |-> role, seq |-> n]
        <3>1. m \in Message
            BY <2>2 DEF Message
        <3>2. messages' = Append(messages, m)
            BY <2>2 DEF Say
        <3> HIDE DEF m
        <3> QED
            BY <2>t, <3>1, <3>2, SubSeqFacts
    <2>3. ASSUME UNCHANGED ledger
          PROVE  Final
        BY <2>3
    <2>4. ASSUME NEW w \in Handlers, AppendUserMessage(w)
          PROVE  Extended /\ Final
        <3>1. /\ req[w] \in Requests /\ seq[w] \in Nat \ {0}
            BY <1>1, <2>4, <2>t DEF AppendUserMessage, IInv, SeqOwned, SeqIssued
        <3> QED
            BY <2>1, <2>2, <2>3, <2>4, <3>1 DEF AppendUserMessage
    <2>5. ASSUME NEW w \in Handlers, FinalizeResponse(w) \/ LateAnswer(w)
          PROVE  Extended /\ Final
        <3>1. /\ req[w] \in Requests /\ nextSeq \in Nat \ {0}
            BY <1>1, <2>5, <2>t DEF FinalizeResponse, LateAnswer, IInv, TypeOK, StoreTypeOK
        <3> QED
            BY <2>1, <2>2, <2>3, <2>5, <3>1 DEF FinalizeResponse, LateAnswer
    <2>6. ASSUME NEW w \in Handlers, NEW record,
                 ledger[req[w]].status # "completed",
                 ledger' = [ledger EXCEPT ![req[w]] = record]
          PROVE  Final
        BY <2>t, <2>6
    <2>7. ASSUME NEW w \in Handlers, InsertRecord(w)
          PROVE  Extended /\ Final
        BY <2>1, <2>3, <2>6, <2>7 DEF InsertRecord, threadVars
    <2>8. ASSUME NEW w \in Handlers,
                 \/ ResumeRecord(w) \/ StartRun(w) \/ MarkTerminal(w)
                 \/ LateStart(w) \/ LateTerminal(w)
          PROVE  Extended /\ Final
        <3>1. UNCHANGED messages
            BY <2>8 DEF ResumeRecord, StartRun, MarkTerminal, LateStart, LateTerminal,
                        threadVars
        <3>2. CASE ResumeRecord(w)
            BY <2>1, <2>3, <2>6, <3>1, <3>2
               DEF ResumeRecord, Resumable, Active, Retryable, SetRecord
        <3>3. CASE StartRun(w) \/ LateStart(w)
            BY <2>1, <2>3, <2>6, <3>1, <3>3 DEF StartRun, LateStart, SetRecord
        <3>4. CASE MarkTerminal(w) \/ LateTerminal(w)
            BY <2>1, <2>3, <2>6, <3>1, <3>4
               DEF MarkTerminal, LateTerminal, Active, SetTerminal, SetRecord
        <3> QED
            BY <2>8, <3>2, <3>3, <3>4
    <2>9. ASSUME NEW w \in Handlers, NEW r \in Requests, Post(w, r) \/ PostCancel(w, r)
          PROVE  Extended /\ Final
        BY <2>1, <2>3, <2>9 DEF Post, PostCancel, threadVars
    <2>10. ASSUME NEW w \in Handlers,
                  \/ ClaimNew(w) \/ RereadLedger(w) \/ ClaimRetry(w) \/ RunGraph(w)
                  \/ ConfirmTerminal(w) \/ ReleaseThread(w)
           PROVE  Extended /\ Final
        BY <2>1, <2>3, <2>10
           DEF ClaimNew, RereadLedger, ClaimRetry, RunGraph, ConfirmTerminal,
               ReleaseThread, threadVars
    <2>11. ASSUME NEW w \in Handlers,
                  \/ CleanupStream(w) \/ ExitStream(w) \/ LateConfirm(w)
                  \/ LateRelease(w) \/ Leave(w) \/ Crash(w) \/ CutOff(w)
           PROVE  Extended /\ Final
        BY <2>1, <2>3, <2>11
           DEF CleanupStream, ExitStream, LateConfirm, LateRelease, Leave, Crash, CutOff,
               threadVars
    <2>12. CASE Tick \/ UNCHANGED vars
        BY <2>1, <2>3, <2>12 DEF Tick, vars, threadVars
    <2> QED
        BY <1>1, NextCases, <2>4, <2>5, <2>7, <2>8, <2>9, <2>10, <2>11, <2>12
<1> QED
    BY <1>1, Invariance, PTL DEF Spec, HistoryIsFinal

-----------------------------------------------------------------------------
(* The thread is a log with one writer *)

\* What the abstract thread keeps from one step to the next.
LogKept ==
    /\ lease'.holder = lease.holder
    /\ nextSeq' = nextSeq
    /\ messages' = messages
    /\ \A r \in Requests : Settled(r)' = Settled(r)

\* A step that keeps them is none of the abstract thread's.
LEMMA LogStutters ==
    ASSUME LogKept
    PROVE  UNCHANGED Log!threadLogVars
<1>1. [r \in Requests |-> Settled(r)]' = [r \in Requests |-> Settled(r)]
    BY DEF LogKept
<1> QED
    BY <1>1 DEF LogKept, Log!threadLogVars

\* A record rewritten on this side of completion settles nothing.
LEMMA NotSettled ==
    ASSUME TypeOK, NEW r \in Requests, NEW record,
           ledger[r].status # "completed", record.status # "completed",
           ledger' = [ledger EXCEPT ![r] = record]
    PROVE  \A q \in Requests : Settled(q)' = Settled(q)
<1>1. ledger \in [Requests -> Record]
    BY DEF TypeOK, StoreTypeOK
<1> QED
    BY <1>1 DEF Settled

\* The numbers of the abstract thread.
LEMMA Issued ==
    ASSUME TypeOK
    PROVE  /\ nextSeq \in Nat \ {0} /\ nextSeq - 1 \in Nat
           /\ (nextSeq - 1) + 1 = nextSeq /\ (nextSeq + 1) - 1 = (nextSeq - 1) + 1
BY DEF TypeOK, StoreTypeOK

\* Claims, of new turns and of retries, open the log; releases close it.
LEMMA LeaseSteps ==
    ASSUME IInv, NEW w \in Handlers,
           ClaimNew(w) \/ ClaimRetry(w) \/ ReleaseThread(w) \/ LateRelease(w)
    PROVE  Log!Next \/ UNCHANGED Log!threadLogVars
<1>1. req[w] \in Requests /\ TypeOK
    BY ServesRequest DEF IInv, ClaimNew, ClaimRetry, ReleaseThread, LateRelease
<1>2. UNCHANGED <<messages, ledger>>
    BY DEF ClaimNew, ClaimRetry, ReleaseThread, LateRelease
<1>3. /\ \A r \in Requests : Settled(r)' = Settled(r)
      /\ [r \in Requests |-> Settled(r)]' = [r \in Requests |-> Settled(r)]
    BY <1>2 DEF Settled
<1>4. ASSUME Claimable(req[w]), Claim(req[w]), nextSeq' \in {nextSeq, nextSeq + 1}
      PROVE  Log!Next
    <2>1. lease.holder \in {None, req[w]} /\ lease'.holder = req[w]
        BY <1>4 DEF Claimable, Claim
    <2>2. (nextSeq - 1)' \in {nextSeq - 1, (nextSeq - 1) + 1}
        BY <1>1, <1>4, Issued
    <2>3. Log!Open(req[w])
        BY <1>2, <1>3, <2>1, <2>2 DEF Log!Open
    <2> QED
        BY <1>1, <2>3 DEF Log!Next
<1>5. ASSUME Release(req[w]), UNCHANGED nextSeq
      PROVE  Log!Next \/ UNCHANGED Log!threadLogVars
    <2>1. CASE lease.holder = req[w]
        <3>1. lease'.holder = None
            BY <1>5, <2>1 DEF Release
        <3> QED
            BY <1>2, <1>3, <1>5, <3>1 DEF Log!Close, Log!Next
    <2>2. CASE lease.holder # req[w]
        BY <1>2, <1>3, <1>5, <2>2, LogStutters DEF LogKept, Release
    <2> QED
        BY <2>1, <2>2
<1>6. ASSUME UNCHANGED <<lease, nextSeq>>
      PROVE  UNCHANGED Log!threadLogVars
    BY <1>2, <1>3, <1>6, LogStutters DEF LogKept
<1> QED
    BY <1>4, <1>5, <1>6 DEF ClaimNew, ClaimRetry, ReleaseThread, LateRelease, TakeTurn

\* The question is the writer's first word, under the number its record owns.
LEMMA QuestionSteps ==
    ASSUME IInv, NEW w \in Handlers, AppendUserMessage(w)
    PROVE  Log!Next \/ UNCHANGED Log!threadLogVars
<1>1. req[w] \in Requests /\ TypeOK
    BY ServesRequest DEF IInv, AppendUserMessage
<1>2. /\ UNCHANGED <<lease, nextSeq, ledger>>
      /\ [r \in Requests |-> Settled(r)]' = [r \in Requests |-> Settled(r)]
    BY DEF AppendUserMessage, Settled
<1>3. CASE UNCHANGED messages
    BY <1>2, <1>3, LogStutters DEF LogKept, Settled
<1>4. CASE MayAppend(w, "user") /\ Say(w, "user", seq[w])
    <2>1. /\ ledger[req[w]].status # "absent" /\ seq[w] = ledger[req[w]].useq
          /\ seq[w] \in 1 .. nextSeq - 1
        BY <1>1 DEF AppendUserMessage, IInv, SeqOwned, SeqIssued
    <2>2. ~Said(req[w], "user") /\ lease.holder = req[w]
        BY <1>4 DEF MayAppend
    <2>3. ~Said(req[w], "assistant")
        <3>1. \A j \in DOMAIN messages : \A i \in 1 .. j - 1 : i \in DOMAIN messages
            BY <1>1 DEF TypeOK, StoreTypeOK
        <3> QED
            BY <2>2, <3>1 DEF IInv, AnswerFollowsQuestion, Said
    <2>4. ASSUME NEW i \in DOMAIN messages
          PROVE  messages[i].seq # seq[w]
        <3>1. messages[i].req \in Requests
            BY <1>1, MessageFacts
        <3>2. messages[i].role \in {"user", "assistant"}
            <4>1. messages \in Seq(Message)
                BY <1>1 DEF TypeOK, StoreTypeOK
            <4>2. messages[i] \in Message
                BY <4>1, ElementFacts
            <4> QED
                BY <4>2 DEF Message
        <3>3. CASE IsUser(i)
            <4>1. messages[i].req # req[w]
                BY <2>2, <3>3 DEF Said, IsUser
            <4> QED
                BY <1>1, <2>1, <3>1, <3>3, <4>1 DEF IInv, SeqOwned
        <3>4. CASE IsAssistant(i)
            BY <1>1, <2>1, <3>4 DEF IInv, SeqOwned
        <3> QED
            BY <3>2, <3>3, <3>4 DEF IsUser, IsAssistant
    <2>5. ~Log!Spoken(seq[w])
        BY <2>4 DEF Log!Spoken
    <2>6. Log!Write(req[w], "user", seq[w])
        BY <1>4 DEF Say, Log!Write
    <2>7. ~Log!Holds(req[w], "user") /\ ~Log!Holds(req[w], "assistant")
        BY <2>2, <2>3 DEF Said, Log!Holds
    <2>8. Log!Ask(req[w])
        BY <1>2, <2>1, <2>2, <2>5, <2>6, <2>7 DEF Log!Ask
    <2> QED
        BY <1>1, <2>8 DEF Log!Next
<1> QED
    BY <1>3, <1>4 DEF AppendUserMessage

\* The answer, late or not, is the writer's last word, under the next number.
LEMMA AnswerSteps ==
    ASSUME IInv, NEW w \in Handlers, FinalizeResponse(w) \/ LateAnswer(w)
    PROVE  Log!Next \/ UNCHANGED Log!threadLogVars
<1>1. req[w] \in Requests /\ TypeOK /\ Said(req[w], "user")
    <2>1. req[w] \in Requests
        BY ServesRequest DEF IInv, FinalizeResponse, LateAnswer
    <2> QED
        BY <2>1 DEF IInv, Backed, FinalizeResponse, LateAnswer
<1>2. /\ UNCHANGED <<lease, ledger>>
      /\ [r \in Requests |-> Settled(r)]' = [r \in Requests |-> Settled(r)]
    BY DEF FinalizeResponse, LateAnswer, Settled
<1>3. CASE UNCHANGED <<messages, nextSeq>>
    BY <1>2, <1>3, LogStutters DEF LogKept, Settled
<1>4. CASE MayAppend(w, "assistant") /\ Say(w, "assistant", nextSeq) /\ nextSeq' = nextSeq + 1
    <2>1. ~Said(req[w], "assistant") /\ lease.holder = req[w]
        BY <1>4 DEF MayAppend
    <2>2. (nextSeq - 1)' = (nextSeq - 1) + 1
        BY <1>1, <1>4, Issued
    <2>3. Log!Write(req[w], "assistant", (nextSeq - 1) + 1)
        BY <1>1, <1>4, Issued DEF Say, Log!Write
    <2>4. Log!Holds(req[w], "user") /\ ~Log!Holds(req[w], "assistant")
        BY <1>1, <2>1 DEF Said, Log!Holds
    <2>5. Log!Reply(req[w])
        BY <1>2, <2>1, <2>2, <2>3, <2>4 DEF Log!Reply
    <2> QED
        BY <1>1, <2>5 DEF Log!Next
<1> QED
    BY <1>3, <1>4 DEF FinalizeResponse, LateAnswer

\* A terminal write settles its request when it completes it; its answer is there.
LEMMA TerminalSteps ==
    ASSUME IInv, NEW w \in Handlers, MarkTerminal(w) \/ LateTerminal(w)
    PROVE  Log!Next \/ UNCHANGED Log!threadLogVars
<1>1. req[w] \in Requests /\ TypeOK
    BY ServesRequest DEF IInv, MarkTerminal, LateTerminal
<1>2. UNCHANGED <<lease, nextSeq, messages>>
    BY DEF MarkTerminal, LateTerminal, threadVars
<1>3. CASE UNCHANGED ledger
    BY <1>2, <1>3, LogStutters DEF LogKept, Settled
<1>4. ASSUME NEW s, ledger[req[w]].status \in Active, SetTerminal(w, s),
             s = "completed" => Said(req[w], "assistant")
      PROVE  Log!Next \/ UNCHANGED Log!threadLogVars
    <2>1. /\ ledger \in [Requests -> Record]
          /\ ledger[req[w]].status # "completed"
        BY <1>1, <1>4 DEF TypeOK, StoreTypeOK, Active
    <2>2. CASE s = "completed"
        <3>1. /\ ledger'[req[w]].status = "completed" /\ ledger'[req[w]].answer = w
              /\ \A q \in Requests : q # req[w] => ledger'[q] = ledger[q]
            BY <1>1, <1>4, <2>1, <2>2 DEF SetTerminal, SetRecord
        <3>2. [r \in Requests |-> Settled(r)]'
                = [[r \in Requests |-> Settled(r)] EXCEPT ![req[w]] = w]
            BY <1>1, <3>1 DEF Settled
        <3>3. [r \in Requests |-> Settled(r)][req[w]] = None
            BY <1>1, <2>1 DEF Settled
        <3>4. Log!Holds(req[w], "assistant")
            BY <1>4, <2>2 DEF Said, Log!Holds
        <3>5. Log!Settle(req[w])
            BY <1>2, <3>2, <3>3, <3>4 DEF Log!Settle
        <3> QED
            BY <1>1, <3>5 DEF Log!Next
    <2>3. CASE s # "completed"
        <3> DEFINE record == [status |-> s, useq |-> ledger[req[w]].useq,
                              updated |-> now, answer |-> None]
        <3>1. ledger' = [ledger EXCEPT ![req[w]] = record]
            BY <1>4, <2>3 DEF SetTerminal, SetRecord
        <3>2. record.status # "completed"
            BY <2>3
        <3> HIDE DEF record
        <3>3. \A q \in Requests : Settled(q)' = Settled(q)
            BY <1>1, <2>1, <3>1, <3>2, NotSettled
        <3> QED
            BY <1>2, <3>3, LogStutters DEF LogKept
    <2> QED
        BY <2>2, <2>3
<1>5. /\ MarkTerminal(w) /\ want[w] = "completed" => Said(req[w], "assistant")
      /\ LateTerminal(w) /\ late[w].want = "completed" => Said(req[w], "assistant")
    BY DEF IInv, Backed, MarkTerminal, LateTerminal
<1> QED
    BY <1>3, <1>4, <1>5 DEF MarkTerminal, LateTerminal

\* Records that are inserted, taken up again or started are not settled by it.
LEMMA RecordSteps ==
    ASSUME IInv, NEW w \in Handlers,
           InsertRecord(w) \/ ResumeRecord(w) \/ StartRun(w) \/ LateStart(w)
    PROVE  UNCHANGED Log!threadLogVars
<1>1. req[w] \in Requests /\ TypeOK
    BY ServesRequest DEF IInv, InsertRecord, ResumeRecord, StartRun, LateStart
<1>2. UNCHANGED <<lease, nextSeq, messages>>
    BY DEF InsertRecord, ResumeRecord, StartRun, LateStart, threadVars
<1>3. \A q \in Requests : Settled(q)' = Settled(q)
    <2>1. CASE UNCHANGED ledger
        BY <2>1 DEF Settled
    <2>2. CASE InsertRecord(w)
        BY <1>1, <2>1, <2>2, NotSettled DEF InsertRecord
    <2>3. CASE ResumeRecord(w)
        BY <1>1, <2>1, <2>3, NotSettled
           DEF ResumeRecord, Resumable, Active, Retryable, SetRecord
    <2>4. CASE StartRun(w) \/ LateStart(w)
        BY <1>1, <2>1, <2>4, NotSettled DEF StartRun, LateStart, SetRecord
    <2> QED
        BY <2>2, <2>3, <2>4
<1> QED
    BY <1>2, <1>3, LogStutters DEF LogKept

\* All other steps leave the lease, the thread and the ledger alone.
LEMMA QuietSteps ==
    ASSUME UNCHANGED <<threadVars, ledger>>
    PROVE  UNCHANGED Log!threadLogVars
BY LogStutters DEF LogKept, Settled, threadVars

\* The lease, the thread and the ledger together are a log with one writer: a
\* question is asked and answered once, by the request that holds the lease, under
\* numbers of its own, and a request is settled once its answer is in the thread
\* (_claim_thread, append_message_once, finalize_stream_response,
\* mark_message_request_terminal), whatever runs, retries, cancellations, crashes
\* and late calls meet.
THEOREM ThreadKeepsALog == Spec => ThreadIsALog
<1>1. Init => Log!Init
    <2> SUFFICES ASSUME Init PROVE Log!Init
        OBVIOUS
    <2>1. [r \in Requests |-> Settled(r)] = [r \in Requests |-> None]
        BY DEF Init, Settled
    <2> QED
        BY <2>1 DEF Init, Log!Init
<1>2. IInv /\ [Next]_vars => [Log!Next]_(Log!threadLogVars)
    <2> SUFFICES ASSUME IInv, [Next]_vars
                 PROVE  Log!Next \/ UNCHANGED Log!threadLogVars
        OBVIOUS
    <2>1. ASSUME NEW w \in Handlers, NEW r \in Requests, Post(w, r) \/ PostCancel(w, r)
          PROVE  UNCHANGED <<threadVars, ledger>>
        BY <2>1 DEF Post, PostCancel, threadVars
    <2>2. ASSUME NEW w \in Handlers,
                 \/ RereadLedger(w) \/ RunGraph(w) \/ ConfirmTerminal(w) \/ LateConfirm(w)
                 \/ CleanupStream(w) \/ ExitStream(w) \/ Leave(w) \/ Crash(w) \/ CutOff(w)
          PROVE  UNCHANGED <<threadVars, ledger>>
        BY <2>2 DEF RereadLedger, RunGraph, ConfirmTerminal, LateConfirm, CleanupStream,
                    ExitStream, Leave, Crash, CutOff, threadVars
    <2>3. CASE Tick \/ UNCHANGED vars
        BY <2>3, QuietSteps DEF Tick, vars, threadVars
    <2> QED
        BY NextCases, QuietSteps, LeaseSteps, QuestionSteps, AnswerSteps, TerminalSteps,
           RecordSteps, <2>1, <2>2, <2>3
<1> QED
    BY <1>1, <1>2, Invariance, PTL DEF Spec, ThreadIsALog, Log!Spec

=============================================================================
