--------------------------- MODULE ProviderClients ---------------------------
(***************************************************************************)
(* The clients of external services other than the streamed reply: the     *)
(* completions of agent_runtime/llm_gateway.py, the encoder, the reranker, *)
(* the web search, and the vision and PDF services of the ingestion.  Each *)
(* sends its requests in rounds: a round repeats one request as often as   *)
(* its retries allow (semikb_provider_resilience), and the client chooses  *)
(* the next round from the way the last one ended.                         *)
(*                                                                         *)
(* A client is one object that its callers share.  It keeps the attempts   *)
(* of the last call in last_attempts, where some callers read them after   *)
(* the call has returned.  Calls of the event loop and of a worker process *)
(* return and read in one step; HyDE, encoder and reranker run in threads, *)
(* where other calls come between.                                         *)
(***************************************************************************)
EXTENDS ProviderCalls, Sequences

CONSTANTS
    Callers,    \* searches and tasks
    Failures,   \* how a request may fail, of Retryable and of those that do not pass
    MaxPolls    \* times a task of the PDF service is found at work

ASSUME FailuresAssumption ==
    Failures \subseteq Retryable \cup {"rejected", "invalid_response", "stream_interrupted", "configuration"}

VARIABLES
    client,     \* which of them is at work
    last,       \* its last_attempts
    call        \* of each caller: [pc, round, tried, log, sent, polls, told, overtaken, answered]

clientVars == <<client, last, call>>

Completing == {"complete", "hyde"}
Threaded == {"hyde", "encode", "rerank"}
Alone == {"probe", "vision", "parse"}
Clients == Completing \cup Threaded \cup Alone \cup {"web"}

IdleCall ==
    [pc |-> "idle", round |-> 1, tried |-> <<>>, log |-> <<>>, sent |-> <<>>, polls |-> 0,
     told |-> <<>>, overtaken |-> FALSE, answered |-> FALSE]

-----------------------------------------------------------------------------
(* Requests *)

\* The PDF service's batch is created by the first round of a task.
AttemptsOf(round) == IF client = "parse" /\ round = 1 THEN 1 ELSE MaxAttempts

\* What the request of each client may raise: an answer of a wrong shape counts as a
\* failure.  Only the probe of a stream may see it break off, and only the web search
\* calls a runtime that may not be installed.
HttpFailures == Failures \cap (Retryable \cup {"rejected"})
InvalidAnswer == Failures \cap {"invalid_response"}
CompletionFailures == HttpFailures \cup InvalidAnswer
HydeFailures == HttpFailures \cup InvalidAnswer
ProbeFailures == Failures \ {"configuration"}
EncodingFailures == HttpFailures \cup InvalidAnswer
RerankFailures == HttpFailures \cup InvalidAnswer
VisionFailures == HttpFailures \cup InvalidAnswer
WebFailures == Failures \cap {"timeout", "transport", "invalid_response", "configuration"}
PdfFailures(round) == IF round \in {2, 4} THEN HttpFailures ELSE HttpFailures \cup InvalidAnswer

FailuresOf(round) ==
    CASE client = "complete" -> CompletionFailures
      [] client = "hyde" -> HydeFailures
      [] client = "probe" -> ProbeFailures
      [] client = "encode" -> EncodingFailures
      [] client = "rerank" -> RerankFailures
      [] client = "vision" -> VisionFailures
      [] client = "web" -> WebFailures
      [] client = "parse" -> PdfFailures(round)

\* What an answer brings: pages that are left when the unsafe and the repeated ones are
\* gone; a batch, its archive, or no such thing although the service answers.
WebAnswers == {"pages", "none"}

PdfAnswers(round) ==
    CASE round = 1 -> {"batch", "unusable"}
      [] round = 2 -> {"value"}
      [] round = 3 -> {"working", "done", "unusable"}
      [] round = 4 -> {"value", "unusable"}

Answers(round) == IF client = "web" THEN WebAnswers ELSE IF client = "parse" THEN PdfAnswers(round) ELSE {"value"}

\* The audit of one attempt.
Attempt(c, outcome, failure) ==
    [round |-> call[c].round, attempt |-> Len(call[c].tried) + 1, outcome |-> outcome, failure |-> failure]

Sent(c, result) == [round |-> call[c].round, attempt |-> Len(call[c].tried) + 1, result |-> result]

WillRetry(c, failure) == failure \in Retryable /\ Len(call[c].tried) + 1 < AttemptsOf(call[c].round)

-----------------------------------------------------------------------------
(* The end of a call *)

\* What a caller finds in last_attempts is another call's once that has begun or ended.
Overtake(calls, c) ==
    [d \in Callers |-> IF d # c /\ calls[d].pc = "returned" THEN [calls[d] EXCEPT !.overtaken = TRUE] ELSE calls[d]]

\* The encoder's error carries its own attempts, so that nothing is read behind it.
ReadsLater(answered) == client \in Threaded /\ (client = "encode" => answered)

\* Mutant of Logged: the attempts of a round that failed are forgotten.
LoggedIfAnswered(c, tried, answered) == IF answered THEN call[c].log \o tried ELSE call[c].log

\* The attempts of a call with those of the round that ends.
Logged(c, tried, answered) == call[c].log \o tried

Return(c, log, sent, answered) ==
    LET later == ReadsLater(answered) IN
    /\ last' = log
    /\ call' = Overtake([call EXCEPT ![c] =
           [@ EXCEPT !.pc = IF later THEN "returned" ELSE "done", !.log = log, !.sent = sent, !.tried = <<>>,
                     !.answered = answered, !.told = IF later THEN call[c].told ELSE log]], c)

\* The client of the PDF service keeps its attempts in last_attempts from the start.
NextRound(c, round, log, sent) ==
    /\ call' = [call EXCEPT ![c].round = round, ![c].tried = <<>>, ![c].log = log, ![c].sent = sent,
                            ![c].polls = IF round = call[c].round THEN @ + 1 ELSE @]
    /\ last' = IF client = "parse" THEN log ELSE last

-----------------------------------------------------------------------------
(* Steps of a call *)

\* Clients of a script or of a worker process have one caller at a time.
MayBegin(c) == call[c].pc = "idle" /\ (client \in Alone => \A d \in Callers : call[d].pc = "idle")

BeginCall(c) ==
    /\ MayBegin(c)
    /\ last' = <<>>
    /\ call' = Overtake([call EXCEPT ![c].pc = "calling"], c)
    /\ UNCHANGED client

Calling(c) == call[c].pc = "calling" /\ UNCHANGED client

\* The rounds of a completion are its providers.
MoreProviders(c) == client \in Completing /\ call[c].round < NumProviders

\* The web is asked once more, in other words, when nothing usable has come.
AsksAgain(answer, round) == answer = "none" /\ round = 1

\* A PDF is announced, uploaded, waited for and fetched.
PdfGoesOn(answer, round) == client = "parse" /\ round < 4 /\ answer \in {"batch", "value", "done"}

\* A provider whose configuration lacks something is passed over.
Misconfigured(c) ==
    /\ Calling(c) /\ client \in Completing /\ call[c].tried = <<>>
    /\ IF MoreProviders(c)
       THEN NextRound(c, call[c].round + 1, call[c].log, call[c].sent)
       ELSE Return(c, call[c].log, call[c].sent, FALSE)

RequestRetried(c) ==
    /\ Calling(c)
    /\ \E failure \in FailuresOf(call[c].round) :
         /\ WillRetry(c, failure)
         /\ call' = [call EXCEPT ![c].tried = Append(@, Attempt(c, "retrying", failure)),
                                 ![c].sent = Append(@, Sent(c, failure))]
         /\ UNCHANGED last

\* No client but a completion goes on behind a round that has failed.
RoundExhausted(c) ==
    /\ Calling(c)
    /\ \E failure \in FailuresOf(call[c].round) :
         /\ ~WillRetry(c, failure)
         /\ LET log == Logged(c, Append(call[c].tried, Attempt(c, "failed", failure)), FALSE)
                sent == Append(call[c].sent, Sent(c, failure))
            IN  IF MoreProviders(c)
                THEN NextRound(c, call[c].round + 1, log, sent)
                ELSE Return(c, log, sent, FALSE)

\* A round that has brought an answer ends the call, or leads to the next one.
RoundAnswered(c) ==
    /\ Calling(c)
    /\ \E answer \in Answers(call[c].round) :
         LET log == Logged(c, Append(call[c].tried, Attempt(c, "succeeded", "none")), TRUE)
             sent == Append(call[c].sent, Sent(c, "none"))
             round == call[c].round
         IN  CASE AsksAgain(answer, round) -> NextRound(c, 2, log, sent)
               [] answer = "working" -> call[c].polls < MaxPolls /\ NextRound(c, round, log, sent)
               [] PdfGoesOn(answer, round) -> NextRound(c, round + 1, log, sent)
               [] OTHER -> Return(c, log, sent, answer # "unusable")

\* The time for a PDF has passed.
TimeIsUp(c) ==
    /\ Calling(c) /\ client = "parse" /\ call[c].round = 3 /\ call[c].tried = <<>>
    /\ Return(c, call[c].log, call[c].sent, FALSE)

\* The search takes the attempts from the client that has returned to it.
ReadAttempts(c) ==
    /\ call[c].pc = "returned"
    /\ call' = [call EXCEPT ![c].pc = "done", ![c].told = last]
    /\ UNCHANGED <<client, last>>

ClientStepOf(c) ==
    \/ Misconfigured(c) \/ RequestRetried(c) \/ RoundExhausted(c) \/ RoundAnswered(c)
    \/ TimeIsUp(c) \/ ReadAttempts(c)

ClientsInit == client \in Clients /\ last = <<>> /\ call = [c \in Callers |-> IdleCall]

\* Nobody calls any more.
ClientsRest ==
    /\ \A c \in Callers : call[c].pc = "done" \/ (call[c].pc = "idle" /\ ~MayBegin(c))
    /\ UNCHANGED clientVars

ClientsStep == (\E c \in Callers : BeginCall(c) \/ ClientStepOf(c)) \/ ClientsRest

-----------------------------------------------------------------------------
(* Properties *)

\* What the audit has to say of the requests that were sent.
Account(sent) ==
    [i \in DOMAIN sent |->
       [round |-> sent[i].round, attempt |-> sent[i].attempt, failure |-> sent[i].result,
        outcome |-> IF sent[i].result = "none" THEN "succeeded"
                    ELSE IF i < Len(sent) /\ sent[i + 1].round = sent[i].round THEN "retrying"
                    ELSE "failed"]]

\* Every request is told, in its order and with its outcome, whichever providers,
\* variants and polls a call went through and whoever shares the client, unless a call
\* in another thread came between the end of this one and the reading of its attempts.
AuditIsWhole ==
    \A c \in Callers : call[c].pc = "done" /\ ~call[c].overtaken => call[c].told = Account(call[c].sent)

\* A call that has begun comes to its end.
CallsComeBack == \A c \in Callers : []<>(call[c].pc \in {"idle", "done"})

=============================================================================
