------------------------------ MODULE AgentTurns ------------------------------
(***************************************************************************)
(* The turns of one thread (agent_runtime/graph.py, and service.py for     *)
(* what runs it): a message starts the graph afresh or answers a question  *)
(* it waits with; each node takes the state that the checkpoint holds and  *)
(* leaves the next one; the thread gets the outcome.                       *)
(*                                                                         *)
(* One message of the thread runs at a time, which MessageRequests is      *)
(* about.  A run that fails or is cancelled leaves the checkpoint before   *)
(* the node it was in, and the thread as it was.  Of LangGraph (external)  *)
(* the code relies on: a checkpoint after each node; a resume goes on at   *)
(* the pending node, and its text answers the interrupt of that node and   *)
(* no later one; a resume of a graph that has ended returns the state it   *)
(* ended with.                                                             *)
(***************************************************************************)
EXTENDS ClarificationFrames, ConversationContext, TaskExecution, EvidenceSufficiency, ManufacturingTools

CONSTANTS
    Client,       \* who writes to the thread
    Scope,        \* what the actor may ask about: [products, tool_ids]
    MaxRounds,    \* agent_max_clarification_rounds
    Raws(_),      \* what the model may make of a message
    Found,        \* what a retrieval may return
    Judged,       \* what the model may say of partial evidence, None for nothing
    Claims(_),    \* what an answer may claim of a ledger
    MaxTurns, MaxFaults

\* No value is none of the routes, nor of what a web search may come to.
ASSUME NoneAssumption == None \notin AgentRoute \cup {"external", "external_unavailable"}

\* ge=1, le=3
ASSUME RoundsAssumption == MaxRounds \in 1 .. 3

ASSUME BoundsAssumption == MaxTurns \in Nat /\ MaxFaults \in Nat

\* The slots read from a text are slots of the context.
ASSUME SaidAssumption == \A m \in Message : IsMessage(Said[m])

\* What the model makes of a message fits the schema; anything else has been sent back to it.
ASSUME RawsAssumption == \A m \in Message : \A raw \in Raws(m) : IsRawUnderstanding(raw)

VARIABLES
    thread,   \* [waiting, messages, active_context]
    graph,    \* the checkpoint: [at, s]
    run,      \* the message that runs: [client, entry, resume], or NoRun
    client,   \* what each client is about to send: [pc, message, resume_checkpoint]
    turns, faults

vars == <<thread, graph, run, client, turns, faults>>

-----------------------------------------------------------------------------
(* Helpers *)

NoRun == [client |-> None, entry |-> 0, resume |-> None]
Idle == [pc |-> "idle", message |-> None, resume_checkpoint |-> FALSE]

NoContext == [slots |-> [n \in {} |-> None], evidence_refs |-> {}, trace_id |-> None, recent |-> <<>>, current |-> 0]

NoPlan == Plan("clarify", 0, <<>>, <<>>)

NoUnderstanding ==
    [task_items |-> <<>>, explicit_slots |-> NoSlots, inherited_slots |-> NoSlots, slot_operations |-> {}]

Slots(s) == Overlay(s.understanding.inherited_slots, s.understanding.explicit_slots)

Tasks(s) == s.understanding.task_items

Running == run.client # None

Interrupts == {"clarify_missing_fields", "resume_clarification", "pause_clarification"}

\* The graph has ended, or asks something of the user.
Paused == \/ graph.at = "end"
          \/ graph.at \in Interrupts /\ run.resume = None

ScopeErrors(slots) ==
    LET outside(name, allowed) == name \in DOMAIN slots /\ allowed # {} /\ slots[name] \notin allowed
    IN  (IF outside("product", Scope.products) THEN <<"product_out_of_scope">> ELSE <<>>)
          \o (IF outside("tool_id", Scope.tool_ids) THEN <<"tool_out_of_scope">> ELSE <<>>)

TaskResults(s) ==
    Finalize(s.route_plan, Tasks(s), s.route_decision, s.evidence_ledger, s.citations, s.authorization_errors)

-----------------------------------------------------------------------------
(* What a task leaves behind *)

NoState ==
    [request |-> None, conversation_context |-> NoContext, understanding |-> NoUnderstanding, route_plan |-> NoPlan,
     route_decision |-> "clarify", initial_route_decision |-> None, authorization_errors |-> <<>>,
     missing_required_fields |-> <<>>, clarification_frame |-> NoFrame, clarification_round |-> 0,
     clarification_relation |-> None, clarification_resume_only |-> FALSE, clarification_response |-> None,
     reranked_evidence |-> {}, live_data_refs |-> {}, external_evidence |-> None, evidence_ledger |-> {},
     answer |-> {}, citations |-> {}, task_results |-> <<>>, trace_id |-> None, web_fallback_allowed |-> FALSE,
     answer_mode |-> "structured_investigation", status |-> "new"]

\* Only the mode of the last answer stays, and what the caller has set.
IngestRequest(s) ==
    [NoState EXCEPT !.request = s.request, !.conversation_context = s.conversation_context,
                    !.clarification_round = s.clarification_round, !.answer_mode = s.answer_mode,
                    !.clarification_response = s.clarification_response, !.status = "running"]

\* A message that takes the place of the request, or that is answered beside it.
ResetTaskState(s, request) ==
    [NoState EXCEPT !.request = request, !.conversation_context = s.conversation_context,
                    !.clarification_frame = s.clarification_frame, !.clarification_round = s.clarification_round,
                    !.clarification_response = s.clarification_response,
                    !.clarification_relation = s.clarification_relation,
                    !.initial_route_decision = s.initial_route_decision, !.route_decision = s.route_decision,
                    !.web_fallback_allowed = s.web_fallback_allowed, !.answer_mode = s.answer_mode,
                    !.status = s.status]

WithPlan(s, u, plan) == [s EXCEPT !.understanding = u, !.route_plan = plan, !.route_decision = plan.route]

ClassificationUpdate(s, u, request) ==
    WithPlan(s, u, Decide(u, Scope, s.conversation_context, Said[request]))

-----------------------------------------------------------------------------
(* Service *)

\* Whether to resume is decided before the thread is claimed.
PrepareMessage(c) ==
    /\ client[c].pc = "idle" /\ turns < MaxTurns
    /\ turns' = turns + 1
    /\ \E m \in Message :
         client' = [client EXCEPT ![c] = [pc |-> "prepared", message |-> m, resume_checkpoint |-> thread.waiting]]
    /\ UNCHANGED <<thread, graph, run, faults>>

\* The claim, the message of the user, and what the graph is given.
StreamMessage(c) ==
    /\ client[c].pc = "prepared" /\ ~Running
    /\ LET entry == Len(thread.messages) + 1
           m == client[c].message
           with == [thread EXCEPT !.messages = Append(@, [id |-> entry, role |-> "user", message |-> m])]
           context == Assemble(with, entry)
           given == [graph.s EXCEPT !.conversation_context = context]
       IN  /\ thread' = with
           /\ run' = [client |-> c, entry |-> entry, resume |-> IF client[c].resume_checkpoint THEN m ELSE None]
           /\ graph' = IF client[c].resume_checkpoint
                       THEN [graph EXCEPT !.s = given]
                       ELSE [at |-> "ingest_request",
                             s |-> [given EXCEPT !.request = m, !.clarification_round = 0]]
    /\ client' = [client EXCEPT ![c] = Idle]
    /\ UNCHANGED <<turns, faults>>

\* What a run ends with: a question, for which the thread waits from now on, or an answer.
BuildResponse(at, entry) ==
    [waiting |-> at # "end", message |-> [id |-> entry, role |-> "assistant", message |-> None]]

\* The response is recorded, and what the thread remembers of it.
FinalizeStreamResponse ==
    /\ Running /\ Paused
    /\ LET s == graph.s
           result == [route |-> s.route_decision, slots |-> Slots(s), ledger |-> s.evidence_ledger,
                      trace_id |-> s.trace_id,
                      slot_operations |-> s.understanding.slot_operations]
           built == BuildResponse(graph.at, Len(thread.messages) + 1)
       IN  thread' = [waiting |-> built.waiting,
                      messages |-> Append(thread.messages, built.message),
                      active_context |-> UpdateActiveContext(thread, result, run.entry)]
    /\ run' = NoRun
    /\ UNCHANGED <<graph, client, turns, faults>>

\* A node raises, a provider gives up, the user cancels, or the outcome is not saved.
Fail ==
    /\ Running /\ faults < MaxFaults
    /\ faults' = faults + 1 /\ run' = NoRun
    /\ UNCHANGED <<thread, graph, client, turns>>

-----------------------------------------------------------------------------
(* Nodes *)

\* Mutant of Answered: the same text answers the next interrupt, too.
AnsweredAgain == run

Answered == [run EXCEPT !.resume = None]

\* A node without an interrupt: a text it was resumed with is dropped.
Node(at, s, next) ==
    /\ Running /\ graph.at = at
    /\ graph' = [at |-> next, s |-> s]
    /\ run' = Answered
    /\ UNCHANGED <<thread, client, turns, faults>>

\* A node that waits for the user, and what it makes of the answer.
Interrupt(at, s) ==
    /\ Running /\ graph.at = at /\ run.resume # None
    /\ graph' = [at |-> "resolve_clarification_turn", s |-> [s EXCEPT !.clarification_response = run.resume]]
    /\ run' = Answered
    /\ UNCHANGED <<thread, client, turns, faults>>

Ingest == Node("ingest_request", IngestRequest(graph.s), "authorize_scope")

AuthorizeScope ==
    Node("authorize_scope", [graph.s EXCEPT !.authorization_errors = <<>>], "classify_and_extract")

ClassifyAndExtract ==
    /\ graph.at = "classify_and_extract"
    /\ LET s == graph.s
       IN  \E raw \in RawUnderstandings(Raws(s.request)) :
             Node("classify_and_extract",
                  ClassificationUpdate(s, Understand(Said[s.request], s.conversation_context, raw, FALSE), s.request),
                  "validate_required_fields")

\* An open frame is asked again; else a new one is named for the message.
Asks(plan) == plan.missing_slots # <<>> \/ plan.route = "clarify"

WithFrame(s, frame) ==
    [s EXCEPT !.authorization_errors = ScopeErrors(Slots(s)),
              !.clarification_frame = IF Asks(s.route_plan) THEN frame ELSE @,
              !.missing_required_fields = IF Asks(s.route_plan) THEN frame.pending ELSE <<>>]

ValidatedFields(s) ==
    WithFrame(s, BuildClarificationFrame(run.entry, s.request, s.understanding, s.route_plan,
                                         s.route_plan.missing_slots, s.clarification_frame))

\* Mutant of RouteAfterValidation: what the route needs is not looked at.
RouteAfterValidationOfRoute(s) ==
    IF s.authorization_errors # <<>> \/ s.route_decision = "refuse" THEN "refuse_request"
    ELSE IF s.route_decision = "chat_direct" THEN "direct_answer"
    ELSE IF s.route_decision # "clarify" \/ s.clarification_round >= MaxRounds THEN "execute_combination_prelude"
    ELSE "prepare_clarification_reply"

RouteAfterValidation(s) ==
    IF s.authorization_errors # <<>> \/ s.route_decision = "refuse" THEN "refuse_request"
    ELSE IF s.route_decision = "chat_direct" THEN "direct_answer"
    ELSE IF s.missing_required_fields = <<>> /\ s.route_decision # "clarify" THEN "execute_combination_prelude"
    ELSE IF s.clarification_round >= MaxRounds THEN "insufficient_information"
    ELSE "prepare_clarification_reply"

ValidateRequiredFields ==
    /\ graph.at = "validate_required_fields"
    /\ \E s \in {ValidatedFields(graph.s)} : Node("validate_required_fields", s, RouteAfterValidation(s))

PrepareClarificationReply ==
    Node("prepare_clarification_reply", [graph.s EXCEPT !.task_results = TaskResults(graph.s)],
         "clarify_missing_fields")

ClarifyMissingFields ==
    LET asked == graph.s.clarification_frame.round + 1
    IN  Interrupt("clarify_missing_fields",
                  [graph.s EXCEPT !.clarification_frame.round = asked,
                                  !.clarification_frame.status = "waiting",
                                  !.clarification_round = asked])

\* The question that waits is asked once more.
ResumeOnly(s) ==
    [s EXCEPT !.route_decision = "clarify",
              !.clarification_frame.status = "waiting",
              !.clarification_relation = "continue_current",
              !.clarification_resume_only = TRUE,
              !.missing_required_fields = s.clarification_frame.pending,
              !.clarification_round = s.clarification_frame.round]

StillPending(frame, plan) ==
    IF plan.route # "clarify" \/ plan.missing_slots # <<>> THEN plan.missing_slots
    ELSE IF frame.kind = "intent_disambiguation" THEN <<"intent_target">>
    ELSE frame.pending

Continued(c, frame, pending) ==
    [c EXCEPT !.request = frame.request,
              !.clarification_frame = UpdateAfterAnswer(frame, c.understanding, pending),
              !.clarification_relation = "continue_current",
              !.clarification_resume_only = FALSE,
              !.missing_required_fields = pending,
              !.clarification_round = frame.round]

ContinueCurrent(s, u) ==
    LET frame == s.clarification_frame
        continued(c) == Continued(c, frame, StillPending(frame, c.route_plan))
    IN  continued(ClassificationUpdate(s, MergeContinuation(frame, u), frame.request))

\* The answer is a request of its own, beside the frame or in its place.
TakenUp(c, frame, relation) ==
    [c EXCEPT !.clarification_frame = frame,
              !.clarification_relation = relation,
              !.missing_required_fields = IF relation = "replace_with_new_request" THEN @ ELSE frame.pending,
              !.clarification_round = IF relation = "side_conversation" THEN frame.round ELSE 0]

TakeUp(s, u, relation) ==
    LET understood == [u EXCEPT !.clarification_relation = relation,
                                !.interaction_mode = IF relation # "replace_with_new_request" THEN @
                                                     ELSE IF u.primary_intent = "conversation" THEN "conversation"
                                                     ELSE "task",
                                !.cancel_scope = IF relation = "cancel_current" THEN "clarification" ELSE @]
        response == s.clarification_response
    IN  TakenUp(ClassificationUpdate(ResetTaskState(s, response), understood, response),
                TerminalTransition(s.clarification_frame, relation), relation)

Ambiguous(s) ==
    [s EXCEPT !.clarification_frame = TerminalTransition(@, "ambiguous"),
              !.clarification_relation = "ambiguous",
              !.clarification_resume_only = FALSE,
              !.missing_required_fields = s.clarification_frame.pending,
              !.clarification_round = s.clarification_frame.round]

ResolvedAs(relation, s, u) ==
    IF relation = "resume" THEN ResumeOnly(s)
    ELSE IF relation = "continue_current" THEN ContinueCurrent(s, u)
    ELSE IF relation = "ambiguous" THEN Ambiguous(s)
    ELSE TakeUp(s, u, relation)

Resolved(s, u) ==
    ResolvedAs(DecideTurnRelation(s.clarification_frame, Said[s.clarification_response], u), s, u)

RouteAfterResolution(s) ==
    IF s.clarification_resume_only THEN "resume_clarification"
    ELSE CASE s.clarification_relation \in {"continue_current", "replace_with_new_request"}
                -> "validate_required_fields"
           [] s.clarification_relation = "cancel_current" -> "direct_answer"
           [] s.clarification_relation = "side_conversation" -> "answer_side_conversation"
           [] s.clarification_relation = "ambiguous" -> "prepare_relation_clarification"

ResolveClarificationTurn ==
    /\ graph.at = "resolve_clarification_turn"
    /\ LET response == graph.s.clarification_response
       IN  \E raw \in RawUnderstandings(Raws(response)) :
           \E s \in {Resolved(graph.s, Understand(Said[response], graph.s.conversation_context, raw, TRUE))} :
             Node("resolve_clarification_turn", s, RouteAfterResolution(s))

DirectlyAnswered(s) == [s EXCEPT !.answer = {}, !.citations = {}, !.status = "completed"]

AnswerSideConversation ==
    Node("answer_side_conversation", DirectlyAnswered(graph.s), "pause_clarification")

ResumeClarification ==
    Interrupt("resume_clarification", [graph.s EXCEPT !.clarification_resume_only = FALSE])

PrepareRelationClarification ==
    Node("prepare_relation_clarification", graph.s, "pause_clarification")

PauseClarification ==
    Interrupt("pause_clarification", [graph.s EXCEPT !.clarification_frame.status = "waiting"])

DirectAnswer == Node("direct_answer", DirectlyAnswered(graph.s), "finalize_task_results")

RefuseRequest ==
    Node("refuse_request", [graph.s EXCEPT !.answer = {}, !.citations = {}, !.status = "refused"],
         "finalize_task_results")

\* The tasks that only need the history are answered first.
ExecuteCombinationPrelude == Node("execute_combination_prelude", graph.s, "retrieve_evidence")

\* Evidence that cannot be shown again is retrieved anew.
RetrieveEvidence ==
    LET s == graph.s
        reusing == s.route_decision = "reuse_evidence"
        shown == IF reusing /\ s.conversation_context.trace_id # None THEN BOOLEAN ELSE {FALSE}
    IN  \E again \in shown :
          LET route == IF reusing /\ ~again THEN "internal_rag" ELSE s.route_decision
              searched == again \/ route \in {"internal_rag", "rag_and_tool", "rag_and_web"}
          IN  \E evidence \in IF searched THEN Found ELSE {{}} :
                Node("retrieve_evidence",
                     [s EXCEPT !.initial_route_decision = s.route_decision,
                               !.route_decision = route,
                               !.reranked_evidence = evidence,
                               !.external_evidence = None,
                               !.live_data_refs = IF route \in {"tool_only", "rag_and_tool"}
                                                  THEN QueryForPlan(Said[s.request], Slots(s), Tasks(s)) ELSE {},
                               !.trace_id = IF again THEN s.conversation_context.trace_id
                                            ELSE IF searched THEN run.entry ELSE None],
                     "assess_evidence")

AssessEvidence ==
    /\ graph.at = "assess_evidence"
    /\ LET s == graph.s
           assessed(judged) == Assess(s.understanding, s.reranked_evidence, s.initial_route_decision, judged)
           tools == s.route_decision = "tool_only"
       IN  \E judged \in IF assessed(None).status = "partial" THEN Judged ELSE {None} :
             LET a == assessed(judged)
                 public == ~tools /\ a.knowledge_scope = "public_general"
             IN  Node("assess_evidence",
                      [s EXCEPT !.reranked_evidence = IF tools THEN @ ELSE a.eligible,
                                !.web_fallback_allowed = ~tools /\ a.web_fallback_allowed,
                                !.answer_mode = IF public THEN "natural_knowledge" ELSE "structured_investigation"],
                      IF ~tools /\ a.web_fallback_allowed THEN "search_external" ELSE "build_evidence_ledger")

SearchExternal ==
    \E answer \in {"external", "external_unavailable"} :
      Node("search_external",
           [graph.s EXCEPT !.route_decision = "rag_and_web", !.external_evidence = answer],
           "build_evidence_ledger")

Ledger(s) ==
    {[evidence_id |-> c.id, source |-> "internal"] : c \in s.reranked_evidence}
      \cup {[evidence_id |-> tool, source |-> "live"] : tool \in s.live_data_refs}
      \cup IF s.external_evidence = "external" THEN {[evidence_id |-> "web", source |-> "external"]} ELSE {}

BuildEvidenceLedger ==
    Node("build_evidence_ledger", [graph.s EXCEPT !.evidence_ledger = Ledger(graph.s)], "generate_answer")

GenerateAnswer ==
    \E claims \in IF graph.s.evidence_ledger = {} THEN {{}} ELSE Claims(graph.s.evidence_ledger) :
      Node("generate_answer", [graph.s EXCEPT !.answer = claims], "verify_answer")

\* A fact needs a citation, and more than the web where internal evidence governs.
Verified(s) ==
    LET internal == {e.evidence_id : e \in {e \in s.evidence_ledger : e.source = "internal"}}
        external == {e.evidence_id : e \in {e \in s.evidence_ledger : e.source = "external"}}
        governed == \/ s.understanding.knowledge_scope = "internal_controlled"
                    \/ \E t \in Of(Tasks(s)) : t.target_type \in {"sop", "recipe"}
        known(c) == [c EXCEPT !.citations = @ \cap {e.evidence_id : e \in s.evidence_ledger}]
        holds(c) == \/ c.kind = "hypothesis"
                    \/ c.citations # {} /\ ~(internal # {} /\ governed /\ c.citations \subseteq external)
    IN  {c \in {known(c) : c \in s.answer} : holds(c)}

VerifyAnswer ==
    LET verified == Verified(graph.s)
    IN  Node("verify_answer",
             [graph.s EXCEPT !.answer = verified,
                             !.citations = UNION {c.citations : c \in verified},
                             !.status = "completed"],
             "finalize_task_results")

InsufficientInformation ==
    Node("insufficient_information",
         [graph.s EXCEPT !.answer = {}, !.citations = {}, !.status = "insufficient_information"],
         "finalize_task_results")

FinalizeTaskResults ==
    Node("finalize_task_results", [graph.s EXCEPT !.task_results = TaskResults(graph.s)], "audit")

Audit == Node("audit", graph.s, "end")

-----------------------------------------------------------------------------

Init ==
    /\ thread = [waiting |-> FALSE, messages |-> <<>>, active_context |-> NewContext]
    /\ graph = [at |-> "end", s |-> NoState]
    /\ run = NoRun
    /\ client = [c \in Client |-> Idle]
    /\ turns = 0 /\ faults = 0

Clarification ==
    \/ PrepareClarificationReply \/ ClarifyMissingFields \/ ResolveClarificationTurn
    \/ AnswerSideConversation \/ ResumeClarification \/ PrepareRelationClarification \/ PauseClarification

Evidence ==
    \/ ExecuteCombinationPrelude \/ RetrieveEvidence \/ AssessEvidence \/ SearchExternal
    \/ BuildEvidenceLedger \/ GenerateAnswer \/ VerifyAnswer

Step ==
    \/ Ingest \/ AuthorizeScope \/ ClassifyAndExtract \/ ValidateRequiredFields
    \/ Clarification \/ Evidence
    \/ DirectAnswer \/ RefuseRequest \/ InsufficientInformation
    \/ FinalizeTaskResults \/ Audit
    \/ FinalizeStreamResponse

\* No more messages come.
Rest == turns = MaxTurns /\ ~Running /\ (\A c \in Client : client[c] = Idle) /\ UNCHANGED vars

Next == \/ \E c \in Client : PrepareMessage(c) \/ StreamMessage(c)
        \/ Step
        \/ Fail
        \/ Rest

\* The event loop runs every node, and every call of a provider has a timeout:
\* WF_vars(Step), in which ENABLED Step is Running (a run that could not go on would be
\* a deadlock).
Fairness == []<>~Running \/ []<><<Step>>_vars

Spec == Init /\ [][Next]_vars /\ Fairness

-----------------------------------------------------------------------------
(* Properties *)

\* The places of the messages of the user.
SaidByUser(messages) == {i \in 1 .. Len(messages) : messages[i].role = "user"}

\* Threads, checkpoints and runs are made of what the contracts name; a slot that is known,
\* and a run, come from a message of the user.
TypeOK ==
    /\ thread.waiting \in BOOLEAN
    /\ \A e \in Of(thread.messages) : e.role \in {"user", "assistant"} /\ e.message \in Message \cup {None}
    /\ \A slots \in {thread.active_context.slots} :
         IsSlots(Values(slots)) /\ \A n \in DOMAIN slots : slots[n].source \in SaidByUser(thread.messages)
    /\ graph.s.understanding = NoUnderstanding \/ IsUnderstanding(graph.s.understanding)
    /\ IsRoutePlan(graph.s.route_plan)
    /\ graph.s.clarification_frame = NoFrame \/ IsClarificationFrame(graph.s.clarification_frame)
    /\ \A r \in Of(graph.s.task_results) : IsTaskExecutionResult(r)
    /\ run.client \in Client \cup {None} /\ run.entry \in SaidByUser(thread.messages) \cup {0}
    /\ \A c \in Client : client[c].pc \in {"idle", "prepared"} /\ client[c].resume_checkpoint \in BOOLEAN
    /\ turns \in 0 .. MaxTurns /\ faults \in 0 .. MaxFaults

Life == INSTANCE ClarificationLife
          WITH id <- graph.s.clarification_frame.frame_id, status <- graph.s.clarification_frame.status,
               round <- graph.s.clarification_frame.round, Frame <- Nat, NoId <- 0

\* Through answers, interruptions, failures and resumptions a frame is asked at most
\* MaxRounds times, pauses and waits again, and once closed is never asked again.
FramesKeepTheirLife == Life!Spec

Consulting == {"execute_combination_prelude", "retrieve_evidence", "assess_evidence", "search_external",
               "build_evidence_ledger", "generate_answer", "verify_answer"}

\* No document, tool or web search is consulted for a request that still lacks what its
\* route needs, that waits for an answer, or that is outside the actor's scope
\* (docs: a high risk question that lacks a time, product or tool calls no tool).
CallsAreCleared ==
    graph.at \in Consulting =>
      LET s == graph.s
      IN  /\ s.route_plan.route \notin {"clarify", "refuse", "chat_direct"}
          /\ s.authorization_errors = <<>>
          /\ ~IsOpen(s.clarification_frame)
          /\ RequiredMissing(s.understanding, Slots(s), s.route_plan.route) = <<>>

\* The web is never asked about an SOP or a recipe, whatever the words of the question
\* and the model's reading of its scope, and no web evidence is held for such a task, so
\* that no fact of its answer rests on the web.
ControlledRestsOnInternal ==
    (\E t \in Of(Tasks(graph.s)) : t.target_type \in {"sop", "recipe"})
      => graph.at # "search_external" /\ graph.s.external_evidence # "external"

\* When a turn changes what is known of a slot, the evidence found before is not valid
\* any more, and neither is a slot that depends on the changed one.
CorrectionInvalidates ==
    [][LET old == thread.active_context
           new == thread'.active_context
           changed == {n \in DOMAIN old.slots :
                         old.slots[n].valid /\ new.slots[n].valid /\ old.slots[n].value # new.slots[n].value}
           consulted == graph.s.route_decision \notin {"chat_direct", "clarify", "refuse"}
       IN  changed # {} =>
             /\ \A ref \in new.evidence_refs : ref.valid => consulted /\ ref.source = run.entry
             /\ \A n \in DOMAIN new.slots :
                  SlotDependencies(n) \cap changed # {} /\ new.slots[n].valid => n \in DOMAIN Slots(graph.s)
      ]_thread

\* The slots that answer a key, any one of them.
AnswersTo == [product |-> {"product"}, time_range |-> {"time_range"},
              tool_or_chamber |-> {"tool_id", "chamber"}, affected_object |-> AffectedObject]

AnsweredKeys(u) ==
    {key \in DOMAIN AnswersTo : Given(Overlay(u.inherited_slots, u.explicit_slots), AnswersTo[key])}
      \cup IF u.context_message_ids # <<>> THEN {"history_reference"} ELSE {}

\* While a frame is open nothing that it was told is forgotten, whatever comes between, and
\* its questions, the first and those after an answer, leave out what it knows.  The answer
\* that has just been merged is looked at by the validation, and a request that starts afresh
\* is about to forget the frame.
AsksOnlyTheRest ==
    [][LET old == graph.s.clarification_frame
           new == graph'.s.clarification_frame
       IN  IsOpen(new) =>
             /\ IsOpen(old) => AnsweredKeys(old.base) \subseteq AnsweredKeys(new.base)
             /\ graph'.at \notin {"validate_required_fields", "ingest_request"} =>
                  Of(new.pending) \cap AnsweredKeys(new.base) = {}]_graph

\* At the end of a turn every task has its result, and one that would write to a
\* recipe is refused whatever the model says of it.
WritesAreRefused ==
    graph.at = "end" =>
      LET tasks == Tasks(graph.s)
          results == graph.s.task_results
      IN  /\ Len(results) = Len(tasks)
          /\ \A i \in 1 .. Len(tasks) :
               IsForbiddenMutation(tasks[i]) => results[i].status = "refused"

\* A completed task rests on verified citations: an investigation on a document and on
\* live data, and on tasks that are completed themselves.
ResultsAreEarned ==
    graph.at = "end" =>
      \A r \in {r \in Of(graph.s.task_results) : r.status = "completed" /\ r.route # "chat_direct"} :
        LET task == CHOOSE t \in Of(Tasks(graph.s)) : t.task_id = r.task_id
            cited == Cited(graph.s.evidence_ledger, graph.s.citations)
        IN  /\ cited # {}
            /\ r.route = "rag_and_tool" => {"internal", "live"} \subseteq cited
            /\ \A d \in Of(graph.s.task_results) : d.task_id \in task.depends_on => d.status = "completed"

\* Every turn ends: no answer makes the graph ask and resolve for ever.
TurnsEnd == Running ~> ~Running

-----------------------------------------------------------------------------
(* What the documents say of the code and its steps do not keep *)

\* A slot takes another value only from the message of the turn
\* (docs: a correction is kept through the rounds of a clarification).
CorrectionIsKept ==
    [][\A n \in DOMAIN thread.active_context.slots :
         LET old == thread.active_context.slots[n]
             new == thread'.active_context.slots[n]
         IN  old.valid /\ new.valid /\ old.value # new.value
               => <<n, new.value>> \in Said[thread'.messages[run.entry].message].named]_thread

=============================================================================
