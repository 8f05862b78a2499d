---------------------------- MODULE RoutePolicy ----------------------------
(***************************************************************************)
(* The server's policy (agent_runtime/routing.py): what is done with each  *)
(* task of an understood message, and the one route of the request.        *)
(***************************************************************************)
EXTENDS AgentContracts

RouteThreshold ==
    [chat_direct |-> 50, reuse_evidence |-> 82, internal_rag |-> 58,
     tool_only |-> 68, rag_and_tool |-> 72, rag_and_web |-> 72]

Threshold(route) == IF route \in DOMAIN RouteThreshold THEN RouteThreshold[route] ELSE 65

IsEvidenceFollowup(m) == "evidence_followup" \in m.signs

\* Evidence of an earlier answer that nothing has invalidated.
HasValidEvidence(context) == \E ref \in context.evidence_refs : ref.valid

WebAsked(m) == "external" \in m.signs /\ "web_disabled" \notin m.signs

PreviousTargets == {"previous_user_message", "previous_answer"}
Rewriting == {"simplify", "summarize", "translate"}

IsHistoryTask(task) == task.target_type \in PreviousTargets /\ task.action \in Rewriting \cup {"recall"}

IsForbiddenMutation(task) == task.action = "execute" /\ task.target_type = "recipe"

\* The scope of an actor lists what it may ask about; an empty list means anything.
ScopeError(slots, scope) ==
    LET outside(name, allowed) == name \in DOMAIN slots /\ allowed # {} /\ slots[name] \notin allowed
    IN  IF outside("product", scope.products) THEN "product_out_of_scope"
        ELSE IF outside("tool_id", scope.tool_ids) THEN "tool_out_of_scope"
        ELSE None

-----------------------------------------------------------------------------
(* One task *)

TaskRoute(task, u, context, m) ==
    LET intent == task.primary_intent
        recalled == \/ task.target_type = "previous_user_message" /\ task.action = "recall"
                    \/ task.target_type = "previous_answer" /\ task.action \in Rewriting \cup {"recall"}
        investigated == u.primary_intent = "investigation" /\ intent \in {"data_query", "knowledge_query"}
        resumed == "resume_terms" \in m.signs /\ "latest" \notin m.signs
    IN  IF IsEvidenceFollowup(m) /\ HasValidEvidence(context) THEN "reuse_evidence"
        ELSE IF recalled THEN "chat_direct"
        ELSE IF investigated THEN "rag_and_tool"
        ELSE IF intent \in {"conversation", "content_task"} THEN "chat_direct"
        ELSE IF intent = "data_query" THEN "tool_only"
        ELSE IF intent = "investigation" THEN "rag_and_tool"
        ELSE IF WebAsked(m) THEN "rag_and_web"
        ELSE IF resumed /\ HasValidEvidence(context) THEN "reuse_evidence"
        ELSE "internal_rag"

Decision(task, decision, route, reason) ==
    [task_id |-> task.task_id, decision |-> decision, route |-> route, reason_code |-> reason]

\* Mutant of TaskDecision: what the model says of a task that writes is believed.
TaskDecisionUnguarded(task, u, error, context, m) ==
    IF error # None THEN Decision(task, "refuse", None, error)
    ELSE IF task.execution_policy \in {"defer", "refuse"}
    THEN Decision(task, task.execution_policy, None, "task_deferred_by_policy")
    ELSE Decision(task, task.execution_policy, TaskRoute(task, u, context, m), "task_allowed")

TaskDecision(task, u, error, context, m) ==
    IF IsForbiddenMutation(task) THEN Decision(task, "refuse", None, "controlled_write_not_allowed")
    ELSE IF task.target_type = "report" /\ task.action = "generate"
    THEN Decision(task, "defer", None, "report_generation_not_enabled")
    ELSE IF error # None THEN Decision(task, "refuse", None, error)
    ELSE IF task.execution_policy = "defer" THEN Decision(task, "defer", None, "task_deferred_by_policy")
    ELSE IF task.execution_policy = "refuse"
    THEN Decision(task, "refuse", None,
                  IF task.primary_intent = "action_request" /\ task.target_type = "general"
                  THEN "outside_semikb_capability" ELSE "model_flagged_unsafe")
    ELSE Decision(task, task.execution_policy, TaskRoute(task, u, context, m), "task_allowed")

-----------------------------------------------------------------------------
(* All tasks *)

Executable(decisions) ==
    Picked(decisions, {i \in 1 .. Len(decisions) : decisions[i].decision = "execute" /\ decisions[i].route # None})

Routes(decisions) == [i \in 1 .. Len(decisions) |-> decisions[i].route]

Business == {"internal_rag", "tool_only", "rag_and_tool"}
Public == {"internal_rag", "rag_and_web"}

\* The combinations of routes that one run of the graph can carry out.
Compatible(routes) == (\A r, s \in routes : r = s) \/ routes \subseteq Business \/ routes \subseteq Public

\* The tasks that do not fit the first one are put off.
EnforcePredefinedCombination(decisions) ==
    LET carried == SelectSeq(Executable(decisions), LAMBDA d : d.route # "chat_direct")
        first == carried[1].route
        fits(d) == \/ d.route \in {None, "chat_direct", first}
                   \/ {first, d.route} \subseteq Business
                   \/ {first, d.route} \subseteq Public
        deferred(d) == [d EXCEPT !.decision = "defer", !.route = None,
                                 !.reason_code = "unsupported_route_combination_deferred"]
    IN  IF Compatible(Of(Routes(carried))) THEN decisions
        ELSE [i \in DOMAIN decisions |->
                IF decisions[i].decision = "execute" /\ ~fits(decisions[i])
                THEN deferred(decisions[i]) ELSE decisions[i]]

CombineRoutes(routes, suggested) ==
    LET unique == Of(routes)
        carried == Picked(routes, {i \in 1 .. Len(routes) : routes[i] # "chat_direct"})
        both == {"internal_rag", "tool_only"} \subseteq unique
    IN  IF unique = {} THEN suggested
        ELSE IF "rag_and_tool" \in unique \/ both THEN "rag_and_tool"
        ELSE IF "rag_and_web" \in unique THEN "rag_and_web"
        ELSE IF carried # <<>> THEN carried[1]
        ELSE routes[1]

-----------------------------------------------------------------------------
(* What has to be asked for *)

AffectedObject == {"product", "tool_id", "chamber", "lot_id", "case_id"}

Lacking(slots, names, key) == IF Given(slots, names) THEN <<>> ELSE <<key>>

LegacyManufacturingMissing(slots) ==
    Lacking(slots, {"product"}, "product") \o Lacking(slots, {"time_range"}, "time_range")
      \o Lacking(slots, {"tool_id", "chamber"}, "tool_or_chamber")

TaskMissing(task, slots) ==
    LET time == Lacking(slots, {"time_range"}, "time_range")
        object == Lacking(slots, AffectedObject, "affected_object")
    IN  IF task.primary_intent \notin {"data_query", "investigation"} THEN <<>>
        ELSE IF task.task_shape = "unspecified" THEN LegacyManufacturingMissing(slots)
        ELSE IF task.primary_intent = "data_query" /\ task.task_shape # "entity_lookup" THEN time
        ELSE time \o object

RequiredMissing(u, slots, route) ==
    LET executable == SelectSeq(u.task_items, LAMBDA t : t.execution_policy = "execute")
        of(i) == IF i <= Len(executable) THEN TaskMissing(executable[i], slots) ELSE <<>>
        unplanned == IF route \in {"tool_only", "rag_and_tool"} /\ executable = <<>>
                     THEN LegacyManufacturingMissing(slots) ELSE <<>>
        history == IF (\E t \in Of(u.task_items) : IsHistoryTask(t)) /\ u.context_message_ids = <<>>
                   THEN <<"history_reference">> ELSE <<>>
    IN  FirstThree(of(1) \o of(2) \o of(3) \o unplanned \o history)

-----------------------------------------------------------------------------
(* The plan *)

Plan(route, confidence, decisions, missing) ==
    [route |-> route, confidence |-> confidence, task_decisions |-> decisions, missing_slots |-> missing]

\* What would have been carried out waits for an answer.
Clarifying(decisions, reason) ==
    [i \in DOMAIN decisions |->
       IF decisions[i].decision = "execute"
       THEN [decisions[i] EXCEPT !.decision = "clarify", !.reason_code = reason] ELSE decisions[i]]

Refused(decisions) ==
    /\ \A d \in Of(decisions) : d.decision # "execute"
    /\ \E d \in Of(decisions) : d.decision = "refuse"

Planned(u, decisions, route, missing) ==
    IF Refused(decisions) THEN Plan("refuse", u.confidence, decisions, <<>>)
    ELSE IF missing # <<>> THEN
         Plan("clarify", u.confidence, Clarifying(decisions, "required_slots_missing"), missing)
    ELSE IF u.confidence < Threshold(route) THEN
         Plan("clarify", u.confidence, Clarifying(decisions, "semantic_confidence_too_low"), <<>>)
    ELSE Plan(route, u.confidence, decisions, <<>>)

TaskDecisions(u, slots, scope, context, m) ==
    EnforcePredefinedCombination(
      [i \in DOMAIN u.task_items |-> TaskDecision(u.task_items[i], u, ScopeError(slots, scope), context, m)])

Combined(u, decisions) ==
    CombineRoutes(Routes(Executable(decisions)),
                  IF u.suggested_route = "history_direct" THEN "chat_direct" ELSE u.suggested_route)

PlanOf(u, slots, decisions, route) == Planned(u, decisions, route, RequiredMissing(u, slots, route))

Decide(u, scope, context, m) ==
    LET slots == Overlay(u.inherited_slots, u.explicit_slots)
        decisions == TaskDecisions(u, slots, scope, context, m)
    IN  PlanOf(u, slots, decisions, Combined(u, decisions))

=============================================================================
