--------------------------- MODULE AgentContracts ---------------------------
(***************************************************************************)
(* What the parts of the agent say to one another: the enumerations of     *)
(* contracts/models.py and the records that carry them.  A string that is  *)
(* compared with nothing is a member of Value; a confidence is a           *)
(* percentage.  A message of the user is the set of signs its text bears,  *)
(* one sign for each of the patterns and term lists it is searched for,    *)
(* and the slots its text names (understanding.py, routing.py,             *)
(* clarification.py and semantic_grounding.py search it).                  *)
(***************************************************************************)
EXTENDS Integers, Sequences, FiniteSets

CONSTANTS
    Message,  \* ids of messages
    Value,    \* what a slot may hold
    None,     \* no value
    Said      \* the message of an id: its signs, slots, named values and correction

InteractionMode == {"task", "conversation", "feedback", "control", "clarification_answer", "mixed"}

PrimaryIntent == {"conversation", "knowledge_query", "investigation", "data_query",
                  "action_request", "content_task"}

KnowledgeScope == {"unspecified", "public_general", "internal_controlled", "mixed", "not_applicable"}

ExpectedOutput == {"unspecified", "explanation", "enumeration", "records", "ranking", "trend",
                   "diagnosis", "action", "transformation", "conversation"}

TaskShape == {"unspecified", "direct", "concept_explanation", "entity_lookup", "aggregate_ranking",
              "event_list", "trend_analysis", "causal_investigation", "content_transform", "control"}

IntentTarget == {"previous_user_message", "previous_answer", "sop", "recipe", "fdc", "spc",
                 "wafer_map", "lot", "case", "alarm", "report", "general"}

IntentTaskAction == {"recall", "summarize", "simplify", "translate", "lookup", "compare",
                     "diagnose", "explain", "execute", "generate"}

TaskExecutionDecision == {"execute", "clarify", "refuse", "defer"}

TaskExecutionStatus == {"completed", "clarify", "refused", "deferred", "failed"}

CancelScope == {"current_generation", "current_task", "task_item", "clarification"}

ClarificationKind == {"intent_disambiguation", "slot_collection", "history_reference", "control_confirmation"}

ClarificationFrameStatus == {"waiting", "paused", "resolved", "cancelled", "superseded"}

ClarificationTurnRelation == {"continue_current", "cancel_current", "replace_with_new_request",
                              "side_conversation", "ambiguous"}

AgentRoute == {"history_direct", "chat_direct", "reuse_evidence", "internal_rag", "tool_only",
               "rag_and_tool", "rag_and_web", "clarify", "refuse"}

\* CONTEXT_SLOT_NAMES, in its order.
Slot_Order == <<"product", "process_layer", "tool_id", "chamber", "recipe_id", "recipe_version", "time_range",
                "lot_id", "case_id">>

Context_Slot_Names == {Slot_Order[i] : i \in 1 .. 9}

-----------------------------------------------------------------------------
(* Helpers *)

\* {**old, **new}
Overlay(old, new) ==
    [n \in DOMAIN old \cup DOMAIN new |-> IF n \in DOMAIN new THEN new[n] ELSE old[n]]

Given(slots, names) == DOMAIN slots \cap names # {}

Of(seq) == {seq[i] : i \in 1 .. Len(seq)}

\* A list of at most three (max_length=3).
IsShort(seq) == \E n \in 0 .. 3 : DOMAIN seq = 1 .. n /\ seq = [i \in 1 .. n |-> seq[i]]

\* The members of a sequence that stand at some of its places, in their order.
Picked(seq, places) ==
    LET rank(i) == Cardinality({j \in places : j <= i})
    IN  [n \in 1 .. Cardinality(places) |-> seq[CHOOSE i \in places : rank(i) = n]]

\* list(dict.fromkeys(seq))[:3]
FirstThree(seq) ==
    LET firsts == {i \in 1 .. Len(seq) : \A j \in 1 .. i - 1 : seq[j] # seq[i]}
    IN  Picked(seq, {i \in firsts : Cardinality({j \in firsts : j <= i}) <= 3})

-----------------------------------------------------------------------------
(* Records *)

IsSlots(slots) == DOMAIN slots \subseteq Context_Slot_Names /\ \A n \in DOMAIN slots : slots[n] \in Value

NoSlots == [n \in {} |-> None]

\* What is read from the text of a message.
IsMessage(m) ==
    /\ IsSlots(m.slots) /\ m.named \subseteq Context_Slot_Names \X Value
    /\ m.correction # None => m.correction.slot \in Context_Slot_Names /\ m.correction.new \in Value

TaskId == {"task_1", "task_2", "task_3"}

\* A task and the signs of the text it was read from.
IsIntentTaskItem(task) ==
    /\ task.task_id \in TaskId
    /\ task.primary_intent \in PrimaryIntent
    /\ task.target_type \in IntentTarget
    /\ task.action \in IntentTaskAction
    /\ task.task_shape \in TaskShape
    /\ task.depends_on \subseteq TaskId
    /\ task.execution_policy \in TaskExecutionDecision

SlotOperation == [operation : {"set", "inherit", "correct", "clear"},
                  slot_name : Context_Slot_Names, value : Value \cup {None}]

\* What the schema asks of an answer of the model (_RawTask, _RawUnderstanding).
IsRawTask(task) ==
    /\ task.primary_intent \in PrimaryIntent
    /\ task.target_type \in IntentTarget
    /\ task.action \in IntentTaskAction
    /\ task.task_shape \in TaskShape
    /\ task.execution_policy \in TaskExecutionDecision

IsRawUnderstanding(raw) ==
    /\ raw.interaction_mode \in InteractionMode
    /\ raw.primary_intent \in PrimaryIntent
    /\ IsShort(raw.task_items) /\ \A i \in DOMAIN raw.task_items : IsRawTask(raw.task_items[i])
    /\ raw.knowledge_scope \in KnowledgeScope /\ raw.expected_output \in ExpectedOutput
    /\ \A o \in raw.slot_operations : o.operation \in {"set", "inherit", "correct", "clear"}
    /\ raw.context_message_ids \in Seq(Nat)
    /\ raw.cancel_scope \in CancelScope \cup {None}
    /\ raw.clarification_relation \in ClarificationTurnRelation \cup {None}
    /\ raw.suggested_route \in AgentRoute
    /\ raw.confidence \in 0 .. 100

\* The fields of an understanding that something is decided by.
IsUnderstanding(u) ==
    /\ u.interaction_mode \in InteractionMode
    /\ u.primary_intent \in PrimaryIntent
    /\ Len(u.task_items) <= 3 /\ \A task \in Of(u.task_items) : IsIntentTaskItem(task)
    /\ u.knowledge_scope \in KnowledgeScope /\ u.expected_output \in ExpectedOutput
    /\ u.slot_operations \subseteq SlotOperation
    /\ IsSlots(u.explicit_slots) /\ IsSlots(u.inherited_slots)
    /\ Of(u.context_message_ids) \subseteq Nat
    /\ u.cancel_scope \in CancelScope \cup {None}
    /\ u.clarification_relation \in ClarificationTurnRelation \cup {None}
    /\ u.suggested_route \in AgentRoute
    /\ u.confidence \in 0 .. 100

\* A reason code is a str: these are the ones the policy gives for a decision, and the
\* execution for a result.
DecisionReason ==
    {"controlled_write_not_allowed", "report_generation_not_enabled", "product_out_of_scope", "tool_out_of_scope",
     "task_deferred_by_policy", "outside_semikb_capability", "model_flagged_unsafe", "task_allowed",
     "unsupported_route_combination_deferred", "required_slots_missing", "semantic_confidence_too_low"}

ResultReason ==
    DecisionReason \cup {"dependency_not_completed", "route_contract_not_satisfied", "route_contract_satisfied",
                        "completed_with_external_degradation"}

IsRouteTaskDecision(d) ==
    /\ d.task_id \in TaskId
    /\ d.decision \in TaskExecutionDecision
    /\ d.route \in AgentRoute \cup {None}
    /\ d.reason_code \in DecisionReason

IsRoutePlan(plan) ==
    /\ plan.route \in AgentRoute
    /\ Len(plan.task_decisions) <= 3
    /\ \A d \in Of(plan.task_decisions) : IsRouteTaskDecision(d)
    /\ Len(plan.missing_slots) <= 3

\* What becomes of one task.
IsTaskExecutionResult(r) ==
    /\ r.task_id \in TaskId
    /\ r.status \in TaskExecutionStatus
    /\ r.route \in AgentRoute \cup {None}
    /\ r.reason_code \in ResultReason

=============================================================================
