------------------------- MODULE ClarificationFrames -------------------------
(***************************************************************************)
(* The frame of a clarification (agent_runtime/clarification.py): what is  *)
(* still to be asked of a request, what has been understood of it so far,  *)
(* and how the next message of the user relates to it.                     *)
(***************************************************************************)
EXTENDS RoutePolicy

\* A frame's base is the understanding its answers are merged into.
IsClarificationFrame(frame) ==
    /\ frame.kind \in ClarificationKind
    /\ frame.pending # <<>> => Len(frame.pending) <= 3
    /\ frame.round \in 0 .. 3 /\ frame.no_progress_count \in 0 .. 3
    /\ frame.status \in ClarificationFrameStatus
    /\ IsUnderstanding(frame.base)

NoFrame == [frame_id |-> 0, status |-> "absent", round |-> 0]

\* Mutant of IsOpen: a frame is open for as long as there is one.
IsOpenAlways(frame) == frame # NoFrame

IsOpen(frame) == frame.status \in {"waiting", "paused"}
IsClosed(frame) == frame.status \in {"cancelled", "resolved", "superseded"}

CandidateRoute(plan, u) ==
    LET routes == SelectSeq(Routes(plan.task_decisions), LAMBDA r : r # None)
    IN  IF routes # <<>> THEN routes[1]
        ELSE IF u.suggested_route # "clarify" THEN u.suggested_route
        ELSE "internal_rag"

\* An open frame is asked again under its own id, base and request.
BuildClarificationFrame(id, request, u, plan, missing, existing) ==
    LET keys == FirstThree(missing)
        again == IsOpen(existing)
        kept == again /\ existing.candidate_route # "clarify"
    IN  [frame_id |-> IF again THEN existing.frame_id ELSE id,
         kind |-> IF keys = <<"history_reference">> THEN "history_reference"
                  ELSE IF keys = <<>> THEN "intent_disambiguation" ELSE "slot_collection",
         request |-> IF again THEN existing.request ELSE request,
         candidate_route |-> IF kept THEN existing.candidate_route ELSE CandidateRoute(plan, u),
         pending |-> IF keys = <<>> THEN <<"intent_target">> ELSE keys,
         round |-> IF again THEN existing.round ELSE 0,
         no_progress_count |-> IF again THEN existing.no_progress_count ELSE 0,
         status |-> "waiting",
         base |-> IF again THEN existing.base ELSE u]

-----------------------------------------------------------------------------
(* How a message relates to the frame *)

ResolvedPendingKeys(frame, u) ==
    LET values == Overlay(u.inherited_slots, u.explicit_slots)
        resolved(key) ==
            CASE key = "tool_or_chamber" -> Given(values, {"tool_id", "chamber"})
              [] key = "affected_object" -> Given(values, AffectedObject)
              [] key = "history_reference" -> u.context_message_ids # <<>>
              [] key = "intent_target" ->
                   \/ u.primary_intent \in {"knowledge_query", "data_query", "content_task"}
                   \/ u.suggested_route \in Business \cup Public \cup {"chat_direct"}
              [] OTHER -> key \in DOMAIN values
    IN  {key \in Of(frame.pending) : resolved(key)}

IsDirectConversation(u) ==
    u.primary_intent = "conversation" /\ u.suggested_route \in {"chat_direct", "history_direct"}

LooksLikeStandaloneTask(m, u) ==
    "standalone" \in m.signs /\ u.task_items # <<>> /\ ~IsDirectConversation(u)

IsDistinctNewTask(frame, m, u) ==
    LET kinds(tasks) == {<<t.target_type, t.action>> : t \in Of(tasks)}
    IN  /\ LooksLikeStandaloneTask(m, u)
        /\ \/ u.primary_intent # frame.base.primary_intent
           \/ /\ u.task_items # <<>> /\ frame.base.task_items # <<>>
              /\ kinds(u.task_items) \cap kinds(frame.base.task_items) = {}

\* "resume" is an explicit wish to go on that answers nothing.
DecideTurnRelation(frame, m, u) ==
    LET standalone == LooksLikeStandaloneTask(m, u)
        resolved == ResolvedPendingKeys(frame, u) # {}
        proposed == u.clarification_relation
    IN  IF IsClosed(frame) THEN "replace_with_new_request"
        ELSE IF u.cancel_scope \in {"clarification", "current_task"} THEN "cancel_current"
        ELSE IF "switch" \in m.signs
        THEN IF standalone THEN "replace_with_new_request" ELSE "ambiguous"
        ELSE IF "continue" \in m.signs THEN IF resolved THEN "continue_current" ELSE "resume"
        ELSE IF "unknown" \in m.signs THEN "continue_current"
        ELSE IF IsDistinctNewTask(frame, m, u) THEN "replace_with_new_request"
        ELSE IF resolved THEN "continue_current"
        ELSE IF proposed = "cancel_current" THEN "ambiguous"
        ELSE IF proposed = "replace_with_new_request" /\ standalone THEN proposed
        ELSE IF proposed = "continue_current" THEN proposed
        ELSE IF IsDirectConversation(u) THEN "side_conversation"
        ELSE IF standalone THEN "replace_with_new_request"
        ELSE "continue_current"

-----------------------------------------------------------------------------
(* What a message makes of the frame *)

\* Mutant of MergeContinuation: what the question had named is forgotten.
MergeContinuationOfAnswer(frame, u) ==
    [frame.base EXCEPT !.explicit_slots = u.explicit_slots, !.inherited_slots = u.inherited_slots]

\* Mutant of MergeContinuation: the confidences of question and answer add up.
MergeContinuationOfSum(frame, u) == [frame.base EXCEPT !.confidence = @ + u.confidence]

\* The answer's slots are laid over the base's, explicit and inherited apart; its tasks
\* are taken up only when what was asked for is the intent.
MergeContinuation(frame, u) ==
    LET base == frame.base
        retasked == frame.kind = "intent_disambiguation" /\ u.task_items # <<>>
    IN  [base EXCEPT
           !.interaction_mode = "clarification_answer",
           !.primary_intent = IF retasked THEN u.primary_intent ELSE @,
           !.task_items = IF retasked THEN u.task_items ELSE @,
           !.slot_operations = @ \cup u.slot_operations,
           !.explicit_slots = Overlay(@, u.explicit_slots),
           !.inherited_slots = Overlay(@, u.inherited_slots),
           !.context_message_ids = IF u.context_message_ids # <<>> THEN u.context_message_ids ELSE @,
           !.cancel_scope = None,
           !.clarification_relation = "continue_current",
           !.suggested_route = IF retasked THEN u.suggested_route ELSE @,
           !.confidence = IF u.confidence > @ THEN u.confidence ELSE @]

\* What the frame still asks after an answer that left these keys open.
UpdateAfterAnswer(frame, u, pending) ==
    LET resolved == Of(frame.pending) \ Of(pending)
        count == IF frame.no_progress_count < 3 THEN frame.no_progress_count + 1 ELSE 3
    IN  [frame EXCEPT
           !.pending = Picked(@, {i \in 1 .. Len(@) : @[i] \in Of(pending)}),
           !.no_progress_count = IF resolved # {} THEN 0 ELSE count,
           !.status = IF pending = <<>> THEN "resolved" ELSE "waiting",
           !.base = u]

TerminalTransition(frame, relation) ==
    [frame EXCEPT !.status =
        CASE relation = "cancel_current" -> "cancelled"
          [] relation = "replace_with_new_request" -> "superseded"
          [] relation \in {"side_conversation", "ambiguous"} -> "paused"]

=============================================================================
