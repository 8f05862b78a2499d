--------------------------- MODULE AgentTurnsProofs ---------------------------
(***************************************************************************)
(* What holds of the turns of a thread whatever the messages say, whatever *)
(* a language model makes of them, whatever is found, and however often a  *)
(* run fails: Said, Raws, Found, Judged, Claims and the bounds stay        *)
(* parameters.  The theorems of this module assume nothing of Said and     *)
(* Raws; the lemmas about the tasks at the end, which                      *)
(* AgentClarificationProofs needs, take an answer of the model to fit its  *)
(* schema.                                                                 *)
(***************************************************************************)
EXTENDS AgentTurns, TLAPS, FiniteSetTheorems

Fields == DOMAIN NoState

\* A state of the graph has the fields of every other; a frame has a status.
IsState(s) ==
    /\ s = [f \in Fields |-> s[f]]
    /\ "status" \in DOMAIN s.clarification_frame

-----------------------------------------------------------------------------
(* The inductive invariant, of a node and the state the checkpoint holds *)

\* A plan that calls something lacks nothing, and refuses every task that writes.
PlanFits(s) ==
    /\ s.route_plan.route \notin {"clarify", "refuse"} =>
         RequiredMissing(s.understanding, Slots(s), s.route_plan.route) = <<>>
    /\ \A i \in DOMAIN Tasks(s) :
         IsForbiddenMutation(Tasks(s)[i]) => s.route_plan.task_decisions[i].decision = "refuse"

\* A new request has no frame; a frame that is still open is asked again.
Decided(at, s) ==
    /\ at \in {"authorize_scope", "classify_and_extract"} => s.clarification_frame = NoFrame
    /\ at = "validate_required_fields" =>
         /\ s.route_decision = s.route_plan.route
         /\ IsOpen(s.clarification_frame) => Asks(s.route_plan)

Uncalled == {"chat_direct", "clarify", "refuse"}

Later == {"generate_answer", "verify_answer", "finalize_task_results", "audit", "end", "ingest_request"}

\* Evidence comes from the nodes that consult, and stays to the end of the turn.
EvidenceComesLate(at, s) ==
    /\ at \in Consulting => s.route_decision \notin Uncalled
    /\ s.evidence_ledger # {} => at \in Later /\ s.route_decision \notin Uncalled
    /\ s.external_evidence # None => at \in Later \cup {"build_evidence_ledger"}

\* CallsAreCleared and ControlledRestsOnInternal, of any node and state.
Cleared(at, s) ==
    at \in Consulting =>
      /\ s.route_plan.route \notin Uncalled
      /\ s.authorization_errors = <<>>
      /\ ~IsOpen(s.clarification_frame)
      /\ RequiredMissing(s.understanding, Slots(s), s.route_plan.route) = <<>>

IsControlled(s) == \E t \in Of(Tasks(s)) : t.target_type \in {"sop", "recipe"}

Controlled(at, s) == IsControlled(s) => at # "search_external" /\ s.external_evidence # "external"

Good(at, s) ==
    IsState(s) /\ PlanFits(s) /\ Decided(at, s) /\ EvidenceComesLate(at, s) /\ Cleared(at, s) /\ Controlled(at, s)

GraphInv == graph = [at |-> graph.at, s |-> graph.s] /\ Good(graph.at, graph.s)

-----------------------------------------------------------------------------
(* Plans *)

\* Whatever is put off or asked for, a task that writes stays refused.
LEMMA WritesStayRefused ==
    ASSUME NEW u, NEW slots, NEW scope, NEW context, NEW m, NEW i \in DOMAIN u.task_items,
           IsForbiddenMutation(u.task_items[i])
    PROVE  LET d == TaskDecisions(u, slots, scope, context, m) IN i \in DOMAIN d /\ d[i].decision = "refuse"
<1> DEFINE ds == [j \in DOMAIN u.task_items |->
                    TaskDecision(u.task_items[j], u, ScopeError(slots, scope), context, m)]
<1>1. i \in DOMAIN ds /\ ds[i].decision = "refuse"
  BY DEF TaskDecision, Decision
<1> HIDE DEF ds
<1>2. LET d == EnforcePredefinedCombination(ds) IN i \in DOMAIN d /\ d[i].decision = "refuse"
  BY <1>1 DEF EnforcePredefinedCombination
<1> QED  BY <1>2 DEF TaskDecisions, ds

\* What decide returns lacks nothing it needs, and refuses what writes.
LEMMA DecideFits ==
    ASSUME NEW u, NEW scope, NEW context, NEW m
    PROVE  LET plan == Decide(u, scope, context, m)
               slots == Overlay(u.inherited_slots, u.explicit_slots)
           IN  /\ plan.route \notin {"clarify", "refuse"} => RequiredMissing(u, slots, plan.route) = <<>>
               /\ \A i \in DOMAIN u.task_items :
                    IsForbiddenMutation(u.task_items[i]) => plan.task_decisions[i].decision = "refuse"
<1> DEFINE slots == Overlay(u.inherited_slots, u.explicit_slots)
           ds == TaskDecisions(u, slots, scope, context, m)
           route == Combined(u, ds)
           plan == Planned(u, ds, route, RequiredMissing(u, slots, route))
<1>1. Decide(u, scope, context, m) = plan
  BY DEF Decide, PlanOf
<1>2. \A i \in DOMAIN u.task_items :
        IsForbiddenMutation(u.task_items[i]) => i \in DOMAIN ds /\ ds[i].decision = "refuse"
  BY WritesStayRefused
<1> HIDE DEF slots, ds, route
<1>3. plan.route \notin {"clarify", "refuse"} => RequiredMissing(u, slots, plan.route) = <<>>
  BY DEF Planned, Plan
<1>4. plan.task_decisions \in
        {ds, Clarifying(ds, "required_slots_missing"), Clarifying(ds, "semantic_confidence_too_low")}
  BY DEF Planned, Plan
<1>5. ASSUME NEW i \in DOMAIN ds, ds[i].decision = "refuse", NEW reason
      PROVE  Clarifying(ds, reason)[i].decision = "refuse"
  BY <1>5 DEF Clarifying
<1> QED  BY <1>1, <1>2, <1>3, <1>4, <1>5 DEF slots

-----------------------------------------------------------------------------
(* States *)

\* Before the first message there is neither frame, evidence nor plan.
LEMMA NewState ==
    /\ IsState(NoState)
    /\ NoState.clarification_frame = NoFrame /\ NoState.external_evidence = None
    /\ NoState.evidence_ledger = {} /\ NoState.understanding = NoUnderstanding /\ NoState.route_plan = NoPlan
    /\ NoState.clarification_resume_only = FALSE
BY DEF IsState, NoState, Fields, NoFrame

\* The fields the nodes assign to are fields of the state.
LEMMA FieldNames ==
    {"request", "conversation_context", "understanding", "route_plan", "route_decision",
     "initial_route_decision", "authorization_errors", "missing_required_fields", "clarification_frame",
     "clarification_round", "clarification_relation", "clarification_resume_only", "clarification_response",
     "reranked_evidence", "live_data_refs", "external_evidence", "evidence_ledger", "answer", "citations",
     "task_results", "trace_id", "web_fallback_allowed", "answer_mode", "status"} \subseteq Fields
BY DEF Fields, NoState

\* Without an understanding there is nothing to call for.
LEMMA NewPlanFits == ASSUME NEW s, s.understanding = NoUnderstanding, s.route_plan = NoPlan PROVE PlanFits(s)
BY DEF PlanFits, NoUnderstanding, NoPlan, Plan, Tasks

\* A new request starts from nothing.
LEMMA Ingested ==
    ASSUME NEW s, IsState(s)
    PROVE  LET t == IngestRequest(s) IN
           /\ IsState(t) /\ t.clarification_frame = NoFrame /\ t.external_evidence = None /\ t.evidence_ledger = {}
           /\ t.understanding = NoUnderstanding /\ t.route_plan = NoPlan
BY NewState, FieldNames DEF IsState, IngestRequest

\* So does a request that is taken up from an answer, but for the frame.
LEMMA WasReset ==
    ASSUME NEW s, IsState(s), NEW request
    PROVE  LET t == ResetTaskState(s, request) IN
           /\ IsState(t) /\ t.clarification_frame = s.clarification_frame
           /\ t.external_evidence = None /\ t.evidence_ledger = {} /\ t.clarification_resume_only = FALSE
BY NewState, FieldNames DEF IsState, ResetTaskState

\* A plan changes what is understood and planned, and nothing else.
LEMMA PlanIsSet ==
    ASSUME NEW s, IsState(s), NEW u, NEW plan
    PROVE  LET t == WithPlan(s, u, plan) IN
           /\ IsState(t) /\ t.understanding = u /\ t.route_plan = plan /\ t.route_decision = plan.route
           /\ t.clarification_frame = s.clarification_frame
           /\ t.external_evidence = s.external_evidence /\ t.evidence_ledger = s.evidence_ledger
           /\ t.clarification_resume_only = s.clarification_resume_only
BY FieldNames DEF IsState, WithPlan

\* Whatever is understood of a message, the plan for it fits.
LEMMA Classified ==
    ASSUME NEW s, IsState(s), NEW u, NEW request
    PROVE  LET t == ClassificationUpdate(s, u, request) IN
           /\ IsState(t) /\ PlanFits(t) /\ t.understanding = u /\ t.route_decision = t.route_plan.route
           /\ t.clarification_frame = s.clarification_frame
           /\ t.external_evidence = s.external_evidence /\ t.evidence_ledger = s.evidence_ledger
           /\ t.clarification_resume_only = s.clarification_resume_only
<1> DEFINE plan == Decide(u, Scope, s.conversation_context, Said[request])
           t == ClassificationUpdate(s, u, request)
<1>1. t = WithPlan(s, u, plan)
  BY DEF ClassificationUpdate
<1> HIDE DEF t
<1>2. /\ IsState(t) /\ t.understanding = u /\ t.route_plan = plan /\ t.route_decision = plan.route
      /\ t.clarification_frame = s.clarification_frame
      /\ t.external_evidence = s.external_evidence /\ t.evidence_ledger = s.evidence_ledger
      /\ t.clarification_resume_only = s.clarification_resume_only
  BY <1>1, PlanIsSet
<1>3. PlanFits(t)
  BY <1>2, DecideFits DEF PlanFits, Slots, Tasks
<1> QED  BY <1>2, <1>3 DEF t

-----------------------------------------------------------------------------
(* The nodes: each leads from a good state to a good one *)

\* What the nodes after the plan leave as it is.
Keeps(s, t) ==
    /\ IsState(t)
    /\ t.understanding = s.understanding /\ t.route_plan = s.route_plan

\* A plan fits for as long as neither it nor the understanding changes.
LEMMA KeptPlanFits == ASSUME NEW s, NEW t, PlanFits(s), Keeps(s, t) PROVE PlanFits(t)
BY DEF PlanFits, Keeps, Slots, Tasks

\* Whether a request is about an SOP or a recipe is known from its tasks.
LEMMA KeptIsControlled == ASSUME NEW s, NEW t, Keeps(s, t) PROVE IsControlled(t) <=> IsControlled(s)
BY DEF IsControlled, Keeps, Tasks

\* A state in which nothing is found yet is good at every node that consults nothing.
LEMMA NothingFound ==
    ASSUME NEW at, NEW s, IsState(s), PlanFits(s), Decided(at, s), at \notin Consulting,
           s.external_evidence = None, s.evidence_ledger = {}
    PROVE  Good(at, s)
BY NoneAssumption DEF Good, EvidenceComesLate, Cleared, Controlled, Consulting

\* Nor has anything been found at a node that comes before those that consult.
Early == {"authorize_scope", "classify_and_extract", "validate_required_fields", "prepare_clarification_reply",
          "clarify_missing_fields", "resolve_clarification_turn", "answer_side_conversation",
          "resume_clarification", "prepare_relation_clarification", "pause_clarification",
          "direct_answer", "refuse_request", "insufficient_information"}

\* At such a node there is no evidence.
LEMMA EarlyIsEmpty ==
    ASSUME NEW at \in Early, NEW s, Good(at, s)
    PROVE  s.external_evidence = None /\ s.evidence_ledger = {}
BY DEF Good, EvidenceComesLate, Early, Later

\* A step that plans nothing and finds nothing, to a node that consults nothing.
LEMMA Bare ==
    ASSUME NEW at \in Early, NEW s, Good(at, s), NEW t, Keeps(s, t),
           t.external_evidence = s.external_evidence, t.evidence_ledger = s.evidence_ledger,
           NEW next, next \notin Consulting, Decided(next, t)
    PROVE  Good(next, t)
<1>1. t.external_evidence = None /\ t.evidence_ledger = {}
  BY EarlyIsEmpty
<1>2. PlanFits(t)
  BY KeptPlanFits DEF Good
<1> QED  BY <1>1, <1>2, NothingFound DEF Keeps

\* ingest_request.
LEMMA IngestIsGood == ASSUME NEW s, IsState(s) PROVE Good("authorize_scope", IngestRequest(s))
<1> DEFINE t == IngestRequest(s)
<1>1. /\ IsState(t) /\ t.clarification_frame = NoFrame /\ t.external_evidence = None /\ t.evidence_ledger = {}
      /\ t.understanding = NoUnderstanding /\ t.route_plan = NoPlan
  BY Ingested
<1> HIDE DEF t
<1>2. PlanFits(t) /\ Decided("authorize_scope", t)
  BY <1>1, NewPlanFits DEF Decided
<1> QED  BY <1>1, <1>2, NothingFound DEF Consulting, t

\* authorize_scope.
LEMMA AuthorizeIsGood ==
    ASSUME NEW s, Good("authorize_scope", s)
    PROVE  Good("classify_and_extract", [s EXCEPT !.authorization_errors = <<>>])
<1> DEFINE t == [s EXCEPT !.authorization_errors = <<>>]
<1>1. /\ Keeps(s, t) /\ t.clarification_frame = s.clarification_frame
      /\ t.external_evidence = s.external_evidence /\ t.evidence_ledger = s.evidence_ledger
  BY FieldNames DEF Good, IsState, Keeps
<1>2. Decided("classify_and_extract", t)
  BY <1>1 DEF Good, Decided
<1> QED  BY <1>1, <1>2, Bare DEF Early, Consulting

\* classify_and_extract.
LEMMA ClassifyIsGood ==
    ASSUME NEW s, Good("classify_and_extract", s), NEW u, NEW request
    PROVE  Good("validate_required_fields", ClassificationUpdate(s, u, request))
<1> DEFINE t == ClassificationUpdate(s, u, request)
<1>1. IsState(s) /\ s.clarification_frame = NoFrame /\ s.external_evidence = None /\ s.evidence_ledger = {}
  BY EarlyIsEmpty DEF Good, Decided, Early
<1>2. /\ IsState(t) /\ PlanFits(t) /\ t.route_decision = t.route_plan.route
      /\ t.clarification_frame = NoFrame /\ t.external_evidence = None /\ t.evidence_ledger = {}
  BY <1>1, Classified
<1> HIDE DEF t
<1>3. Decided("validate_required_fields", t)
  BY <1>2 DEF Decided, IsOpen, NoFrame
<1> QED  BY <1>2, <1>3, NothingFound DEF Consulting, t

\* A frame always asks for something.
LEMMA FrameIsBuilt ==
    ASSUME NEW id, NEW request, NEW u, NEW plan, NEW missing, NEW existing
    PROVE  LET frame == BuildClarificationFrame(id, request, u, plan, missing, existing)
           IN  frame.pending # <<>> /\ "status" \in DOMAIN frame
<1> DEFINE keys == FirstThree(missing)
<1>1. BuildClarificationFrame(id, request, u, plan, missing, existing).pending
        = IF keys = <<>> THEN <<"intent_target">> ELSE keys
  BY DEF BuildClarificationFrame
<1>2. <<"intent_target">> # <<>>
  OBVIOUS
<1>3. "status" \in DOMAIN BuildClarificationFrame(id, request, u, plan, missing, existing)
  BY DEF BuildClarificationFrame
<1> HIDE DEF keys
<1> QED  BY <1>1, <1>2, <1>3

\* The frame of a request is set only if there is something to ask.
LEMMA FrameIsSet ==
    ASSUME NEW s, IsState(s), NEW frame, "status" \in DOMAIN frame
    PROVE  LET t == WithFrame(s, frame) IN
           /\ Keeps(s, t) /\ t.route_decision = s.route_decision
           /\ t.external_evidence = s.external_evidence /\ t.evidence_ledger = s.evidence_ledger
           /\ t.clarification_frame = (IF Asks(s.route_plan) THEN frame ELSE s.clarification_frame)
           /\ t.missing_required_fields = (IF Asks(s.route_plan) THEN frame.pending ELSE <<>>)
BY FieldNames DEF WithFrame, IsState, Keeps

\* validate_required_fields: nothing is consulted with a question open.
LEMMA ValidateIsGood ==
    ASSUME NEW s, Good("validate_required_fields", s)
    PROVE  LET t == ValidatedFields(s) IN Good(RouteAfterValidation(t), t)
<1> DEFINE frame == BuildClarificationFrame(run.entry, s.request, s.understanding, s.route_plan,
                                            s.route_plan.missing_slots, s.clarification_frame)
           t == ValidatedFields(s)
           next == RouteAfterValidation(t)
<1>1. frame.pending # <<>> /\ "status" \in DOMAIN frame
  BY FrameIsBuilt
<1>2. t = WithFrame(s, frame)
  BY DEF ValidatedFields
<1> HIDE DEF frame, t
<1>3. /\ Keeps(s, t) /\ t.route_decision = s.route_decision
      /\ t.external_evidence = s.external_evidence /\ t.evidence_ledger = s.evidence_ledger
      /\ t.clarification_frame = (IF Asks(s.route_plan) THEN frame ELSE s.clarification_frame)
      /\ t.missing_required_fields = (IF Asks(s.route_plan) THEN frame.pending ELSE <<>>)
  BY <1>1, <1>2, FrameIsSet DEF Good
<1>4. next \in {"refuse_request", "direct_answer", "execute_combination_prelude",
                "insufficient_information", "prepare_clarification_reply"}
  BY DEF RouteAfterValidation
<1>5. Decided(next, t)
  BY <1>4 DEF Decided
<1>6. PlanFits(t)
  BY <1>3, KeptPlanFits DEF Good
<1>7. t.external_evidence = None /\ t.evidence_ledger = {}
  BY <1>3, EarlyIsEmpty DEF Early
<1>8. CASE next # "execute_combination_prelude"
  BY <1>3, <1>4, <1>5, <1>6, <1>7, <1>8, NothingFound DEF Consulting, Keeps, t
<1>9. CASE next = "execute_combination_prelude"
  <2>1. /\ t.authorization_errors = <<>> /\ t.route_decision \notin Uncalled
        /\ t.missing_required_fields = <<>>
    BY <1>9 DEF RouteAfterValidation, Uncalled
  <2>2. ~Asks(s.route_plan) /\ ~IsOpen(t.clarification_frame) /\ s.route_decision = s.route_plan.route
    BY <1>1, <1>3, <2>1 DEF Good, Decided
  <2>3. t.route_plan.route \notin Uncalled
    BY <1>3, <2>1, <2>2 DEF Keeps
  <2>4. Cleared(next, t)
    BY <1>6, <2>1, <2>2, <2>3 DEF Cleared, PlanFits, Uncalled
  <2>5. EvidenceComesLate(next, t) /\ Controlled(next, t)
    BY <1>7, <1>9, <2>1, NoneAssumption DEF EvidenceComesLate, Controlled
  <2> QED  BY <1>3, <1>5, <1>6, <2>4, <2>5 DEF Good, Keeps, t
<1> QED  BY <1>8, <1>9 DEF t

\* Before a message is resolved nothing has been asked of anyone but the user.
LEMMA AskIsGood ==
    ASSUME NEW at \in Early, NEW s, Good(at, s), NEW results, NEW next \in {"clarify_missing_fields", "audit"}
    PROVE  Good(next, [s EXCEPT !.task_results = results])
<1> DEFINE t == [s EXCEPT !.task_results = results]
<1>1. /\ Keeps(s, t)
      /\ t.external_evidence = s.external_evidence /\ t.evidence_ledger = s.evidence_ledger
  BY FieldNames DEF Good, IsState, Keeps
<1>2. Decided(next, t)
  BY DEF Decided
<1> HIDE DEF t
<1> QED  BY <1>1, <1>2, Bare DEF Consulting, t

\* What an interrupt changes in the frame, or in the mode of the resumption.
LEMMA InterruptIsGood ==
    ASSUME NEW at \in Early, NEW s, Good(at, s), NEW response, NEW asked
    PROVE  /\ Good("resolve_clarification_turn",
                   [[s EXCEPT !.clarification_frame.round = asked, !.clarification_frame.status = "waiting",
                              !.clarification_round = asked] EXCEPT !.clarification_response = response])
           /\ Good("resolve_clarification_turn",
                   [[s EXCEPT !.clarification_resume_only = FALSE] EXCEPT !.clarification_response = response])
           /\ Good("resolve_clarification_turn",
                   [[s EXCEPT !.clarification_frame.status = "waiting"] EXCEPT !.clarification_response = response])
<1>1. ASSUME NEW t, Keeps(s, t), t.external_evidence = s.external_evidence, t.evidence_ledger = s.evidence_ledger
      PROVE  Good("resolve_clarification_turn", t)
  BY <1>1, Bare DEF Decided, Consulting
<1>2. ASSUME NEW frame, "status" \in DOMAIN frame, NEW round
      PROVE  LET t == [s EXCEPT !.clarification_frame = frame, !.clarification_round = round,
                                !.clarification_response = response]
             IN  Good("resolve_clarification_turn", t)
  <2> DEFINE t == [s EXCEPT !.clarification_frame = frame, !.clarification_round = round,
                            !.clarification_response = response]
  <2>1. Keeps(s, t) /\ t.external_evidence = s.external_evidence /\ t.evidence_ledger = s.evidence_ledger
    BY <1>2, FieldNames DEF Good, IsState, Keeps
  <2> HIDE DEF t
  <2>2. Good("resolve_clarification_turn", t)
    BY <1>1, <2>1
  <2> QED  BY <2>2 DEF t
<1>3. s = [f \in Fields |-> s[f]] /\ "status" \in DOMAIN s.clarification_frame
  BY DEF Good, IsState
<1>4. Good("resolve_clarification_turn",
           [[s EXCEPT !.clarification_frame.round = asked, !.clarification_frame.status = "waiting",
                      !.clarification_round = asked] EXCEPT !.clarification_response = response])
  <2> DEFINE frame == [[s.clarification_frame EXCEPT !.round = asked] EXCEPT !.status = "waiting"]
  <2>1. "status" \in DOMAIN frame
    BY <1>3
  <2>2. [[s EXCEPT !.clarification_frame.round = asked, !.clarification_frame.status = "waiting",
                   !.clarification_round = asked] EXCEPT !.clarification_response = response]
          = [s EXCEPT !.clarification_frame = frame, !.clarification_round = asked,
                      !.clarification_response = response]
    BY <1>3, FieldNames
  <2> QED  BY <1>2, <2>1, <2>2
<1>5. Good("resolve_clarification_turn",
           [[s EXCEPT !.clarification_resume_only = FALSE] EXCEPT !.clarification_response = response])
  <2> DEFINE t == [[s EXCEPT !.clarification_resume_only = FALSE] EXCEPT !.clarification_response = response]
  <2>1. Keeps(s, t) /\ t.external_evidence = s.external_evidence /\ t.evidence_ledger = s.evidence_ledger
    BY <1>3, FieldNames DEF Good, IsState, Keeps
  <2> HIDE DEF t
  <2>2. Good("resolve_clarification_turn", t)
    BY <1>1, <2>1
  <2> QED  BY <2>2 DEF t
<1>6. Good("resolve_clarification_turn",
           [[s EXCEPT !.clarification_frame.status = "waiting"] EXCEPT !.clarification_response = response])
  <2> DEFINE frame == [s.clarification_frame EXCEPT !.status = "waiting"]
             t == [[s EXCEPT !.clarification_frame.status = "waiting"] EXCEPT !.clarification_response = response]
  <2>1. "status" \in DOMAIN frame /\ t.clarification_frame = frame
    BY <1>3, FieldNames
  <2>2. Keeps(s, t) /\ t.external_evidence = s.external_evidence /\ t.evidence_ledger = s.evidence_ledger
    BY <1>3, <2>1, FieldNames DEF Good, IsState, Keeps
  <2> HIDE DEF t
  <2>3. Good("resolve_clarification_turn", t)
    BY <1>1, <2>2
  <2> QED  BY <2>3 DEF t
<1> QED  BY <1>4, <1>5, <1>6

-----------------------------------------------------------------------------
(* What an answer makes of the state *)

\* How a message relates to a frame is one of these.
LEMMA Relations ==
    ASSUME NEW frame, NEW m, NEW u
    PROVE  DecideTurnRelation(frame, m, u) \in
             {"replace_with_new_request", "cancel_current", "ambiguous", "continue_current", "resume",
              "side_conversation"}
BY DEF DecideTurnRelation

\* An answer to the question leaves a frame that is resolved or asked again.
LEMMA ContinuedIsGood ==
    ASSUME NEW s, IsState(s), s.external_evidence = None, s.evidence_ledger = {}, NEW u
    PROVE  LET t == ContinueCurrent(s, u) IN Good(RouteAfterResolution(t), t)
<1> DEFINE frame == s.clarification_frame
           merged == MergeContinuation(frame, u)
           c == ClassificationUpdate(s, merged, frame.request)
           pending == StillPending(frame, c.route_plan)
           left == UpdateAfterAnswer(frame, c.understanding, pending)
           t == Continued(c, frame, pending)
<1>1. ContinueCurrent(s, u) = t
  BY DEF ContinueCurrent
<1> HIDE DEF merged
<1>2. /\ IsState(c) /\ PlanFits(c) /\ c.route_decision = c.route_plan.route
      /\ c.external_evidence = None /\ c.evidence_ledger = {}
  BY Classified
<1> HIDE DEF c
<1>3. pending # <<>> => Asks(c.route_plan)
  BY DEF StillPending, Asks
<1>4. /\ "status" \in DOMAIN left
      /\ left.status = (IF pending = <<>> THEN "resolved" ELSE "waiting")
  BY DEF UpdateAfterAnswer, IsState
<1> HIDE DEF pending
<1>5. t = [c EXCEPT !.request = frame.request, !.clarification_frame = left,
                    !.clarification_relation = "continue_current", !.clarification_resume_only = FALSE,
                    !.missing_required_fields = pending, !.clarification_round = frame.round]
  BY DEF Continued
<1> HIDE DEF left, t, frame
<1>6. /\ Keeps(c, t) /\ t.route_decision = c.route_decision
      /\ t.clarification_frame = left
      /\ t.clarification_relation = "continue_current" /\ t.clarification_resume_only = FALSE
      /\ t.external_evidence = None /\ t.evidence_ledger = {}
  BY <1>2, <1>4, <1>5, FieldNames DEF IsState, Keeps
<1>7. RouteAfterResolution(t) = "validate_required_fields"
  BY <1>6 DEF RouteAfterResolution
<1>8. Decided("validate_required_fields", t)
  BY <1>2, <1>3, <1>4, <1>6 DEF Decided, Keeps, IsOpen
<1>9. PlanFits(t)
  BY <1>2, <1>6, KeptPlanFits
<1> QED  BY <1>1, <1>6, <1>7, <1>8, <1>9, NothingFound DEF Keeps, Consulting

\* A request of its own is planned from nothing.
LEMMA TakenUpIsGood ==
    ASSUME NEW s, IsState(s), NEW u,
           NEW relation \in {"replace_with_new_request", "cancel_current", "side_conversation"}
    PROVE  LET t == TakeUp(s, u, relation) IN Good(RouteAfterResolution(t), t)
<1> DEFINE reset == ResetTaskState(s, s.clarification_response)
           understood == [u EXCEPT !.clarification_relation = relation,
                                   !.interaction_mode = IF relation # "replace_with_new_request" THEN @
                                                        ELSE IF u.primary_intent = "conversation"
                                                        THEN "conversation" ELSE "task",
                                   !.cancel_scope = IF relation = "cancel_current" THEN "clarification" ELSE @]
           c == ClassificationUpdate(reset, understood, s.clarification_response)
           frame == TerminalTransition(s.clarification_frame, relation)
           t == TakenUp(c, frame, relation)
<1>1. TakeUp(s, u, relation) = t
  BY DEF TakeUp
<1>2. /\ IsState(reset) /\ reset.clarification_resume_only = FALSE
      /\ reset.external_evidence = None /\ reset.evidence_ledger = {}
  BY WasReset, NewState, FieldNames DEF ResetTaskState, IsState
<1> HIDE DEF reset, understood
<1>3. /\ IsState(c) /\ PlanFits(c) /\ c.route_decision = c.route_plan.route
      /\ c.clarification_resume_only = FALSE
      /\ c.external_evidence = None /\ c.evidence_ledger = {}
  BY <1>2, Classified
<1> HIDE DEF c
<1>4. "status" \in DOMAIN frame /\ (relation = "replace_with_new_request" => frame.status = "superseded")
  BY DEF TerminalTransition, IsState
<1> HIDE DEF frame
<1>5. /\ Keeps(c, t) /\ t.route_decision = c.route_decision
      /\ t.clarification_frame = frame
      /\ t.clarification_relation = relation /\ t.clarification_resume_only = FALSE
      /\ t.external_evidence = None /\ t.evidence_ledger = {}
  BY <1>3, <1>4, FieldNames DEF TakenUp, IsState, Keeps
<1> HIDE DEF t
<1>6. RouteAfterResolution(t) =
        CASE relation = "replace_with_new_request" -> "validate_required_fields"
          [] relation = "cancel_current" -> "direct_answer"
          [] relation = "side_conversation" -> "answer_side_conversation"
  BY <1>5 DEF RouteAfterResolution
<1>7. Decided(RouteAfterResolution(t), t)
  BY <1>3, <1>4, <1>5, <1>6 DEF Decided, Keeps, IsOpen
<1>8. PlanFits(t)
  BY <1>3, <1>5, KeptPlanFits
<1>9. RouteAfterResolution(t) \notin Consulting
  BY <1>6 DEF Consulting
<1> QED  BY <1>1, <1>5, <1>7, <1>8, <1>9, NothingFound DEF Keeps

\* A question that is repeated, or put off, leaves the plan as it is.
LEMMA ResumedIsGood ==
    ASSUME NEW s, Good("resolve_clarification_turn", s)
    PROVE  /\ LET t == ResumeOnly(s) IN Good(RouteAfterResolution(t), t)
           /\ LET t == Ambiguous(s) IN Good(RouteAfterResolution(t), t)
<1>1. ASSUME NEW t, Keeps(s, t),
             t.external_evidence = s.external_evidence, t.evidence_ledger = s.evidence_ledger,
             NEW next \in {"resume_clarification", "prepare_relation_clarification"}
      PROVE  Good(next, t)
  BY <1>1, Bare DEF Early, Decided, Consulting
<1>2. LET t == ResumeOnly(s) IN Good(RouteAfterResolution(t), t)
  <2> DEFINE t == ResumeOnly(s)
  <2>1. /\ Keeps(s, t) /\ t.clarification_resume_only = TRUE
        /\ t.external_evidence = s.external_evidence /\ t.evidence_ledger = s.evidence_ledger
    BY FieldNames DEF Good, IsState, Keeps, ResumeOnly
  <2> HIDE DEF t
  <2>2. RouteAfterResolution(t) = "resume_clarification"
    BY <2>1 DEF RouteAfterResolution
  <2>3. Good(RouteAfterResolution(t), t)
    BY <1>1, <2>1, <2>2
  <2> QED  BY <2>3 DEF t
<1>3. LET t == Ambiguous(s) IN Good(RouteAfterResolution(t), t)
  <2> DEFINE frame == TerminalTransition(s.clarification_frame, "ambiguous")
             t == Ambiguous(s)
  <2>1. "status" \in DOMAIN frame
    BY DEF TerminalTransition, Good, IsState
  <2>2. /\ Keeps(s, t) /\ t.clarification_resume_only = FALSE /\ t.clarification_relation = "ambiguous"
        /\ t.external_evidence = s.external_evidence /\ t.evidence_ledger = s.evidence_ledger
    <3> HIDE DEF frame
    <3>1. t = [s EXCEPT !.clarification_frame = frame, !.clarification_relation = "ambiguous",
                        !.clarification_resume_only = FALSE,
                        !.missing_required_fields = s.clarification_frame.pending,
                        !.clarification_round = s.clarification_frame.round]
      BY FieldNames DEF Ambiguous, frame, Good, IsState
    <3> HIDE DEF t
    <3> QED  BY <2>1, <3>1, FieldNames DEF Good, IsState, Keeps
  <2> HIDE DEF t
  <2>3. RouteAfterResolution(t) = "prepare_relation_clarification"
    BY <2>2 DEF RouteAfterResolution
  <2>4. Good(RouteAfterResolution(t), t)
    BY <1>1, <2>2, <2>3
  <2> QED  BY <2>4 DEF t
<1> QED  BY <1>2, <1>3

\* resolve_clarification_turn, whatever is understood of the answer.
LEMMA ResolveIsGood ==
    ASSUME NEW s, Good("resolve_clarification_turn", s), NEW u
    PROVE  LET t == Resolved(s, u) IN Good(RouteAfterResolution(t), t)
<1> DEFINE relation == DecideTurnRelation(s.clarification_frame, Said[s.clarification_response], u)
           t == ResolvedAs(relation, s, u)
<1>1. Resolved(s, u) = t
  BY DEF Resolved
<1>2. relation \in {"replace_with_new_request", "cancel_current", "ambiguous", "continue_current", "resume",
                    "side_conversation"}
  BY Relations
<1> HIDE DEF relation
<1>3. IsState(s) /\ s.external_evidence = None /\ s.evidence_ledger = {}
  BY EarlyIsEmpty DEF Good, Early
<1>4. CASE relation = "resume"
  <2>1. t = ResumeOnly(s)
    BY <1>4 DEF ResolvedAs
  <2> HIDE DEF t
  <2> QED  BY <1>1, <2>1, ResumedIsGood
<1>5. CASE relation = "ambiguous"
  <2>1. t = Ambiguous(s)
    BY <1>5 DEF ResolvedAs
  <2> HIDE DEF t
  <2> QED  BY <1>1, <2>1, ResumedIsGood
<1>6. CASE relation = "continue_current"
  <2>1. t = ContinueCurrent(s, u)
    BY <1>6 DEF ResolvedAs
  <2> HIDE DEF t
  <2> QED  BY <1>1, <1>3, <2>1, ContinuedIsGood
<1>7. CASE relation \in {"replace_with_new_request", "cancel_current", "side_conversation"}
  <2>1. t = TakeUp(s, u, relation)
    BY <1>7 DEF ResolvedAs
  <2> HIDE DEF t
  <2> QED  BY <1>1, <1>3, <1>7, <2>1, TakenUpIsGood
<1> QED  BY <1>1, <1>2, <1>4, <1>5, <1>6, <1>7

\* An answer without evidence, and the ways to end a turn with one.
LEMMA AnsweredIsGood ==
    ASSUME NEW at \in Early, NEW s, Good(at, s), NEW status,
           NEW next \in {"finalize_task_results", "pause_clarification"}
    PROVE  /\ Good(next, [s EXCEPT !.answer = {}, !.citations = {}, !.status = status])
           /\ Good(next, s)
<1>1. ASSUME NEW t, Keeps(s, t), t.external_evidence = s.external_evidence, t.evidence_ledger = s.evidence_ledger
      PROVE  Good(next, t)
  BY <1>1, Bare DEF Decided, Consulting
<1>2. Good(next, [s EXCEPT !.answer = {}, !.citations = {}, !.status = status])
  <2> DEFINE t == [s EXCEPT !.answer = {}, !.citations = {}, !.status = status]
  <2>1. Keeps(s, t) /\ t.external_evidence = s.external_evidence /\ t.evidence_ledger = s.evidence_ledger
    BY FieldNames DEF Good, IsState, Keeps
  <2> HIDE DEF t
  <2>2. Good(next, t)
    BY <1>1, <2>1
  <2> QED  BY <2>2 DEF t
<1>3. Keeps(s, s)
  BY DEF Good, Keeps
<1> QED  BY <1>1, <1>2, <1>3

-----------------------------------------------------------------------------
(* The nodes that consult *)

\* Between these nodes the plan, the frame and the errors stay.
LEMMA StillCleared ==
    ASSUME NEW at \in Consulting, NEW s, Good(at, s), NEW t, Keeps(s, t),
           t.clarification_frame = s.clarification_frame, t.authorization_errors = s.authorization_errors,
           NEW next \in Consulting \cup {"finalize_task_results"},
           EvidenceComesLate(next, t), Controlled(next, t)
    PROVE  Good(next, t)
<1>1. Cleared(next, t)
  BY DEF Good, Cleared, Keeps, Slots
<1>2. Decided(next, t)
  BY DEF Decided, Consulting
<1> QED  BY <1>1, <1>2, KeptPlanFits DEF Good, Keeps

\* execute_combination_prelude.
LEMMA PreludeIsGood ==
    ASSUME NEW s, Good("execute_combination_prelude", s)
    PROVE  Good("retrieve_evidence", s)
<1>1. Keeps(s, s) /\ EvidenceComesLate("retrieve_evidence", s)
  BY DEF Good, Keeps, EvidenceComesLate, Consulting, Later
<1>2. Controlled("retrieve_evidence", s)
  BY DEF Good, Controlled
<1> QED  BY <1>1, <1>2, StillCleared DEF Consulting

\* retrieve_evidence: the route may fall back to retrieval, and to nothing else.
LEMMA RetrieveIsGood ==
    ASSUME NEW s, Good("retrieve_evidence", s),
           NEW route, route \in {"internal_rag", s.route_decision}, NEW evidence, NEW live, NEW trace
    PROVE  Good("assess_evidence",
                [s EXCEPT !.initial_route_decision = s.route_decision, !.route_decision = route,
                          !.reranked_evidence = evidence, !.external_evidence = None,
                          !.live_data_refs = live, !.trace_id = trace])
<1> DEFINE t == [s EXCEPT !.initial_route_decision = s.route_decision, !.route_decision = route,
                          !.reranked_evidence = evidence, !.external_evidence = None,
                          !.live_data_refs = live, !.trace_id = trace]
<1>1. /\ Keeps(s, t) /\ t.route_decision = route /\ t.external_evidence = None
      /\ t.evidence_ledger = s.evidence_ledger
      /\ t.clarification_frame = s.clarification_frame /\ t.authorization_errors = s.authorization_errors
  BY FieldNames DEF Good, IsState, Keeps
<1> HIDE DEF t
<1>2. s.route_decision \notin Uncalled /\ s.evidence_ledger = {}
  BY DEF Good, EvidenceComesLate, Consulting, Later
<1>3. EvidenceComesLate("assess_evidence", t)
  BY <1>1, <1>2 DEF EvidenceComesLate, Uncalled
<1>4. Controlled("assess_evidence", t)
  BY <1>1, NoneAssumption DEF Controlled
<1> QED  BY <1>1, <1>3, <1>4, StillCleared DEF Consulting, t

\* Where an SOP or a recipe is asked about, the evidence is never judged as public.
LEMMA ControlledIsNotPublic ==
    ASSUME NEW s, NEW evidence, NEW initial, NEW judged, IsControlled(s)
    PROVE  ~Assess(s.understanding, evidence, initial, judged).web_fallback_allowed
BY DEF IsControlled, Tasks, Assess, AssessedScope

\* assess_evidence: the web is asked only when it is allowed.
LEMMA AssessIsGood ==
    ASSUME NEW s, Good("assess_evidence", s), NEW evidence, NEW mode,
           NEW allowed, IsControlled(s) => ~allowed
    PROVE  Good(IF allowed THEN "search_external" ELSE "build_evidence_ledger",
                [s EXCEPT !.reranked_evidence = evidence, !.web_fallback_allowed = allowed,
                          !.answer_mode = mode])
<1> DEFINE t == [s EXCEPT !.reranked_evidence = evidence, !.web_fallback_allowed = allowed, !.answer_mode = mode]
           next == IF allowed THEN "search_external" ELSE "build_evidence_ledger"
<1>1. /\ Keeps(s, t) /\ t.route_decision = s.route_decision
      /\ t.external_evidence = s.external_evidence /\ t.evidence_ledger = s.evidence_ledger
      /\ t.clarification_frame = s.clarification_frame /\ t.authorization_errors = s.authorization_errors
  BY FieldNames DEF Good, IsState, Keeps
<1> HIDE DEF t
<1>2. /\ s.route_decision \notin Uncalled /\ s.evidence_ledger = {}
      /\ s.external_evidence = None
  BY DEF Good, EvidenceComesLate, Consulting, Later
<1>3. EvidenceComesLate(next, t)
  BY <1>1, <1>2 DEF EvidenceComesLate
<1>4. Controlled(next, t)
  BY <1>1, <1>2, KeptIsControlled, NoneAssumption DEF Controlled
<1> QED  BY <1>1, <1>3, <1>4, StillCleared DEF Consulting, t

\* search_external.
LEMMA SearchIsGood ==
    ASSUME NEW s, Good("search_external", s), NEW answer
    PROVE  Good("build_evidence_ledger",
                [s EXCEPT !.route_decision = "rag_and_web", !.external_evidence = answer])
<1> DEFINE t == [s EXCEPT !.route_decision = "rag_and_web", !.external_evidence = answer]
<1>1. /\ Keeps(s, t) /\ t.route_decision = "rag_and_web" /\ t.evidence_ledger = s.evidence_ledger
      /\ t.clarification_frame = s.clarification_frame /\ t.authorization_errors = s.authorization_errors
  BY FieldNames DEF Good, IsState, Keeps
<1> HIDE DEF t
<1>2. s.evidence_ledger = {} /\ ~IsControlled(s)
  BY DEF Good, EvidenceComesLate, Controlled, Later
<1>3. EvidenceComesLate("build_evidence_ledger", t)
  BY <1>1, <1>2 DEF EvidenceComesLate, Uncalled
<1>4. Controlled("build_evidence_ledger", t)
  BY <1>1, <1>2, KeptIsControlled DEF Controlled
<1> QED  BY <1>1, <1>3, <1>4, StillCleared DEF Consulting, t

\* The ledger and the answer are written with what has been found.
LEMMA WrittenIsGood ==
    ASSUME NEW at \in {"build_evidence_ledger", "generate_answer", "verify_answer"}, NEW s, Good(at, s),
           NEW t, Keeps(s, t), t.route_decision = s.route_decision,
           t.external_evidence = s.external_evidence,
           t.clarification_frame = s.clarification_frame, t.authorization_errors = s.authorization_errors,
           NEW next \in {"generate_answer", "verify_answer", "finalize_task_results"}
    PROVE  Good(next, t)
<1>1. s.route_decision \notin Uncalled
  BY DEF Good, EvidenceComesLate, Consulting
<1>2. EvidenceComesLate(next, t)
  BY <1>1 DEF EvidenceComesLate, Later
<1>3. Controlled(next, t)
  BY KeptIsControlled DEF Good, Controlled
<1> QED  BY <1>2, <1>3, StillCleared DEF Consulting

\* finalize_task_results and audit.
LEMMA EndIsGood ==
    ASSUME NEW s, NEW results
    PROVE  /\ Good("finalize_task_results", s) => Good("audit", [s EXCEPT !.task_results = results])
           /\ Good("audit", s) => Good("end", s)
<1>1. ASSUME NEW at \in {"finalize_task_results", "audit"}, Good(at, s), NEW t, Keeps(s, t),
             t.route_decision = s.route_decision,
             t.external_evidence = s.external_evidence, t.evidence_ledger = s.evidence_ledger,
             NEW next \in {"audit", "end"}
      PROVE  Good(next, t)
  <2>1. PlanFits(t) /\ (IsControlled(t) <=> IsControlled(s))
    BY <1>1, KeptPlanFits, KeptIsControlled DEF Good
  <2>2. Decided(next, t) /\ Cleared(next, t)
    BY <1>1 DEF Decided, Cleared, Consulting
  <2>3. EvidenceComesLate(next, t)
    BY <1>1 DEF Good, EvidenceComesLate, Later, Consulting
  <2>4. Controlled(next, t)
    BY <1>1, <2>1 DEF Good, Controlled
  <2> QED  BY <1>1, <2>1, <2>2, <2>3, <2>4 DEF Good, Keeps
<1>2. ASSUME Good("finalize_task_results", s) PROVE Good("audit", [s EXCEPT !.task_results = results])
  <2> DEFINE t == [s EXCEPT !.task_results = results]
  <2>1. /\ Keeps(s, t) /\ t.route_decision = s.route_decision
        /\ t.external_evidence = s.external_evidence /\ t.evidence_ledger = s.evidence_ledger
    BY <1>2, FieldNames DEF Good, IsState, Keeps
  <2> HIDE DEF t
  <2>2. Good("audit", t)
    BY <1>1, <1>2, <2>1
  <2> QED  BY <2>2 DEF t
<1>3. ASSUME Good("audit", s) PROVE Good("end", s)
  <2>1. Keeps(s, s)
    BY <1>3 DEF Good, Keeps
  <2> QED  BY <1>1, <1>3, <2>1
<1> QED  BY <1>2, <1>3

\* What the service gives the graph: the context of the message, and for a request
\* the node it starts from.
LEMMA GivenIsGood ==
    ASSUME NEW at, NEW s, Good(at, s), NEW context, NEW request
    PROVE  /\ Good(at, [s EXCEPT !.conversation_context = context])
           /\ Good("ingest_request",
                   [[s EXCEPT !.conversation_context = context]
                       EXCEPT !.request = request, !.clarification_round = 0])
<1>1. ASSUME NEW t, Keeps(s, t), t.route_decision = s.route_decision,
             t.external_evidence = s.external_evidence, t.evidence_ledger = s.evidence_ledger,
             t.clarification_frame = s.clarification_frame, t.authorization_errors = s.authorization_errors
      PROVE  Good(at, t) /\ Good("ingest_request", t)
  <2>1. PlanFits(t) /\ (IsControlled(t) <=> IsControlled(s))
    BY <1>1, KeptPlanFits, KeptIsControlled DEF Good
  <2>2. Decided(at, t) /\ Decided("ingest_request", t)
    BY <1>1 DEF Good, Decided, Keeps
  <2>3. Cleared(at, t) /\ Cleared("ingest_request", t)
    BY <1>1 DEF Good, Cleared, Keeps, Slots, Consulting
  <2>4. EvidenceComesLate(at, t) /\ EvidenceComesLate("ingest_request", t)
    BY <1>1 DEF Good, EvidenceComesLate, Later, Consulting
  <2>5. Controlled(at, t) /\ Controlled("ingest_request", t)
    BY <1>1, <2>1 DEF Good, Controlled
  <2> QED  BY <1>1, <2>1, <2>2, <2>3, <2>4, <2>5 DEF Good, Keeps
<1> DEFINE given == [s EXCEPT !.conversation_context = context]
           asked == [given EXCEPT !.request = request, !.clarification_round = 0]
<1>2. /\ Keeps(s, given) /\ given.route_decision = s.route_decision
      /\ given.external_evidence = s.external_evidence /\ given.evidence_ledger = s.evidence_ledger
      /\ given.clarification_frame = s.clarification_frame
      /\ given.authorization_errors = s.authorization_errors
  BY FieldNames DEF Good, IsState, Keeps
<1> HIDE DEF given
<1>3. /\ Keeps(s, asked) /\ asked.route_decision = s.route_decision
      /\ asked.external_evidence = s.external_evidence /\ asked.evidence_ledger = s.evidence_ledger
      /\ asked.clarification_frame = s.clarification_frame
      /\ asked.authorization_errors = s.authorization_errors
  BY <1>2, FieldNames DEF IsState, Keeps
<1> HIDE DEF asked
<1> QED  BY <1>1, <1>2, <1>3 DEF given, asked

-----------------------------------------------------------------------------
(* Every step *)

\* The initial state is good.
LEMMA InitIsGood == ASSUME Init PROVE GraphInv
<1>1. graph = [at |-> "end", s |-> NoState]
  BY DEF Init
<1>2. PlanFits(NoState)
  BY NewState, NewPlanFits
<1>3. Decided("end", NoState)
  BY DEF Decided
<1>4. Good("end", NoState)
  BY <1>2, <1>3, NewState, NothingFound DEF Consulting
<1> QED  BY <1>1, <1>4 DEF GraphInv

\* The nodes from the message to the decision.
LEMMA StartIsGood ==
    ASSUME GraphInv, \/ Ingest \/ AuthorizeScope \/ ClassifyAndExtract \/ ValidateRequiredFields
    PROVE  GraphInv'
<1> DEFINE s == graph.s
<1>1. Good(graph.at, s)
  BY DEF GraphInv
<1>2. ASSUME NEW at, NEW t, NEW next, Node(at, t, next), Good(next, t) PROVE GraphInv'
  BY <1>2 DEF Node, GraphInv
<1>3. CASE Ingest
  <2>1. Good("authorize_scope", IngestRequest(s))
    BY <1>1, IngestIsGood DEF Good
  <2> QED  BY <1>2, <1>3, <2>1 DEF Ingest
<1>4. CASE AuthorizeScope
  <2>1. Good("authorize_scope", s)
    BY <1>1, <1>4 DEF AuthorizeScope, Node
  <2>2. Good("classify_and_extract", [s EXCEPT !.authorization_errors = <<>>])
    BY <2>1, AuthorizeIsGood
  <2> QED  BY <1>2, <1>4, <2>2 DEF AuthorizeScope
<1>5. CASE ClassifyAndExtract
  <2>1. Good("classify_and_extract", s)
    BY <1>1, <1>5 DEF ClassifyAndExtract
  <2>2. PICK u : Node("classify_and_extract", ClassificationUpdate(s, u, s.request), "validate_required_fields")
    BY <1>5 DEF ClassifyAndExtract
  <2>3. Good("validate_required_fields", ClassificationUpdate(s, u, s.request))
    BY <2>1, ClassifyIsGood
  <2> QED  BY <1>2, <2>2, <2>3
<1>6. CASE ValidateRequiredFields
  <2>1. Good("validate_required_fields", s)
    BY <1>1, <1>6 DEF ValidateRequiredFields
  <2> DEFINE t == ValidatedFields(s)
  <2>2. Node("validate_required_fields", t, RouteAfterValidation(t))
    BY <1>6 DEF ValidateRequiredFields
  <2>3. Good(RouteAfterValidation(t), t)
    BY <2>1, ValidateIsGood
  <2> QED  BY <1>2, <2>2, <2>3
<1> QED  BY <1>3, <1>4, <1>5, <1>6

\* The nodes that ask the user and take the answer.
LEMMA ClarificationIsGood == ASSUME GraphInv, Clarification PROVE GraphInv'
<1> DEFINE s == graph.s
<1>1. Good(graph.at, s)
  BY DEF GraphInv
<1>2. ASSUME NEW at, NEW t, NEW next, Node(at, t, next), Good(next, t) PROVE GraphInv'
  BY <1>2 DEF Node, GraphInv
<1>3. ASSUME NEW at, NEW t, Interrupt(at, t),
             Good("resolve_clarification_turn", [t EXCEPT !.clarification_response = run.resume])
      PROVE  GraphInv'
  BY <1>3 DEF Interrupt, GraphInv
<1>4. CASE PrepareClarificationReply
  <2>1. Good("prepare_clarification_reply", s)
    BY <1>1, <1>4 DEF PrepareClarificationReply, Node
  <2>2. Good("clarify_missing_fields", [s EXCEPT !.task_results = TaskResults(s)])
    BY <2>1, AskIsGood DEF Early
  <2> QED  BY <1>2, <1>4, <2>2 DEF PrepareClarificationReply
<1>5. CASE ClarifyMissingFields
  <2>1. Good("clarify_missing_fields", s)
    BY <1>1, <1>5 DEF ClarifyMissingFields, Interrupt
  <2> DEFINE asked == s.clarification_frame.round + 1
             t == [s EXCEPT !.clarification_frame.round = asked, !.clarification_frame.status = "waiting",
                            !.clarification_round = asked]
  <2>2. Good("resolve_clarification_turn", [t EXCEPT !.clarification_response = run.resume])
    BY <2>1, InterruptIsGood DEF Early
  <2>3. Interrupt("clarify_missing_fields", t)
    BY <1>5 DEF ClarifyMissingFields
  <2> QED  BY <1>3, <2>2, <2>3
<1>6. CASE ResolveClarificationTurn
  <2>1. Good("resolve_clarification_turn", s)
    BY <1>1, <1>6 DEF ResolveClarificationTurn
  <2>2. PICK u : Node("resolve_clarification_turn", Resolved(s, u), RouteAfterResolution(Resolved(s, u)))
    BY <1>6 DEF ResolveClarificationTurn
  <2>3. Good(RouteAfterResolution(Resolved(s, u)), Resolved(s, u))
    BY <2>1, ResolveIsGood
  <2> QED  BY <1>2, <2>2, <2>3
<1>7. CASE AnswerSideConversation
  <2>1. Good("answer_side_conversation", s)
    BY <1>1, <1>7 DEF AnswerSideConversation, Node
  <2>2. Good("pause_clarification", DirectlyAnswered(s))
    BY <2>1, AnsweredIsGood DEF DirectlyAnswered, Early
  <2> QED  BY <1>2, <1>7, <2>2 DEF AnswerSideConversation
<1>8. CASE ResumeClarification
  <2>1. Good("resume_clarification", s)
    BY <1>1, <1>8 DEF ResumeClarification, Interrupt
  <2> DEFINE t == [s EXCEPT !.clarification_resume_only = FALSE]
  <2>2. Good("resolve_clarification_turn", [t EXCEPT !.clarification_response = run.resume])
    BY <2>1, InterruptIsGood DEF Early
  <2>3. Interrupt("resume_clarification", t)
    BY <1>8 DEF ResumeClarification
  <2> QED  BY <1>3, <2>2, <2>3
<1>9. CASE PrepareRelationClarification
  <2>1. Good("prepare_relation_clarification", s)
    BY <1>1, <1>9 DEF PrepareRelationClarification, Node
  <2>2. Good("pause_clarification", s)
    BY <2>1, AnsweredIsGood DEF Early
  <2> QED  BY <1>2, <1>9, <2>2 DEF PrepareRelationClarification
<1>10. CASE PauseClarification
  <2>1. Good("pause_clarification", s)
    BY <1>1, <1>10 DEF PauseClarification, Interrupt
  <2> DEFINE t == [s EXCEPT !.clarification_frame.status = "waiting"]
  <2>2. Good("resolve_clarification_turn", [t EXCEPT !.clarification_response = run.resume])
    BY <2>1, InterruptIsGood DEF Early
  <2>3. Interrupt("pause_clarification", t)
    BY <1>10 DEF PauseClarification
  <2> QED  BY <1>3, <2>2, <2>3
<1> QED  BY <1>4, <1>5, <1>6, <1>7, <1>8, <1>9, <1>10 DEF Clarification

\* The nodes that consult.
LEMMA EvidenceIsGood == ASSUME GraphInv, Evidence PROVE GraphInv'
<1> DEFINE s == graph.s
<1>1. Good(graph.at, s)
  BY DEF GraphInv
<1>2. ASSUME NEW at, NEW t, NEW next, Node(at, t, next), Good(next, t) PROVE GraphInv'
  BY <1>2 DEF Node, GraphInv
<1>3. CASE ExecuteCombinationPrelude
  <2>1. Good("execute_combination_prelude", s)
    BY <1>1, <1>3 DEF ExecuteCombinationPrelude, Node
  <2>2. Good("retrieve_evidence", s)
    BY <2>1, PreludeIsGood
  <2> QED  BY <1>2, <1>3, <2>2 DEF ExecuteCombinationPrelude
<1>4. CASE RetrieveEvidence
  <2> DEFINE t(route, evidence, live, trace) ==
               [s EXCEPT !.initial_route_decision = s.route_decision, !.route_decision = route,
                         !.reranked_evidence = evidence, !.external_evidence = None,
                         !.live_data_refs = live, !.trace_id = trace]
  <2>a. PICK route \in {"internal_rag", s.route_decision} : \E evidence, live, trace :
               Node("retrieve_evidence", t(route, evidence, live, trace), "assess_evidence")
    BY <1>4, ZenonT(60) DEF RetrieveEvidence
  <2>1. PICK evidence, live, trace :
               Node("retrieve_evidence", t(route, evidence, live, trace), "assess_evidence")
    BY <2>a
  <2>2. Good("retrieve_evidence", s)
    BY <1>1, <2>1 DEF Node
  <2>3. Good("assess_evidence", t(route, evidence, live, trace))
    BY <2>2, RetrieveIsGood
  <2> HIDE DEF t
  <2> QED  BY <1>2, <2>1, <2>3
<1>5. CASE AssessEvidence
  <2> DEFINE tools == s.route_decision = "tool_only"
             a(judged) == Assess(s.understanding, s.reranked_evidence, s.initial_route_decision, judged)
             t(evidence, allowed, mode) == [s EXCEPT !.reranked_evidence = evidence,
                                                     !.web_fallback_allowed = allowed, !.answer_mode = mode]
             next(allowed) == IF allowed THEN "search_external" ELSE "build_evidence_ledger"
  <2>1. Good("assess_evidence", s)
    BY <1>1, <1>5 DEF AssessEvidence
  <2>2. PICK judged, evidence, mode :
               Node("assess_evidence", t(evidence, ~tools /\ a(judged).web_fallback_allowed, mode),
                    next(~tools /\ a(judged).web_fallback_allowed))
    BY <1>5 DEF AssessEvidence
  <2> DEFINE allowed == ~tools /\ a(judged).web_fallback_allowed
  <2>3. IsControlled(s) => ~allowed
    BY ControlledIsNotPublic
  <2> HIDE DEF allowed
  <2>4. Good(next(allowed), t(evidence, allowed, mode))
    BY <2>1, <2>3, AssessIsGood
  <2> HIDE DEF t, next
  <2> QED  BY <1>2, <2>2, <2>4 DEF allowed
<1>6. CASE SearchExternal
  <2>1. PICK answer : Node("search_external",
                           [s EXCEPT !.route_decision = "rag_and_web", !.external_evidence = answer],
                           "build_evidence_ledger")
    BY <1>6 DEF SearchExternal
  <2>2. Good("search_external", s)
    BY <1>1, <2>1 DEF Node
  <2>3. Good("build_evidence_ledger", [s EXCEPT !.route_decision = "rag_and_web", !.external_evidence = answer])
    BY <2>2, SearchIsGood
  <2> QED  BY <1>2, <2>1, <2>3
<1>7. CASE BuildEvidenceLedger
  <2> DEFINE t == [s EXCEPT !.evidence_ledger = Ledger(s)]
  <2>1. Good("build_evidence_ledger", s)
    BY <1>1, <1>7 DEF BuildEvidenceLedger, Node
  <2>2. /\ Keeps(s, t) /\ t.route_decision = s.route_decision /\ t.external_evidence = s.external_evidence
        /\ t.clarification_frame = s.clarification_frame /\ t.authorization_errors = s.authorization_errors
    BY <2>1, FieldNames DEF Good, IsState, Keeps
  <2>3. Node("build_evidence_ledger", t, "generate_answer")
    BY <1>7 DEF BuildEvidenceLedger
  <2> HIDE DEF t
  <2>4. Good("generate_answer", t)
    BY <2>1, <2>2, WrittenIsGood
  <2> QED  BY <1>2, <2>3, <2>4
<1>8. CASE GenerateAnswer
  <2>1. PICK claims : Node("generate_answer", [s EXCEPT !.answer = claims], "verify_answer")
    BY <1>8 DEF GenerateAnswer
  <2> DEFINE t == [s EXCEPT !.answer = claims]
  <2>2. Good("generate_answer", s)
    BY <1>1, <2>1 DEF Node
  <2>3. /\ Keeps(s, t) /\ t.route_decision = s.route_decision /\ t.external_evidence = s.external_evidence
        /\ t.clarification_frame = s.clarification_frame /\ t.authorization_errors = s.authorization_errors
    BY <2>2, FieldNames DEF Good, IsState, Keeps
  <2> HIDE DEF t
  <2>4. Good("verify_answer", t)
    BY <2>2, <2>3, WrittenIsGood
  <2> QED  BY <1>2, <2>1, <2>4 DEF t
<1>9. CASE VerifyAnswer
  <2> DEFINE verified == Verified(s)
             t == [s EXCEPT !.answer = verified, !.citations = UNION {c.citations : c \in verified},
                            !.status = "completed"]
  <2>1. Node("verify_answer", t, "finalize_task_results")
    BY <1>9 DEF VerifyAnswer
  <2> HIDE DEF verified
  <2>2. Good("verify_answer", s)
    BY <1>1, <2>1 DEF Node
  <2>3. /\ Keeps(s, t) /\ t.route_decision = s.route_decision /\ t.external_evidence = s.external_evidence
        /\ t.clarification_frame = s.clarification_frame /\ t.authorization_errors = s.authorization_errors
    BY <2>2, FieldNames DEF Good, IsState, Keeps
  <2> HIDE DEF t
  <2>4. Good("finalize_task_results", t)
    BY <2>2, <2>3, WrittenIsGood
  <2> QED  BY <1>2, <2>1, <2>4
<1> QED  BY <1>3, <1>4, <1>5, <1>6, <1>7, <1>8, <1>9 DEF Evidence

\* The nodes that end a turn.
LEMMA EndingIsGood ==
    ASSUME GraphInv, \/ DirectAnswer \/ RefuseRequest \/ InsufficientInformation \/ FinalizeTaskResults \/ Audit
    PROVE  GraphInv'
<1> DEFINE s == graph.s
<1>1. Good(graph.at, s)
  BY DEF GraphInv
<1>2. ASSUME NEW at, NEW t, NEW next, Node(at, t, next), Good(next, t) PROVE GraphInv'
  BY <1>2 DEF Node, GraphInv
<1>3. CASE DirectAnswer
  <2>1. Good("direct_answer", s)
    BY <1>1, <1>3 DEF DirectAnswer, Node
  <2>2. Good("finalize_task_results", DirectlyAnswered(s))
    BY <2>1, AnsweredIsGood DEF DirectlyAnswered, Early
  <2> QED  BY <1>2, <1>3, <2>2 DEF DirectAnswer
<1>4. CASE RefuseRequest
  <2>1. Good("refuse_request", s)
    BY <1>1, <1>4 DEF RefuseRequest, Node
  <2>2. Good("finalize_task_results", [s EXCEPT !.answer = {}, !.citations = {}, !.status = "refused"])
    BY <2>1, AnsweredIsGood DEF Early
  <2> QED  BY <1>2, <1>4, <2>2 DEF RefuseRequest
<1>5. CASE InsufficientInformation
  <2>1. Good("insufficient_information", s)
    BY <1>1, <1>5 DEF InsufficientInformation, Node
  <2>2. Good("finalize_task_results",
             [s EXCEPT !.answer = {}, !.citations = {}, !.status = "insufficient_information"])
    BY <2>1, AnsweredIsGood DEF Early
  <2> QED  BY <1>2, <1>5, <2>2 DEF InsufficientInformation
<1>6. CASE FinalizeTaskResults
  <2>1. Good("finalize_task_results", s)
    BY <1>1, <1>6 DEF FinalizeTaskResults, Node
  <2>2. Good("audit", [s EXCEPT !.task_results = TaskResults(s)])
    BY <2>1, EndIsGood
  <2> QED  BY <1>2, <1>6, <2>2 DEF FinalizeTaskResults
<1>7. CASE Audit
  <2>1. Good("audit", s)
    BY <1>1, <1>7 DEF Audit, Node
  <2>2. Good("end", s)
    BY <2>1, EndIsGood
  <2> QED  BY <1>2, <1>7, <2>2 DEF Audit
<1> QED  BY <1>3, <1>4, <1>5, <1>6, <1>7

\* A message is given to the graph.
LEMMA ServiceIsGood ==
    ASSUME GraphInv, NEW c \in Client, StreamMessage(c)
    PROVE  GraphInv'
<1>1. Good(graph.at, graph.s) /\ graph = [at |-> graph.at, s |-> graph.s]
  BY DEF GraphInv
<1> DEFINE given(context) == [graph.s EXCEPT !.conversation_context = context]
           asked(context, m) == [given(context) EXCEPT !.request = m, !.clarification_round = 0]
<1>2. PICK context, m :
        \/ graph' = [graph EXCEPT !.s = given(context)]
        \/ graph' = [at |-> "ingest_request", s |-> asked(context, m)]
  BY DEF StreamMessage
<1>3. Good(graph.at, given(context)) /\ Good("ingest_request", asked(context, m))
  BY <1>1, GivenIsGood
<1> HIDE DEF given, asked
<1>4. CASE graph' = [graph EXCEPT !.s = given(context)]
  <2>1. graph' = [at |-> graph.at, s |-> given(context)]
    BY <1>1, <1>4
  <2> QED  BY <1>3, <2>1 DEF GraphInv
<1>5. CASE graph' = [at |-> "ingest_request", s |-> asked(context, m)]
  BY <1>3, <1>5 DEF GraphInv
<1> QED  BY <1>2, <1>4, <1>5

\* Every step leads from a good checkpoint to a good one.
LEMMA GraphStaysGood == GraphInv /\ [Next]_vars => GraphInv'
<1> SUFFICES ASSUME GraphInv, [Next]_vars PROVE GraphInv'
  OBVIOUS
<1>1. CASE \E c \in Client : PrepareMessage(c) \/ StreamMessage(c)
  <2>1. PICK c \in Client : PrepareMessage(c) \/ StreamMessage(c)
    BY <1>1
  <2>2. CASE PrepareMessage(c)
    BY <2>2 DEF PrepareMessage, GraphInv
  <2>3. CASE StreamMessage(c)
    BY <2>3, ServiceIsGood
  <2> QED  BY <2>1, <2>2, <2>3
<1>2. CASE Step
  <2>1. CASE FinalizeStreamResponse
    BY <2>1 DEF FinalizeStreamResponse, GraphInv
  <2> QED  BY <1>2, <2>1, StartIsGood, ClarificationIsGood, EvidenceIsGood, EndingIsGood DEF Step
<1>3. CASE Fail
  BY <1>3 DEF Fail, GraphInv
<1>4. CASE Rest \/ UNCHANGED vars
  BY <1>4 DEF Rest, vars, GraphInv
<1> QED  BY <1>1, <1>2, <1>3, <1>4 DEF Next

\* The checkpoint is always good.
LEMMA GraphIsGood == Spec => []GraphInv
<1> QED  BY InitIsGood, GraphStaysGood, PTL DEF Spec

-----------------------------------------------------------------------------
(* Theorems *)

\* No document, tool or web search is consulted for a request that lacks what its route
\* needs, that waits for an answer or that is out of the actor's scope.
THEOREM CallsAlwaysCleared == Spec => []CallsAreCleared
<1>1. GraphInv => CallsAreCleared
  BY DEF GraphInv, Good, Cleared, CallsAreCleared, Uncalled
<1> QED  BY <1>1, GraphIsGood, PTL

\* The web is never asked about an SOP or a recipe, and never answers about one.
THEOREM ControlledAlwaysInternal == Spec => []ControlledRestsOnInternal
<1>1. GraphInv => ControlledRestsOnInternal
  BY DEF GraphInv, Good, Controlled, IsControlled, ControlledRestsOnInternal
<1> QED  BY <1>1, GraphIsGood, PTL

\* Every task that would write to a recipe is refused by the plan, whatever the model
\* says of it, whatever else the message asks and whatever is put off or asked for.
WritesAreNeverPlanned ==
    \A i \in DOMAIN Tasks(graph.s) :
      IsForbiddenMutation(Tasks(graph.s)[i]) => graph.s.route_plan.task_decisions[i].decision = "refuse"

\* The plan of no request executes a task that would write to a recipe (route_policy.py).
THEOREM WritesNeverPlanned == Spec => []WritesAreNeverPlanned
<1>1. GraphInv => WritesAreNeverPlanned
  BY DEF GraphInv, Good, PlanFits, WritesAreNeverPlanned
<1> QED  BY <1>1, GraphIsGood, PTL

-----------------------------------------------------------------------------
(* What the thread remembers *)

IsRemembered(active) ==
    /\ active = [slots |-> active.slots, evidence_refs |-> active.evidence_refs, trace_id |-> active.trace_id]
    /\ \A n \in DOMAIN active.slots :
         LET slot == active.slots[n] IN slot = [value |-> slot.value, source |-> slot.source, valid |-> slot.valid]
    /\ \A ref \in active.evidence_refs : ref = [id |-> ref.id, source |-> ref.source, valid |-> ref.valid]

ThreadInv ==
    /\ thread = [waiting |-> thread.waiting, messages |-> thread.messages, active_context |-> thread.active_context]
    /\ IsRemembered(thread.active_context)

Changed(old, new) ==
    {n \in DOMAIN old.slots : old.slots[n].valid /\ new.slots[n].valid /\ old.slots[n].value # new.slots[n].value}

\* Invalidation keeps the values, and takes the evidence and the dependents.
LEMMA Invalidated ==
    ASSUME NEW active, IsRemembered(active), NEW changed
    PROVE  LET left == InvalidateDependents(active, changed) IN
           /\ IsRemembered(left) /\ left.trace_id = active.trace_id /\ DOMAIN left.slots = DOMAIN active.slots
           /\ \A n \in DOMAIN active.slots :
                /\ left.slots[n].value = active.slots[n].value
                /\ SlotDependencies(n) \cap changed # {} => ~left.slots[n].valid
           /\ \A ref \in left.evidence_refs : ~ref.valid
<1> DEFINE slots == [n \in DOMAIN active.slots |->
                       IF SlotDependencies(n) \cap changed # {} THEN [active.slots[n] EXCEPT !.valid = FALSE]
                       ELSE active.slots[n]]
           refs == {[ref EXCEPT !.valid = FALSE] : ref \in active.evidence_refs}
           left == InvalidateDependents(active, changed)
<1>1. left = [slots |-> slots, evidence_refs |-> refs, trace_id |-> active.trace_id]
  <2>1. left = [active EXCEPT !.slots = slots, !.evidence_refs = refs]
    BY DEF InvalidateDependents
  <2>2. active = [slots |-> active.slots, evidence_refs |-> active.evidence_refs, trace_id |-> active.trace_id]
    BY DEF IsRemembered
  <2> HIDE DEF slots, refs, left
  <2> QED  BY <2>1, <2>2
<1>2. \A n \in DOMAIN slots :
        /\ slots[n] = [value |-> slots[n].value, source |-> slots[n].source, valid |-> slots[n].valid]
        /\ slots[n].value = active.slots[n].value
        /\ SlotDependencies(n) \cap changed # {} => ~slots[n].valid
  <2>1. SUFFICES ASSUME NEW n \in DOMAIN active.slots
                 PROVE  /\ slots[n] = [value |-> slots[n].value, source |-> slots[n].source, valid |-> slots[n].valid]
                        /\ slots[n].value = active.slots[n].value
                        /\ SlotDependencies(n) \cap changed # {} => ~slots[n].valid
    OBVIOUS
  <2>2. active.slots[n] = [value |-> active.slots[n].value, source |-> active.slots[n].source,
                           valid |-> active.slots[n].valid]
    BY DEF IsRemembered
  <2>3. CASE SlotDependencies(n) \cap changed # {}
    <3>1. slots[n] = [value |-> active.slots[n].value, source |-> active.slots[n].source, valid |-> FALSE]
      BY <2>2, <2>3
    <3> HIDE DEF slots
    <3> QED  BY <3>1
  <2>4. CASE SlotDependencies(n) \cap changed = {}
    <3>1. slots[n] = active.slots[n]
      BY <2>4
    <3> HIDE DEF slots
    <3> QED  BY <2>2, <2>4, <3>1
  <2> QED  BY <2>3, <2>4
<1>3. \A ref \in refs : ref = [id |-> ref.id, source |-> ref.source, valid |-> ref.valid] /\ ~ref.valid
  <2>1. SUFFICES ASSUME NEW old \in active.evidence_refs, NEW ref, ref = [old EXCEPT !.valid = FALSE]
                 PROVE  ref = [id |-> ref.id, source |-> ref.source, valid |-> ref.valid] /\ ~ref.valid
    OBVIOUS
  <2>2. old = [id |-> old.id, source |-> old.source, valid |-> old.valid]
    BY DEF IsRemembered
  <2>3. ref = [id |-> old.id, source |-> old.source, valid |-> FALSE]
    BY <2>1, <2>2
  <2> QED  BY <2>3
<1>4. DOMAIN slots = DOMAIN active.slots
  OBVIOUS
<1> HIDE DEF slots, refs, left
<1>5. left.slots = slots /\ left.evidence_refs = refs /\ left.trace_id = active.trace_id
  BY <1>1
<1>6. IsRemembered(left)
  BY <1>1, <1>2, <1>3, <1>5 DEF IsRemembered
<1> QED  BY <1>2, <1>3, <1>4, <1>5, <1>6 DEF left

\* A slot that takes another value in an update takes it from the request, and takes
\* with it what was found before and what depends on it.
LEMMA Updated ==
    ASSUME NEW before, IsRemembered(before.active_context), NEW result, NEW source
    PROVE  LET old == before.active_context
               new == UpdateActiveContext(before, result, source)
           IN  /\ IsRemembered(new)
               /\ Changed(old, new) # {} =>
                    /\ \A ref \in new.evidence_refs : ref.valid => result.ledger # {} /\ ref.source = source
                    /\ \A n \in DOMAIN new.slots :
                         SlotDependencies(n) \cap Changed(old, new) # {} /\ new.slots[n].valid
                           => n \in DOMAIN result.slots
<1> DEFINE refused == result.route = "refuse"
           asked == IF refused THEN NoSlots ELSE result.slots
           operations == IF refused THEN {} ELSE result.slot_operations
           active == before.active_context
           known(n) == n \in DOMAIN active.slots /\ active.slots[n].valid
           of(kinds) == {o.slot_name : o \in {o \in operations : o.operation \in kinds}}
           clears == of({"clear"})
           inherits == of({"inherit"})
           changed == of({"correct", "clear"})
                        \cup {n \in DOMAIN asked : known(n) /\ active.slots[n].value # asked[n]}
           left == IF changed = {} THEN active ELSE InvalidateDependents(active, changed)
           cleared == [n \in DOMAIN left.slots |->
                         IF n \in clears THEN [left.slots[n] EXCEPT !.valid = FALSE] ELSE left.slots[n]]
           stays(n) == n \in inherits /\ n \in DOMAIN cleared /\ cleared[n].valid
           sourceOf(n) == IF n \in inherits /\ n \in DOMAIN active.slots THEN active.slots[n].source
                          ELSE FindSourceMessage(before.messages, n, asked[n], source)
           taken == {n \in DOMAIN asked : ~stays(n)}
           set == [n \in taken |-> [value |-> asked[n], source |-> sourceOf(n), valid |-> TRUE]]
           slots == Overlay(cleared, set)
           refs == IF result.ledger # {}
                   THEN {[id |-> e.evidence_id, source |-> source, valid |-> TRUE] : e \in result.ledger}
                   ELSE left.evidence_refs
           trace == IF result.trace_id # None THEN result.trace_id ELSE left.trace_id
           new == UpdateActiveContext(before, result, source)
<1>1. new = [slots |-> slots, evidence_refs |-> refs, trace_id |-> trace]
  BY DEF UpdateActiveContext
<1>2. \A n \in DOMAIN asked : n \in DOMAIN result.slots
  BY DEF NoSlots
<1>3. \A n \in DOMAIN asked : known(n) /\ active.slots[n].value # asked[n] => n \in changed
  OBVIOUS
<1> HIDE DEF operations, clears, inherits, changed, asked
<1>4. /\ IsRemembered(left) /\ DOMAIN left.slots = DOMAIN active.slots
      /\ \A n \in DOMAIN active.slots :
           /\ left.slots[n].value = active.slots[n].value
           /\ changed # {} /\ SlotDependencies(n) \cap changed # {} => ~left.slots[n].valid
      /\ changed # {} => \A ref \in left.evidence_refs : ~ref.valid
  <2>1. CASE changed = {}
    BY <2>1
  <2>2. CASE changed # {}
    <3>1. left = InvalidateDependents(active, changed)
      BY <2>2
    <3>2. IsRemembered(active)
      OBVIOUS
    <3> HIDE DEF left, active
    <3>3. /\ IsRemembered(left) /\ DOMAIN left.slots = DOMAIN active.slots
          /\ \A ref \in left.evidence_refs : ~ref.valid
      BY <3>1, <3>2, Invalidated
    <3>4. \A n \in DOMAIN active.slots : left.slots[n].value = active.slots[n].value
      BY <3>1, <3>2, Invalidated
    <3>5. \A n \in DOMAIN active.slots : SlotDependencies(n) \cap changed # {} => ~left.slots[n].valid
      BY <3>1, <3>2, Invalidated
    <3> QED  BY <2>2, <3>3, <3>4, <3>5
  <2> QED  BY <2>1, <2>2
<1> HIDE DEF left
<1>5. /\ DOMAIN cleared = DOMAIN active.slots
      /\ \A n \in DOMAIN active.slots :
           /\ cleared[n] = [value |-> cleared[n].value, source |-> cleared[n].source, valid |-> cleared[n].valid]
           /\ cleared[n].value = active.slots[n].value
           /\ changed # {} /\ SlotDependencies(n) \cap changed # {} => ~cleared[n].valid
  <2>1. DOMAIN cleared = DOMAIN active.slots
    BY <1>4
  <2>2. SUFFICES ASSUME NEW n \in DOMAIN active.slots
        PROVE  /\ cleared[n] = [value |-> cleared[n].value, source |-> cleared[n].source, valid |-> cleared[n].valid]
               /\ cleared[n].value = active.slots[n].value
               /\ changed # {} /\ SlotDependencies(n) \cap changed # {} => ~cleared[n].valid
    BY <2>1
  <2>3. left.slots[n] = [value |-> left.slots[n].value, source |-> left.slots[n].source,
                         valid |-> left.slots[n].valid]
    BY <1>4 DEF IsRemembered
  <2>4. CASE n \in clears
    <3>1. cleared[n] = [value |-> left.slots[n].value, source |-> left.slots[n].source, valid |-> FALSE]
      BY <1>4, <2>3, <2>4
    <3> HIDE DEF cleared
    <3> QED  BY <1>4, <3>1
  <2>5. CASE n \notin clears
    <3>1. cleared[n] = left.slots[n]
      BY <1>4, <2>5
    <3> HIDE DEF cleared
    <3> QED  BY <1>4, <2>3, <3>1
  <2> QED  BY <2>4, <2>5
<1> HIDE DEF cleared
<1>6. /\ DOMAIN slots = DOMAIN active.slots \cup taken
      /\ \A n \in taken : slots[n].value = asked[n] /\ slots[n].valid = TRUE
                         /\ slots[n] = [value |-> slots[n].value, source |-> slots[n].source,
                                        valid |-> slots[n].valid]
      /\ \A n \in DOMAIN active.slots \ taken : slots[n] = cleared[n]
  <2>1. \A n \in taken : slots[n] = [value |-> asked[n], source |-> sourceOf(n), valid |-> TRUE]
    BY DEF Overlay
  <2>2. DOMAIN slots = DOMAIN active.slots \cup taken /\ \A n \in DOMAIN active.slots \ taken : slots[n] = cleared[n]
    BY <1>5 DEF Overlay
  <2> HIDE DEF slots, sourceOf, taken
  <2> QED  BY <2>1, <2>2
<1>7. taken \subseteq DOMAIN asked
  OBVIOUS
<1> HIDE DEF set, slots, taken, stays, sourceOf
<1>8. \A ref \in refs : ref = [id |-> ref.id, source |-> ref.source, valid |-> ref.valid]
  BY <1>4 DEF IsRemembered
<1>9. changed # {} => \A ref \in refs : ref.valid => result.ledger # {} /\ ref.source = source
  BY <1>4
<1> HIDE DEF refs, trace, new
<1>10. new.slots = slots /\ new.evidence_refs = refs
  BY <1>1
<1>11. IsRemembered(new)
  BY <1>1, <1>5, <1>6, <1>8, <1>10, ZenonT(60) DEF IsRemembered
<1>12. Changed(active, new) \subseteq changed
  BY <1>3, <1>5, <1>6, <1>7, <1>10 DEF Changed
<1>13. ASSUME Changed(active, new) # {}, NEW n \in DOMAIN new.slots,
              SlotDependencies(n) \cap Changed(active, new) # {}, new.slots[n].valid
       PROVE  n \in DOMAIN result.slots
  <2>1. CASE n \in taken
    BY <1>2, <1>7, <2>1
  <2>2. CASE n \notin taken
    <3>1. SlotDependencies(n) \cap changed # {} /\ changed # {}
      BY <1>12, <1>13
    <3>2. n \in DOMAIN active.slots /\ new.slots[n] = cleared[n]
      BY <1>6, <1>10, <1>13, <2>2
    <3>3. ~new.slots[n].valid
      BY <1>5, <3>1, <3>2
    <3> QED  BY <1>13, <3>3
  <2> QED  BY <2>1, <2>2
<1>14. Changed(active, new) # {} =>
         \A ref \in new.evidence_refs : ref.valid => result.ledger # {} /\ ref.source = source
  BY <1>9, <1>10, <1>12
<1> QED  BY <1>11, <1>13, <1>14 DEF new

\* A new thread remembers nothing.
LEMMA ThreadStarts == ASSUME Init PROVE ThreadInv
<1>1. DOMAIN NewContext.slots = {} /\ NewContext.evidence_refs = {}
  BY DEF NewContext
<1>2. NewContext = [slots |-> NewContext.slots, evidence_refs |-> NewContext.evidence_refs,
                    trace_id |-> NewContext.trace_id]
  BY DEF NewContext
<1>3. IsRemembered(NewContext)
  BY <1>1, <1>2 DEF IsRemembered
<1> QED  BY <1>3 DEF Init, ThreadInv

\* Only an answer changes what the thread remembers.
LEMMA ThreadKept ==
    ASSUME ThreadInv, [Next]_vars, ~FinalizeStreamResponse
    PROVE  ThreadInv' /\ thread'.active_context = thread.active_context
<1>1. CASE UNCHANGED thread
  BY <1>1 DEF ThreadInv
<1>2. ASSUME NEW c \in Client, StreamMessage(c)
      PROVE  ThreadInv' /\ thread'.active_context = thread.active_context
  <2>1. PICK e : thread' = [thread EXCEPT !.messages = Append(@, e)]
    BY <1>2 DEF StreamMessage
  <2>2. thread' = [waiting |-> thread.waiting, messages |-> Append(thread.messages, e),
                   active_context |-> thread.active_context]
    BY <2>1 DEF ThreadInv
  <2> QED  BY <2>2 DEF ThreadInv
<1>3. CASE UNCHANGED vars
  BY <1>1, <1>3 DEF vars
<1>4. CASE \E c \in Client : PrepareMessage(c) \/ StreamMessage(c)
  BY <1>1, <1>2, <1>4 DEF PrepareMessage
<1>5. CASE Step
  BY <1>1, <1>5
     DEF Step, Clarification, Evidence, Node, Interrupt, Ingest, AuthorizeScope, ClassifyAndExtract,
         ValidateRequiredFields, PrepareClarificationReply, ClarifyMissingFields, ResolveClarificationTurn,
         AnswerSideConversation, ResumeClarification, PrepareRelationClarification, PauseClarification,
         ExecuteCombinationPrelude, RetrieveEvidence, AssessEvidence, SearchExternal, BuildEvidenceLedger,
         GenerateAnswer, VerifyAnswer, DirectAnswer, RefuseRequest, InsufficientInformation,
         FinalizeTaskResults, Audit
<1>6. CASE Fail \/ Rest
  BY <1>1, <1>3, <1>6 DEF Fail, Rest
<1> QED  BY <1>3, <1>4, <1>5, <1>6 DEF Next

\* An answer that changes a slot invalidates what depended on it.
LEMMA ThreadFinalized ==
    ASSUME ThreadInv, GraphInv, FinalizeStreamResponse
    PROVE  LET old == thread.active_context
               new == thread'.active_context
           IN  /\ ThreadInv'
               /\ Changed(old, new) # {} =>
                    /\ \A ref \in new.evidence_refs :
                         ref.valid => graph.s.route_decision \notin Uncalled /\ ref.source = run.entry
                    /\ \A n \in DOMAIN new.slots :
                         SlotDependencies(n) \cap Changed(old, new) # {} /\ new.slots[n].valid
                           => n \in DOMAIN Slots(graph.s)
<1> DEFINE s == graph.s
           result == [route |-> s.route_decision, slots |-> Slots(s), ledger |-> s.evidence_ledger,
                      trace_id |-> s.trace_id, slot_operations |-> s.understanding.slot_operations]
           new == UpdateActiveContext(thread, result, run.entry)
<1>1. PICK waiting, messages : thread' = [waiting |-> waiting, messages |-> messages, active_context |-> new]
  BY DEF FinalizeStreamResponse
<1>2. result.ledger = s.evidence_ledger /\ result.slots = Slots(s)
  OBVIOUS
<1>3. s.evidence_ledger # {} => s.route_decision \notin Uncalled
  BY DEF GraphInv, Good, EvidenceComesLate
<1> HIDE DEF result
<1>4. /\ IsRemembered(new)
      /\ Changed(thread.active_context, new) # {} =>
           /\ \A ref \in new.evidence_refs : ref.valid => result.ledger # {} /\ ref.source = run.entry
           /\ \A n \in DOMAIN new.slots :
                SlotDependencies(n) \cap Changed(thread.active_context, new) # {} /\ new.slots[n].valid
                  => n \in DOMAIN result.slots
  BY Updated DEF ThreadInv
<1> HIDE DEF new
<1>5. ThreadInv' /\ thread'.active_context = new
  BY <1>1, <1>4 DEF ThreadInv
<1> QED  BY <1>2, <1>3, <1>4, <1>5

\* When a turn changes what is known of a slot, what was found before is not valid any
\* more, and neither is a slot that depends on the changed one and that the request leaves out.
THEOREM CorrectionAlwaysInvalidates == Spec => CorrectionInvalidates
<1>1. Init => ThreadInv
  BY ThreadStarts
<1>2. ThreadInv /\ GraphInv /\ [Next]_vars => ThreadInv'
  BY ThreadKept, ThreadFinalized
<1>3. ThreadInv /\ GraphInv /\ [Next]_vars =>
        [LET old == thread.active_context
             new == thread'.active_context
             changed == {n \in DOMAIN old.slots :
                           old.slots[n].valid /\ new.slots[n].valid /\ old.slots[n].value # new.slots[n].value}
             consulted == graph.s.route_decision \notin {"chat_direct", "clarify", "refuse"}
         IN  changed # {} =>
               /\ \A ref \in new.evidence_refs : ref.valid => consulted /\ ref.source = run.entry
               /\ \A n \in DOMAIN new.slots :
                    SlotDependencies(n) \cap changed # {} /\ new.slots[n].valid => n \in DOMAIN Slots(graph.s)
        ]_thread
  <2> SUFFICES ASSUME ThreadInv, GraphInv, [Next]_vars
      PROVE  LET old == thread.active_context
                 new == thread'.active_context
             IN  Changed(old, new) # {} =>
                   /\ \A ref \in new.evidence_refs :
                        ref.valid => graph.s.route_decision \notin Uncalled /\ ref.source = run.entry
                   /\ \A n \in DOMAIN new.slots :
                        SlotDependencies(n) \cap Changed(old, new) # {} /\ new.slots[n].valid
                          => n \in DOMAIN Slots(graph.s)
    BY DEF Changed, Uncalled
  <2>1. CASE FinalizeStreamResponse
    BY <2>1, ThreadFinalized
  <2>2. CASE ~FinalizeStreamResponse
    BY <2>2, ThreadKept DEF Changed
  <2> QED  BY <2>1, <2>2
<1> QED  BY <1>1, <1>2, <1>3, GraphIsGood, PTL DEF Spec, CorrectionInvalidates

-----------------------------------------------------------------------------
(* The tasks that a message is read to ask for *)

\* The ranks of a finite set of numbers are 1, 2 and so on, in its order.
LEMMA Ranking ==
    ASSUME NEW places \in SUBSET Nat, IsFiniteSet(places)
    PROVE  LET rank(i) == Cardinality({j \in places : j <= i})
           IN  /\ \A i \in places : rank(i) \in 1 .. Cardinality(places)
               /\ \A i, j \in places : i < j => rank(i) < rank(j)
               /\ \A n \in 1 .. Cardinality(places) : \E i \in places : rank(i) = n
<1> DEFINE upto(i) == {j \in places : j <= i}
           rank(i) == Cardinality(upto(i))
           c == Cardinality(places)
<1>1. c \in Nat
  BY FS_CardinalityType
<1>2. ASSUME NEW i \in places
      PROVE  IsFiniteSet(upto(i)) /\ rank(i) \in 1 .. c
  <2>1. IsFiniteSet(upto(i)) /\ rank(i) <= c
    <3>1. upto(i) \in SUBSET places
      OBVIOUS
    <3> HIDE DEF upto
    <3> QED  BY <3>1, FS_Subset
  <2>2. rank(i) \in Nat
    BY <2>1, FS_CardinalityType
  <2>3. i \in upto(i)
    OBVIOUS
  <2>4. rank(i) # 0
    <3> HIDE DEF upto
    <3> QED  BY <2>1, <2>3, FS_EmptySet
  <2> HIDE DEF upto, c
  <2> QED  BY <1>1, <2>1, <2>2, <2>4
<1>3. ASSUME NEW i \in places, NEW j \in places, i < j
      PROVE  rank(i) < rank(j)
  <2>1. upto(i) \in SUBSET upto(j) /\ j \in upto(j) /\ j \notin upto(i)
    <3>1. i \in Nat /\ j \in Nat /\ ~(j <= i)
      BY <1>3
    <3>2. \A k \in places : k \in Nat /\ (k <= i => k <= j)
      BY <1>3, <3>1
    <3>3. \A k \in upto(i) : k \in upto(j)
      BY <3>2
    <3>4. j \in upto(j) /\ j \notin upto(i)
      BY <3>1
    <3> HIDE DEF upto
    <3> QED  BY <3>3, <3>4
  <2>2. rank(i) \in Nat /\ rank(j) \in Nat
    BY <1>1, <1>2
  <2>3. IsFiniteSet(upto(j))
    BY <1>2
  <2> HIDE DEF upto
  <2>4. rank(i) <= rank(j) /\ rank(i) # rank(j)
    BY <2>1, <2>3, FS_Subset
  <2> QED  BY <2>2, <2>4
<1> DEFINE f == [i \in places |-> rank(i)]
<1>4. \A i \in places : rank(i) \in 1 .. c
  BY <1>2
<1>5. \A i, j \in places : i < j => rank(i) < rank(j)
  BY <1>3
<1> HIDE DEF rank
<1>6. f \in Injection(places, 1 .. c)
  <2>1. f \in [places -> 1 .. c]
    BY <1>4
  <2>2. ASSUME NEW i \in places, NEW j \in places, f[i] = f[j] PROVE i = j
    <3>1. rank(i) = rank(j) /\ rank(i) \in Nat
      BY <2>2, <1>1, <1>4
    <3>2. ~(i < j) /\ ~(j < i)
      BY <3>1, <1>5
    <3> QED  BY <3>2
  <2> QED  BY <2>1, <2>2 DEF Injection, IsInjective
<1>7. IsFiniteSet(1 .. c) /\ Cardinality(1 .. c) = c
  <2> HIDE DEF c
  <2> QED  BY <1>1, FS_Interval
<1>8. f \in Surjection(places, 1 .. c)
  <2> HIDE DEF f
  <2> QED  BY <1>6, <1>7, FS_Injection DEF c
<1>9. \A n \in 1 .. c : \E i \in places : rank(i) = n
  BY <1>8 DEF Surjection
<1> QED  BY <1>4, <1>5, <1>9 DEF rank

\* What is picked are members of the list, in its order.
LEMMA PickedInOrder ==
    ASSUME NEW places \in SUBSET Nat, IsFiniteSet(places), NEW seq
    PROVE  \E at \in [1 .. Cardinality(places) -> places] :
             /\ \A k, l \in 1 .. Cardinality(places) : k < l => at[k] < at[l]
             /\ Picked(seq, places) = [n \in 1 .. Cardinality(places) |-> seq[at[n]]]
<1> DEFINE rank(i) == Cardinality({j \in places : j <= i})
           c == Cardinality(places)
           at == [n \in 1 .. c |-> CHOOSE i \in places : rank(i) = n]
<1>1. /\ \A i, j \in places : i < j => rank(i) < rank(j)
      /\ \A n \in 1 .. c : \E i \in places : rank(i) = n
  BY Ranking
<1>2. Picked(seq, places) = [n \in 1 .. c |-> seq[at[n]]]
  BY DEF Picked
<1>3. c \in Nat
  BY FS_CardinalityType
<1> HIDE DEF rank, c
<1>4. \A n \in 1 .. c : at[n] \in places /\ rank(at[n]) = n
  BY <1>1
<1>5. at \in [1 .. c -> places]
  BY <1>4
<1>6. ASSUME NEW k \in 1 .. c, NEW l \in 1 .. c, k < l PROVE at[k] < at[l]
  <2>1. at[k] \in Nat /\ at[l] \in Nat /\ rank(at[k]) = k /\ rank(at[l]) = l
    BY <1>4
  <2>2. at[k] # at[l] /\ ~(at[l] < at[k])
    <3> HIDE DEF at
    <3> QED  BY <1>1, <1>4, <1>6, <2>1
  <2> HIDE DEF at
  <2> QED  BY <2>1, <2>2
<1> QED  BY <1>2, <1>5, <1>6 DEF c

\* No more than three are the first three.
LEMMA FirstThreeIsShort ==
    ASSUME NEW S, NEW seq \in Seq(S)
    PROVE  /\ IsShort(FirstThree(seq))
           /\ \A n \in DOMAIN FirstThree(seq) : FirstThree(seq)[n] \in S
<1> DEFINE firsts == {i \in 1 .. Len(seq) : \A j \in 1 .. i - 1 : seq[j] # seq[i]}
           rank(i) == Cardinality({j \in firsts : j <= i})
           places == {i \in firsts : rank(i) <= 3}
           c == Cardinality(places)
<1>1. FirstThree(seq) = Picked(seq, places)
  BY DEF FirstThree
<1>2. firsts \in SUBSET Nat /\ IsFiniteSet(firsts)
  <2>1. Len(seq) \in Nat
    OBVIOUS
  <2>2. IsFiniteSet(1 .. Len(seq))
    BY <2>1, FS_Interval
  <2>3. firsts \in SUBSET (1 .. Len(seq)) /\ 1 .. Len(seq) \subseteq Nat
    BY <2>1
  <2> HIDE DEF firsts
  <2> QED  BY <2>2, <2>3, FS_Subset
<1>3. \A i \in firsts : i \in 1 .. Len(seq)
  OBVIOUS
<1> HIDE DEF firsts
<1>4. /\ \A i \in firsts : rank(i) \in 1 .. Cardinality(firsts)
      /\ \A i, j \in firsts : i < j => rank(i) < rank(j)
  BY <1>2, Ranking
<1>5. Cardinality(firsts) \in Nat
  BY <1>2, FS_CardinalityType
<1> HIDE DEF rank
<1>6. places \in SUBSET Nat /\ IsFiniteSet(places)
  <2>1. places \in SUBSET firsts
    OBVIOUS
  <2> HIDE DEF places
  <2> QED  BY <1>2, <2>1, FS_Subset
<1>7. c \in Nat /\ c <= 3
  <2> DEFINE f == [i \in places |-> rank(i)]
  <2>1. f \in [places -> 1 .. 3]
    BY <1>4, <1>5
  <2>2. ASSUME NEW i \in places, NEW j \in places, f[i] = f[j] PROVE i = j
    <3>1. rank(i) = rank(j) /\ rank(i) \in Nat /\ i \in Nat /\ j \in Nat
      BY <2>1, <2>2, <1>6
    <3>2. ~(i < j) /\ ~(j < i)
      BY <3>1, <1>4
    <3> QED  BY <3>1, <3>2
  <2>3. f \in Injection(places, 1 .. 3)
    BY <2>1, <2>2 DEF Injection, IsInjective
  <2>4. IsFiniteSet(1 .. 3) /\ Cardinality(1 .. 3) = 3
    <3>1. \A n \in Nat \ {0} : IsFiniteSet(1 .. n) /\ Cardinality(1 .. n) = n
      BY FS_Interval
    <3>2. 3 \in Nat \ {0}
      OBVIOUS
    <3> QED  BY <3>1, <3>2, Zenon
  <2> HIDE DEF f, places
  <2> QED  BY <1>6, <2>3, <2>4, FS_Injection, FS_CardinalityType
<1>8. \A i \in places : seq[i] \in S
  BY <1>3
<1> HIDE DEF places
<1>9. PICK at \in [1 .. c -> places] : Picked(seq, places) = [n \in 1 .. c |-> seq[at[n]]]
  BY <1>6, PickedInOrder, SMTT(60)
<1> HIDE DEF c
<1> QED  BY <1>1, <1>7, <1>8, <1>9, SMTT(60) DEF IsShort

\* A task has an id, a policy and tasks it depends on.
IsTask(task) ==
    /\ {"task_id", "depends_on", "execution_policy"} \subseteq DOMAIN task
    /\ task.execution_policy \in TaskExecutionDecision

\* The tasks of a message: their ids differ, each depends on earlier ones only.
IsTasks(tasks) ==
    /\ IsShort(tasks)
    /\ \A i, j \in DOMAIN tasks :
         /\ tasks[i].task_id = tasks[j].task_id => i = j
         /\ tasks[j].task_id \in tasks[i].depends_on => j < i
    /\ \A i \in DOMAIN tasks : IsTask(tasks[i])

\* What a text may ask for: at most three tasks, each with a policy.
IsCandidates(wanted) ==
    IsShort(wanted) /\ \A i \in DOMAIN wanted : wanted[i].policy \in TaskExecutionDecision

\* What a text that is read with an intent may ask for.
CandidatesOf(primary) ==
    [intent : PrimaryIntent \cup {primary}, target : IntentTarget, action : IntentTaskAction,
     policy : TaskExecutionDecision]

\* A task alone.
LEMMA OneTask ==
    ASSUME NEW task, IsTask(task), task.task_id \notin task.depends_on
    PROVE  IsTasks(<<task>>)
<1>1. IsShort(<<task>>) /\ DOMAIN <<task>> = 1 .. 1 /\ <<task>>[1] = task
  BY DEF IsShort
<1> QED  BY <1>1 DEF IsTasks

\* A candidate alone.
LEMMA OneCandidate ==
    ASSUME NEW wanted, wanted.policy \in TaskExecutionDecision
    PROVE  IsCandidates(<<wanted>>)
<1>1. IsShort(<<wanted>>) /\ DOMAIN <<wanted>> = 1 .. 1 /\ <<wanted>>[1] = wanted
  BY DEF IsShort
<1> QED  BY <1>1 DEF IsCandidates

\* One list after the other.
LEMMA Joined == ASSUME NEW S, NEW a \in Seq(S), NEW b \in Seq(S) PROVE a \o b \in Seq(S)
OBVIOUS

\* A candidate that is offered or not.
LEMMA Offered == ASSUME NEW S, NEW test, NEW candidate \in S PROVE Offer(test, candidate) \in Seq(S)
BY DEF Offer

\* What a text is read to ask for.
LEMMA CandidatesAreShort ==
    ASSUME NEW signs, NEW primary
    PROVE  LET wanted == Candidates(signs, primary)
           IN  IsCandidates(wanted) /\ \A i \in DOMAIN wanted : wanted[i] \in CandidatesOf(primary)
<1> DEFINE S == CandidatesOf(primary)
           lookup(target) == Candidate("data_query", target, "lookup", "execute")
           data == \/ primary \in {"data_query", "investigation"}
                   \/ primary = "action_request" /\ "look" \in signs
           looked == IF "fdc_data" \in signs THEN <<lookup("fdc")>>
                     ELSE IF "spc_data" \in signs THEN <<lookup("spc")>>
                     ELSE Offer("lot_data" \in signs, lookup("lot"))
           recipe == IF Writes(signs) THEN Candidate("action_request", "recipe", "execute", "refuse")
                     ELSE Candidate("knowledge_query", "recipe", "explain", "execute")
           known == primary = "knowledge_query"
           p1 == Offer("history_clause" \in signs,
                       Candidate("conversation", "previous_user_message", "recall", "execute"))
           p2 == Offer(known /\ AsksTheMeaning(signs), Candidate("knowledge_query", "alarm", "explain", "execute"))
           p3 == Offer(known /\ "external" \in signs, Candidate("knowledge_query", "general", "lookup", "execute"))
           p4 == IF data THEN looked ELSE <<>>
           p5 == Offer("sop_words" \in signs,
                       Candidate("knowledge_query", "sop", IF "compare" \in signs THEN "compare" ELSE "lookup",
                                 "execute"))
           p6 == Offer(NamesRecipe(signs), recipe)
           p7 == Offer("why" \in signs, Candidate("investigation", "case", "diagnose", "execute"))
           p8 == Offer("make_report" \in signs, Candidate("content_task", "report", "generate", "defer"))
           p9 == Offer(Writes(signs) /\ ~NamesRecipe(signs),
                       Candidate("action_request", "general", "execute", "refuse"))
           p10 == Offer("simpler" \in signs, Candidate("content_task", "previous_answer", Rewrite(signs), "execute"))
           all == p1 \o p2 \o p3 \o p4 \o p5 \o p6 \o p7 \o p8 \o p9 \o p10
           rest == Candidate(primary, "general", IF primary = "conversation" THEN "explain" ELSE "lookup", "execute")
<1>1. Candidates(signs, primary) = IF all = <<>> THEN <<rest>> ELSE FirstThree(all)
  BY DEF Candidates
<1>2. ASSUME NEW intent \in PrimaryIntent \cup {primary}, NEW target \in IntentTarget,
             NEW action \in IntentTaskAction, NEW policy \in TaskExecutionDecision
      PROVE  Candidate(intent, target, action, policy) \in S
  BY DEF Candidate, CandidatesOf
<1> HIDE DEF S
<1> USE DEF PrimaryIntent, IntentTarget, IntentTaskAction, TaskExecutionDecision
<1>3. /\ Candidate("conversation", "previous_user_message", "recall", "execute") \in S
      /\ Candidate("knowledge_query", "alarm", "explain", "execute") \in S
      /\ Candidate("knowledge_query", "general", "lookup", "execute") \in S
  BY <1>2
<1>4. looked \in Seq(S)
  <2>1. lookup("fdc") \in S /\ lookup("spc") \in S /\ lookup("lot") \in S
    BY <1>2
  <2> HIDE DEF lookup
  <2> QED  BY <2>1, Offered
<1>5. /\ Candidate("knowledge_query", "sop", IF "compare" \in signs THEN "compare" ELSE "lookup", "execute") \in S
      /\ recipe \in S
  BY <1>2
<1>6. /\ Candidate("investigation", "case", "diagnose", "execute") \in S
      /\ Candidate("content_task", "report", "generate", "defer") \in S
      /\ Candidate("action_request", "general", "execute", "refuse") \in S
  BY <1>2
<1>7. Candidate("content_task", "previous_answer", Rewrite(signs), "execute") \in S
  <2>1. Rewrite(signs) \in IntentTaskAction
    BY DEF Rewrite
  <2> QED  BY <1>2, <2>1
<1>8. rest \in S /\ \A x \in S : x.policy \in TaskExecutionDecision
  <2>1. rest \in S
    BY <1>2
  <2>2. \A x \in S : x.policy \in TaskExecutionDecision
    BY DEF CandidatesOf, S
  <2> QED  BY <2>1, <2>2
<1> HIDE DEF looked, recipe, data, known
<1>9. p1 \in Seq(S) /\ p2 \in Seq(S) /\ p3 \in Seq(S)
  BY <1>3, Offered
<1>10. p4 \in Seq(S)
  BY <1>4
<1>11. p5 \in Seq(S) /\ p6 \in Seq(S)
  BY <1>5, Offered
<1>12. p7 \in Seq(S) /\ p8 \in Seq(S) /\ p9 \in Seq(S)
  BY <1>6, Offered
<1>13. p10 \in Seq(S)
  BY <1>7, Offered
<1> HIDE DEF p1, p2, p3, p4, p5, p6, p7, p8, p9, p10, rest
<1>14. all \in Seq(S)
  <2>1. p1 \o p2 \in Seq(S)
    BY <1>9, Joined
  <2>2. p1 \o p2 \o p3 \in Seq(S)
    BY <1>9, <2>1, Joined
  <2>3. p1 \o p2 \o p3 \o p4 \in Seq(S)
    BY <1>10, <2>2, Joined
  <2>4. p1 \o p2 \o p3 \o p4 \o p5 \in Seq(S)
    BY <1>11, <2>3, Joined
  <2>5. p1 \o p2 \o p3 \o p4 \o p5 \o p6 \in Seq(S)
    BY <1>11, <2>4, Joined
  <2>6. p1 \o p2 \o p3 \o p4 \o p5 \o p6 \o p7 \in Seq(S)
    BY <1>12, <2>5, Joined
  <2>7. p1 \o p2 \o p3 \o p4 \o p5 \o p6 \o p7 \o p8 \in Seq(S)
    BY <1>12, <2>6, Joined
  <2>8. p1 \o p2 \o p3 \o p4 \o p5 \o p6 \o p7 \o p8 \o p9 \in Seq(S)
    BY <1>12, <2>7, Joined
  <2> QED  BY <1>13, <2>8, Joined
<1> HIDE DEF all
<1>15. CASE all = <<>>
  <2>1. IsCandidates(<<rest>>) /\ DOMAIN <<rest>> = 1 .. 1 /\ <<rest>>[1] = rest
    BY <1>8, OneCandidate
  <2> QED  BY <1>1, <1>8, <1>15, <2>1 DEF S
<1>16. CASE all # <<>>
  <2>1. IsShort(FirstThree(all)) /\ \A i \in DOMAIN FirstThree(all) : FirstThree(all)[i] \in S
    BY <1>14, FirstThreeIsShort
  <2> QED  BY <1>1, <1>8, <1>16, <2>1 DEF IsCandidates, S
<1> QED  BY <1>15, <1>16

\* There are n numbers from 1 to n.
LEMMA FirstNumbers == ASSUME NEW n \in Nat PROVE IsFiniteSet(1 .. n) /\ Cardinality(1 .. n) = n
BY FS_Interval

\* The ids of three tasks differ.
LEMMA NthDiffer == \A i, j \in 1 .. 3 : Nth[i] = Nth[j] => i = j
BY DEF Nth

\* What a text says of a task changes neither its id, its policy nor what it depends on.
LEMMA GroundedKeeps ==
    ASSUME NEW id, NEW intent, NEW target, NEW action, NEW shape, NEW needs, NEW policy, NEW spans, NEW signs
    PROVE  LET task == Item(id, intent, target, action, shape, needs, policy, spans)
               t == Grounded(task, signs)
           IN  /\ t.task_id = id /\ t.depends_on = needs /\ t.execution_policy = policy
               /\ task.task_id = id /\ task.depends_on = needs /\ task.execution_policy = policy
BY DEF Item, Grounded

\* A candidate becomes a task with the id of its place, which does not depend on anything yet.
LEMMA InferredItemIs ==
    ASSUME NEW id, NEW c, NEW signs
    PROVE  LET t == InferredItem(id, c, signs)
           IN  /\ t.task_id = id /\ t.execution_policy = c.policy
               /\ {"task_id", "depends_on", "execution_policy"} \subseteq DOMAIN t
BY DEF InferredItem, Item, Grounded

\* Tasks whose ids are those of their places, each depending on places before its own.
LEMMA TasksByPlace ==
    ASSUME NEW tasks, NEW n \in 0 .. 3, DOMAIN tasks = 1 .. n, tasks = [i \in 1 .. n |-> tasks[i]],
           \A i \in 1 .. n : /\ tasks[i].task_id = Nth[i] /\ IsTask(tasks[i])
                            /\ tasks[i].depends_on \subseteq {Nth[j] : j \in 1 .. i - 1}
    PROVE  IsTasks(tasks)
<1>1. ASSUME NEW i \in 1 .. n, NEW j \in 1 .. n
      PROVE  /\ tasks[i].task_id = tasks[j].task_id => i = j
             /\ tasks[j].task_id \in tasks[i].depends_on => j < i
  <2>1. tasks[i].task_id = Nth[i] /\ tasks[j].task_id = Nth[j]
    OBVIOUS
  <2>2. ASSUME Nth[j] \in {Nth[k] : k \in 1 .. i - 1} PROVE j < i
    <3>1. PICK k \in 1 .. i - 1 : Nth[j] = Nth[k]
      BY <2>2
    <3>2. j \in 1 .. 3 /\ k \in 1 .. 3
      OBVIOUS
    <3> QED  BY <3>1, <3>2, NthDiffer
  <2>3. i \in 1 .. 3 /\ j \in 1 .. 3
    OBVIOUS
  <2> QED  BY <2>1, <2>2, <2>3, NthDiffer
<1> QED  BY <1>1 DEF IsTasks, IsShort

\* The tasks of a text.
LEMMA InferredTasks ==
    ASSUME NEW wanted, IsCandidates(wanted), NEW signs
    PROVE  IsTasks(Inferred(wanted, signs))
<1> DEFINE items == [i \in DOMAIN wanted |-> InferredItem(Nth[i], wanted[i], signs)]
           tasks == WithNeeds(items, wanted)
<1>1. PICK n \in 0 .. 3 : DOMAIN wanted = 1 .. n
  BY DEF IsCandidates, IsShort
<1>2. ASSUME NEW i \in 1 .. n
      PROVE  items[i].task_id = Nth[i] /\ IsTask(items[i])
  <2>1. items[i] = InferredItem(Nth[i], wanted[i], signs)
    BY <1>1
  <2> HIDE DEF items
  <2> QED  BY <1>1, <2>1, InferredItemIs DEF IsCandidates, IsTask
<1>3. DOMAIN items = 1 .. n
  BY <1>1
<1> HIDE DEF items
<1>4. DOMAIN tasks = 1 .. n /\ tasks = [i \in 1 .. n |-> tasks[i]]
  BY <1>3 DEF WithNeeds
<1>5. ASSUME NEW i \in 1 .. n
      PROVE  /\ tasks[i].task_id = Nth[i] /\ IsTask(tasks[i])
             /\ tasks[i].depends_on \subseteq {Nth[j] : j \in 1 .. i - 1}
  <2> DEFINE needs == IF wanted[i].intent # "investigation" THEN {}
                      ELSE {items[j].task_id : j \in {j \in 1 .. i - 1 :
                                              items[j].primary_intent \in {"data_query", "knowledge_query"}}}
  <2>1. tasks[i] = [items[i] EXCEPT !.depends_on = needs]
    BY <1>3 DEF WithNeeds
  <2>2. needs \subseteq {Nth[j] : j \in 1 .. i - 1}
    <3>1. \A j \in 1 .. i - 1 : items[j].task_id = Nth[j]
      BY <1>2
    <3> QED  BY <3>1
  <2> HIDE DEF needs
  <2> QED  BY <1>2, <2>1, <2>2 DEF IsTask
<1> HIDE DEF tasks
<1>6. IsTasks(tasks)
  BY <1>4, <1>5, TasksByPlace
<1> QED  BY <1>6 DEF Inferred, tasks, items

\* The tasks that are inferred from a message.
LEMMA InferTasksAre == ASSUME NEW m, NEW primary PROVE IsTasks(InferTasks(m, primary))
<1> DEFINE task == Item("task_1", "action_request", IF NamesRecipe(m.signs) THEN "recipe" ELSE "general", "execute",
                        "unspecified", {}, "refuse", m.signs)
<1>1. IsTask(task) /\ task.task_id \notin task.depends_on
  BY DEF Item, IsTask, TaskExecutionDecision
<1>2. IsTasks(<<task>>)
  BY <1>1, OneTask
<1> QED  BY <1>2, InferredTasks, CandidatesAreShort DEF InferTasks

\* Tasks that are left out leave the others in their order.
LEMMA PickedTasks ==
    ASSUME NEW tasks, IsTasks(tasks), NEW places \in SUBSET DOMAIN tasks
    PROVE  LET picked == Picked(tasks, places)
           IN  /\ IsTasks(picked)
               /\ \A k \in DOMAIN picked : \E i \in DOMAIN tasks : picked[k] = tasks[i]
<1> DEFINE picked == Picked(tasks, places)
           c == Cardinality(places)
<1>1. PICK n \in 0 .. 3 : DOMAIN tasks = 1 .. n
  BY DEF IsTasks, IsShort
<1>2. /\ IsFiniteSet(places) /\ places \in SUBSET Nat
      /\ c \in 0 .. 3
  <2>1. IsFiniteSet(1 .. n) /\ Cardinality(1 .. n) = n
    BY FirstNumbers
  <2>2. places \in SUBSET (1 .. n) /\ 1 .. n \subseteq Nat
    BY <1>1
  <2> QED  BY <2>1, <2>2, FS_Subset, FS_CardinalityType
<1> HIDE DEF c
<1>3. PICK at \in [1 .. c -> places] :
        /\ \A k, l \in 1 .. c : k < l => at[k] < at[l]
        /\ picked = [k \in 1 .. c |-> tasks[at[k]]]
  BY <1>2, PickedInOrder DEF c
<1> HIDE DEF picked
<1>4. DOMAIN picked = 1 .. c /\ picked = [k \in 1 .. c |-> picked[k]]
  BY <1>3
<1>5. \A k \in 1 .. c : at[k] \in DOMAIN tasks /\ picked[k] = tasks[at[k]] /\ at[k] \in Nat
  BY <1>1, <1>3
<1>6. ASSUME NEW k \in 1 .. c, NEW l \in 1 .. c
      PROVE  /\ picked[k].task_id = picked[l].task_id => k = l
             /\ picked[l].task_id \in picked[k].depends_on => l < k
  <2>1. /\ picked[k].task_id = picked[l].task_id => at[k] = at[l]
        /\ picked[l].task_id \in picked[k].depends_on => at[l] < at[k]
    BY <1>5 DEF IsTasks
  <2>2. k < l \/ k = l \/ l < k
    OBVIOUS
  <2>3. /\ k < l => at[k] < at[l]
        /\ l < k => at[l] < at[k]
    BY <1>3
  <2>4. at[k] \in Nat /\ at[l] \in Nat
    BY <1>5
  <2> QED  BY <2>1, <2>2, <2>3, <2>4
<1>7. \A k \in 1 .. c : IsTask(picked[k])
  BY <1>5 DEF IsTasks
<1>8. IsTasks(picked)
  BY <1>2, <1>4, <1>6, <1>7 DEF IsTasks, IsShort
<1> QED  BY <1>4, <1>5, <1>8 DEF picked

-----------------------------------------------------------------------------
(* The tasks of an answer of the model *)

\* What the schema of an answer of the model lists as tasks.
IsRawTasks(raws) ==
    IsShort(raws) /\ \A i \in DOMAIN raws : raws[i].execution_policy \in TaskExecutionDecision

\* The length and the members of a list of at most three.
LEMMA ShortLength ==
    ASSUME NEW seq, NEW n \in 0 .. 3, DOMAIN seq = 1 .. n, seq = [i \in 1 .. n |-> seq[i]]
    PROVE  Len(seq) = n /\ Of(seq) = {seq[i] : i \in 1 .. n}
<1> DEFINE S == {seq[i] : i \in 1 .. n}
<1>1. [i \in 1 .. n |-> seq[i]] \in Seq(S)
  OBVIOUS
<1>2. seq \in Seq(S)
  BY <1>1
<1>3. Len(seq) = n
  BY <1>2
<1> QED  BY <1>3 DEF Of

\* The tasks of an answer of the model that quote the text.
LEMMA NormalizedTasks ==
    ASSUME NEW raws, IsRawTasks(raws)
    PROVE  IsTasks(NormalizeTasks(raws))
<1> DEFINE quoted == {i \in 1 .. Len(raws) : raws[i].grounded}
           item(i) == Item(Nth[i], raws[i].primary_intent, raws[i].target_type, raws[i].action, raws[i].task_shape,
                           raws[i].depends_on \cap {Nth[j] : j \in {j \in quoted : j < i}},
                           raws[i].execution_policy, raws[i].spans)
           items == [i \in 1 .. Len(raws) |-> item(i)]
<1>1. NormalizeTasks(raws) = Picked(items, quoted)
  BY DEF NormalizeTasks
<1>2. PICK n \in 0 .. 3 : Len(raws) = n /\ DOMAIN raws = 1 .. n
  BY ShortLength DEF IsRawTasks, IsShort
<1>3. quoted \in SUBSET (1 .. n) /\ DOMAIN items = 1 .. n /\ items = [i \in 1 .. n |-> items[i]]
  BY <1>2
<1>4. ASSUME NEW i \in 1 .. n
      PROVE  /\ items[i].task_id = Nth[i] /\ IsTask(items[i])
             /\ items[i].depends_on \subseteq {Nth[j] : j \in 1 .. i - 1}
  <2>1. items[i] = item(i) /\ raws[i].execution_policy \in TaskExecutionDecision
    BY <1>2 DEF IsRawTasks
  <2>2. {Nth[j] : j \in {j \in quoted : j < i}} \subseteq {Nth[j] : j \in 1 .. i - 1}
    BY <1>2
  <2> HIDE DEF items, quoted
  <2>3. /\ item(i).task_id = Nth[i] /\ item(i).execution_policy = raws[i].execution_policy
        /\ {"task_id", "depends_on", "execution_policy"} \subseteq DOMAIN item(i)
        /\ item(i).depends_on = raws[i].depends_on \cap {Nth[j] : j \in {j \in quoted : j < i}}
    BY DEF Item
  <2> HIDE DEF item
  <2> QED  BY <2>1, <2>2, <2>3 DEF IsTask
<1> HIDE DEF items, quoted
<1>5. IsTasks(items)
  BY <1>3, <1>4, TasksByPlace
<1> QED  BY <1>1, <1>3, <1>5, PickedTasks

\* The same as one of the tasks, in its words or in the words of its text.
LEMMA BecameKeeps ==
    ASSUME NEW t
    PROVE  /\ Became(t).task_id = t.task_id /\ Became(t).depends_on = t.depends_on
           /\ Became(t).execution_policy = t.execution_policy /\ DOMAIN Became(t) = DOMAIN t
BY DEF Became, Grounded

\* The first of those that are the same.
LEMMA FirstOfAKind ==
    ASSUME NEW key, NEW n \in 0 .. 3, NEW i \in 1 .. n
    PROVE  \E j \in 1 .. i : key[j] = key[i] /\ \A k \in 1 .. j - 1 : key[k] # key[i]
<1>1. CASE i = 1
  BY <1>1
<1>2. CASE i = 2
  BY <1>2
<1>3. CASE i = 3
  <2>1. CASE key[1] = key[3]
    BY <1>3, <2>1
  <2>2. CASE key[1] # key[3] /\ key[2] = key[3]
    BY <1>3, <2>2
  <2>3. CASE key[1] # key[3] /\ key[2] # key[3]
    BY <1>3, <2>3
  <2> QED  BY <2>1, <2>2, <2>3
<1> QED  BY <1>1, <1>2, <1>3

\* Tasks that are others but for their ids and for what they depend on.
Renamed(new, tasks) ==
    \A k \in DOMAIN new : \E i \in DOMAIN tasks, id \in TaskId, needs \in SUBSET TaskId :
      new[k] = [tasks[i] EXCEPT !.task_id = id, !.depends_on = needs]

\* Tasks that have become the same are one, in the place of the first of them.
LEMMA MergedTasks ==
    ASSUME NEW tasks, IsTasks(tasks)
    PROVE  IsTasks(Merged(tasks)) /\ Renamed(Merged(tasks), tasks)
<1> DEFINE key(i) == <<tasks[i].primary_intent, tasks[i].target_type, tasks[i].action, tasks[i].task_shape>>
           owner(i) == CHOOSE j \in 1 .. i : key(j) = key(i) /\ \A k \in 1 .. j - 1 : key(k) # key(i)
           firsts == {i \in DOMAIN tasks : owner(i) = i}
           rank(i) == Cardinality({j \in firsts : j <= i})
           renamed(ids) == {Nth[rank(owner(i))] : i \in {i \in DOMAIN tasks : tasks[i].task_id \in ids}}
           at(n) == CHOOSE i \in firsts : rank(i) = n
           c == Cardinality(firsts)
           merged == [k \in 1 .. c |-> [tasks[at(k)] EXCEPT !.task_id = Nth[k], !.depends_on = renamed(@)]]
<1>1. Merged(tasks) = merged
  BY DEF Merged
<1>2. PICK n \in 0 .. 3 : DOMAIN tasks = 1 .. n
  BY DEF IsTasks, IsShort
<1>3. ASSUME NEW i \in 1 .. n
      PROVE  /\ owner(i) \in 1 .. i /\ key(owner(i)) = key(i)
             /\ \A k \in 1 .. owner(i) - 1 : key(k) # key(i)
  <2> DEFINE keys == [j \in 1 .. n |-> key(j)]
  <2> HIDE DEF key
  <2>1. \A j \in 1 .. n : keys[j] = key(j)
    OBVIOUS
  <2> HIDE DEF keys
  <2>2. \E j \in 1 .. i : keys[j] = keys[i] /\ \A k \in 1 .. j - 1 : keys[k] # keys[i]
    BY FirstOfAKind
  <2>3. PICK j \in 1 .. i : keys[j] = keys[i] /\ \A k \in 1 .. j - 1 : keys[k] # keys[i]
    BY <2>2
  <2>4. j \in 1 .. n /\ \A k \in 1 .. j - 1 : k \in 1 .. n
    OBVIOUS
  <2>5. key(j) = key(i) /\ \A k \in 1 .. j - 1 : key(k) # key(i)
    BY <2>1, <2>3, <2>4
  <2> QED  BY <2>5
<1> HIDE DEF owner, key
<1>4. ASSUME NEW i \in 1 .. n PROVE owner(i) \in firsts /\ owner(i) <= i
  <2>1. owner(i) \in 1 .. i /\ owner(i) \in 1 .. n
    BY <1>3
  <2> DEFINE o == owner(i)
  <2>2. owner(o) \in 1 .. o /\ key(owner(o)) = key(o) /\ key(o) = key(i)
    BY <1>3, <2>1
  <2>3. \A k \in 1 .. o - 1 : key(k) # key(i)
    BY <1>3
  <2>4. owner(o) = o
    <3> HIDE DEF o
    <3> QED  BY <2>1, <2>2, <2>3 DEF o
  <2> QED  BY <1>2, <2>1, <2>4
<1>5. /\ firsts \in SUBSET Nat /\ IsFiniteSet(firsts) /\ firsts \subseteq 1 .. n
      /\ c \in 0 .. 3
  <2>1. IsFiniteSet(1 .. n) /\ Cardinality(1 .. n) = n
    BY FirstNumbers
  <2>2. firsts \in SUBSET (1 .. n) /\ 1 .. n \subseteq Nat
    BY <1>2
  <2> HIDE DEF firsts
  <2>3. IsFiniteSet(firsts) /\ c <= n
    BY <2>1, <2>2, FS_Subset
  <2>4. c \in Nat
    BY <2>3, FS_CardinalityType
  <2> QED  BY <2>2, <2>3, <2>4
<1> HIDE DEF firsts
<1>6. /\ \A i \in firsts : rank(i) \in 1 .. c
      /\ \A i, j \in firsts : i < j => rank(i) < rank(j)
      /\ \A k \in 1 .. c : \E i \in firsts : rank(i) = k
  BY <1>5, Ranking
<1> HIDE DEF rank, c
<1>7. \A k \in 1 .. c : at(k) \in firsts /\ rank(at(k)) = k
  BY <1>6
<1> HIDE DEF at
<1>8. ASSUME NEW k \in 1 .. c
      PROVE  /\ merged[k].task_id = Nth[k] /\ IsTask(merged[k])
             /\ merged[k].depends_on \subseteq {Nth[j] : j \in 1 .. k - 1}
             /\ \E i \in DOMAIN tasks, id \in TaskId, needs \in SUBSET TaskId :
                  merged[k] = [tasks[i] EXCEPT !.task_id = id, !.depends_on = needs]
  <2> DEFINE a == at(k)
             task == tasks[a]
  <2>1. a \in 1 .. n /\ a \in firsts /\ rank(a) = k
    BY <1>5, <1>7
  <2>2. merged[k] = [task EXCEPT !.task_id = Nth[k], !.depends_on = renamed(@)]
    OBVIOUS
  <2>3. IsTask(task)
    BY <1>2, <2>1 DEF IsTasks
  <2> DEFINE needs == renamed(task.depends_on)
  <2>4. needs \subseteq {Nth[j] : j \in 1 .. k - 1}
    <3> SUFFICES ASSUME NEW i \in 1 .. n, tasks[i].task_id \in task.depends_on
        PROVE  \E j \in 1 .. k - 1 : Nth[rank(owner(i))] = Nth[j]
      BY <1>2
    <3>1. i < a
      BY <1>2, <2>1 DEF IsTasks
    <3>2. owner(i) \in firsts /\ owner(i) <= i
      BY <1>4
    <3>3. owner(i) < a
      <4>1. owner(i) \in 1 .. n
        BY <1>5, <3>2
      <4> QED  BY <2>1, <3>1, <3>2, <4>1
    <3>4. rank(owner(i)) < k /\ rank(owner(i)) \in 1 .. c
      BY <1>6, <2>1, <3>2, <3>3
    <3>5. rank(owner(i)) \in 1 .. k - 1
      BY <1>5, <3>4
    <3> QED  BY <3>5
  <2> HIDE DEF merged, renamed, a, task
  <2>5. merged[k] = [task EXCEPT !.task_id = Nth[k], !.depends_on = needs]
    BY <2>2 DEF needs
  <2> HIDE DEF needs
  <2>6. a \in DOMAIN tasks /\ Nth[k] \in TaskId /\ needs \in SUBSET TaskId
    BY <1>2, <1>5, <2>1, <2>4 DEF Nth, TaskId
  <2>7. \E i \in DOMAIN tasks, id \in TaskId, more \in SUBSET TaskId :
          merged[k] = [tasks[i] EXCEPT !.task_id = id, !.depends_on = more]
    BY <2>5, <2>6 DEF task
  <2> QED  BY <2>3, <2>4, <2>5, <2>7 DEF IsTask
<1>9. DOMAIN merged = 1 .. c /\ merged = [k \in 1 .. c |-> merged[k]]
  OBVIOUS
<1> HIDE DEF merged
<1>10. IsTasks(merged)
  BY <1>5, <1>8, <1>9, TasksByPlace
<1>11. Renamed(merged, tasks)
  BY <1>8, <1>9, Zenon DEF Renamed
<1> QED  BY <1>1, <1>10, <1>11

\* An understanding has tasks that can be carried out one after the other.
IsRead(u) == "task_items" \in DOMAIN u /\ IsTasks(u.task_items)

\* Tasks in the words of their text.
LEMMA BecameTasks ==
    ASSUME NEW tasks, IsTasks(tasks)
    PROVE  IsTasks([i \in DOMAIN tasks |-> Became(tasks[i])])
<1> DEFINE now == [i \in DOMAIN tasks |-> Became(tasks[i])]
<1>1. PICK n \in 0 .. 3 : DOMAIN tasks = 1 .. n
  BY DEF IsTasks, IsShort
<1>2. IsShort(now) /\ DOMAIN now = DOMAIN tasks
  BY <1>1 DEF IsShort
<1>3. ASSUME NEW i \in DOMAIN tasks
      PROVE  now[i].task_id = tasks[i].task_id /\ now[i].depends_on = tasks[i].depends_on /\ IsTask(now[i])
  <2>1. now[i] = Became(tasks[i]) /\ IsTask(tasks[i])
    BY DEF IsTasks
  <2> HIDE DEF now
  <2> QED  BY <2>1, BecameKeeps DEF IsTask
<1> HIDE DEF now
<1>4. IsTasks(now)
  BY <1>2, <1>3 DEF IsTasks
<1> QED  BY <1>4 DEF now

\* The tasks of an answer of the model.
LEMMA RawTasksAre ==
    ASSUME NEW raw, IsRawTasks(raw.task_items), NEW m, NEW primary
    PROVE  IsTasks(RawTasks(raw, m, primary))
<1> DEFINE quoted == NormalizeTasks(raw.task_items)
           tasks == IF quoted = <<>> THEN InferTasks(m, primary) ELSE quoted
           applied == ApplyGroundedTaskSemantics(tasks)
<1>1. IsTasks(tasks)
  BY NormalizedTasks, InferTasksAre
<1> HIDE DEF tasks
<1>2. IsTasks(applied)
  BY <1>1, BecameTasks, MergedTasks DEF ApplyGroundedTaskSemantics
<1> HIDE DEF applied
<1>3. IsTasks(CollapseTasks(applied, m, primary))
  <2>1. ASSUME NEW intent, NEW target, NEW action, NEW shape, NEW spans
        PROVE  IsTasks(<<Item("task_1", intent, target, action, shape, {}, "execute", spans)>>)
    <3> DEFINE task == Item("task_1", intent, target, action, shape, {}, "execute", spans)
    <3>1. IsTask(task) /\ task.task_id \notin task.depends_on
      BY DEF Item, IsTask, TaskExecutionDecision
    <3> QED  BY <3>1, OneTask
  <2> QED  BY <2>1 DEF CollapseTasks
<1> QED  BY <1>2, <1>3 DEF RawTasks, applied, tasks

\* A message that asks what was said before asks for that alone.
LEMMA RecallIsATask ==
    ASSUME NEW tasks, IsTasks(tasks), Recalls(tasks) # <<>>
    PROVE  IsTasks(<<[Recalls(tasks)[1] EXCEPT !.primary_intent = "conversation"]>>)
<1> DEFINE places == {i \in 1 .. Len(tasks) : /\ tasks[i].target_type = "previous_user_message"
                                              /\ tasks[i].action = "recall"}
           recalls == Picked(tasks, places)
           task == [recalls[1] EXCEPT !.primary_intent = "conversation"]
<1>1. Recalls(tasks) = recalls
  BY DEF Recalls
<1>2. PICK n \in 0 .. 3 : DOMAIN tasks = 1 .. n /\ Len(tasks) = n
  BY ShortLength DEF IsTasks, IsShort
<1>3. places \in SUBSET DOMAIN tasks
  BY <1>2
<1> HIDE DEF places
<1>4. IsTasks(recalls)
  BY <1>3, PickedTasks
<1> HIDE DEF recalls
<1>5. PICK c \in 0 .. 3 : DOMAIN recalls = 1 .. c /\ recalls = [i \in 1 .. c |-> recalls[i]]
  BY <1>4 DEF IsTasks, IsShort
<1>6. c # 0
  BY <1>1, <1>5
<1>7. 1 \in DOMAIN recalls
  BY <1>5, <1>6
<1>8. IsTask(recalls[1]) /\ recalls[1].task_id \notin recalls[1].depends_on
  BY <1>4, <1>7 DEF IsTasks
<1>9. IsTask(task) /\ task.task_id \notin task.depends_on
  BY <1>8 DEF IsTask
<1> QED  BY <1>1, <1>9, OneTask

\* The answer of the model, normalised.
LEMMA NormalizedIsRead ==
    ASSUME NEW raw, NEW m, NEW context, NEW pending, NEW turn, NEW tasks, IsTasks(tasks)
    PROVE  IsRead(Normalized(raw, m, context, pending, turn, tasks, Recalls(tasks)))
<1> DEFINE u == Normalized(raw, m, context, pending, turn, tasks, Recalls(tasks))
           one == <<[Recalls(tasks)[1] EXCEPT !.primary_intent = "conversation"]>>
<1>1. /\ "task_items" \in DOMAIN u
      /\ \/ u.task_items = <<OutOfScope("explain")>>
         \/ Recalls(tasks) # <<>> /\ u.task_items = one
         \/ \E primary : u.task_items = InferTasks(m, primary)
         \/ u.task_items = tasks
  BY DEF Normalized
<1> HIDE DEF u
<1>2. IsTasks(<<OutOfScope("explain")>>)
  <2>1. IsTask(OutOfScope("explain")) /\ OutOfScope("explain").task_id \notin OutOfScope("explain").depends_on
    BY DEF OutOfScope, Item, IsTask, TaskExecutionDecision
  <2> QED  BY <2>1, OneTask
<1>3. Recalls(tasks) # <<>> => IsTasks(one)
  BY RecallIsATask
<1> QED  BY <1>1, <1>2, <1>3, InferTasksAre DEF IsRead, u

\* Without the model: what the words of the message say.
LEMMA HeuristicIsRead ==
    ASSUME NEW m, NEW context, NEW pending
    PROVE  IsRead(Heuristic(m, context, pending))
<1>1. IsTasks(<<OutOfScope("execute")>>)
  <2>1. IsTask(OutOfScope("execute")) /\ OutOfScope("execute").task_id \notin OutOfScope("execute").depends_on
    BY DEF OutOfScope, Item, IsTask, TaskExecutionDecision
  <2> QED  BY <2>1, OneTask
<1>2. \A intent : IsTasks(InferTasks(m, intent))
  BY InferTasksAre
<1> QED  BY <1>1, <1>2 DEF Heuristic, Guessed, IsRead

\* A message that is answered directly.
LEMMA DirectIsRead ==
    ASSUME NEW mode, NEW intent, NEW target, NEW action, NEW route, NEW ids
    PROVE  IsRead(Direct(mode, intent, target, action, route, ids))
<1> DEFINE task == Item("task_1", intent, target, action, "unspecified", {}, "execute", {})
<1>1. IsTask(task) /\ task.task_id \notin task.depends_on
  BY DEF Item, IsTask, TaskExecutionDecision
<1>2. IsTasks(<<task>>)
  BY <1>1, OneTask
<1> QED  BY <1>2 DEF Direct, IsRead

\* A message that asks for what was found before.
LEMMA ReusedIsRead ==
    ASSUME NEW prior, NEW tasks, tasks # <<>> => IsTasks(tasks) /\ "task_items" \in DOMAIN prior, NEW known
    PROVE  IsRead(Reused(prior, tasks, known))
<1>1. CASE tasks = <<>>
  BY <1>1, DirectIsRead DEF Reused
<1>2. CASE tasks # <<>>
  BY <1>2 DEF Reused, IsRead
<1> QED  BY <1>1, <1>2

\* A message that asks for the evidence of the last answer.
LEMMA FollowupIsRead == ASSUME NEW context PROVE IsRead(EvidenceFollowup(context))
<1>1. ASSUME NEW prior, IsRead(prior)
      PROVE  IsRead(Reused(prior, Reusable(prior.task_items), ValidContextSlots(context)))
  <2> DEFINE tasks == prior.task_items
             places == {i \in 1 .. Len(tasks) : /\ tasks[i].execution_policy = "execute"
                                                /\ tasks[i].primary_intent \in
                                                     {"knowledge_query", "data_query", "investigation"}}
  <2>1. PICK n \in 0 .. 3 : DOMAIN tasks = 1 .. n /\ Len(tasks) = n
    BY <1>1, ShortLength DEF IsRead, IsTasks, IsShort
  <2>2. places \in SUBSET DOMAIN tasks
    BY <2>1
  <2>3. Reusable(tasks) = Picked(tasks, places)
    BY DEF Reusable
  <2> HIDE DEF places
  <2>4. IsTasks(Reusable(tasks))
    BY <1>1, <2>2, <2>3, PickedTasks DEF IsRead
  <2> QED  BY <1>1, <2>4, ReusedIsRead DEF IsRead
<1>2. IsRead(Reused(None, <<>>, NoSlots))
  BY ReusedIsRead
<1> QED  BY <1>1, <1>2, HeuristicIsRead DEF EvidenceFollowup

\* What is recognised before the model is asked.
LEMMA L0IsRead == ASSUME NEW m, NEW context PROVE IsRead(L0(m, context))
<1> DEFINE control == Direct("control", "conversation", "general", "execute", "chat_direct", <<>>)
<1>1. ASSUME NEW scope PROVE IsRead([control EXCEPT !.cancel_scope = scope])
  BY DirectIsRead DEF IsRead
<1>2. ASSUME NEW slots, NEW operations
      PROVE  IsRead([control EXCEPT !.explicit_slots = slots, !.slot_operations = operations])
  BY DirectIsRead DEF IsRead
<1> QED  BY <1>1, <1>2, DirectIsRead, FollowupIsRead DEF L0

\* Whatever is understood of a message, its tasks can be carried out one after the other.
LEMMA UnderstoodIsRead ==
    ASSUME NEW m, NEW context, NEW raw, raw = None \/ IsRawTasks(raw.task_items), NEW pending
    PROVE  IsRead(Understand(m, context, raw, pending))
<1>1. raw # None => IsRead(NormalizeRaw(raw, m, context, pending))
  BY RawTasksAre, NormalizedIsRead DEF NormalizeRaw
<1> QED  BY <1>1, HeuristicIsRead, L0IsRead DEF Understand, ReadRaw

-----------------------------------------------------------------------------
(* The results of the tasks *)

\* What is appended stays at its place.
LEMMA Appending ==
    ASSUME NEW a, NEW b, NEW c, NEW one, one = Append(<<>>, a), NEW two, two = Append(one, b),
           NEW three, three = Append(two, c)
    PROVE  /\ DOMAIN one = 1 .. 1 /\ Len(one) = 1 /\ one[1] = a
           /\ DOMAIN two = 1 .. 2 /\ Len(two) = 2 /\ two[1] = a /\ two[2] = b
           /\ DOMAIN three = 1 .. 3 /\ Len(three) = 3 /\ three[1] = a /\ three[2] = b /\ three[3] = c
<1> DEFINE S == {a, b, c}
<1>1. one \in Seq(S) /\ DOMAIN one = 1 .. 1 /\ Len(one) = 1 /\ one[1] = a
  OBVIOUS
<1>2. b \in S /\ c \in S
  OBVIOUS
<1> HIDE DEF S
<1>3. two \in Seq(S) /\ Len(two) = 2
  BY <1>1, <1>2
<1>4. DOMAIN two = 1 .. 2 /\ two[1] = a /\ two[2] = b
  BY <1>1, <1>2, <1>3
<1>5. three \in Seq(S) /\ Len(three) = 3
  BY <1>2, <1>3
<1>6. DOMAIN three = 1 .. 3 /\ three[1] = a /\ three[2] = b /\ three[3] = c
  BY <1>2, <1>3, <1>4, <1>5
<1> QED  BY <1>1, <1>3, <1>4, <1>5, <1>6

\* Each task has a result, which is made of its decision and the results before it.
ResultsOf(results, ds, tasks, actual, cited, errors) ==
    /\ DOMAIN results = DOMAIN ds /\ Len(results) = Len(ds)
    /\ Of(results) = {results[i] : i \in DOMAIN ds}
    /\ \A i \in DOMAIN ds :
         results[i] = Finalized(ds[i], Needs(tasks, ds[i].task_id), {results[j] : j \in 1 .. i - 1},
                                actual, cited, errors)

\* Every decision has its result, given those before.
LEMMA EachIsFinalized ==
    ASSUME NEW plan, NEW tasks, NEW actual, NEW ledger, NEW citations, NEW errors, IsShort(plan.task_decisions)
    PROVE  ResultsOf(Finalize(plan, tasks, actual, ledger, citations, errors), plan.task_decisions, tasks, actual,
                     Cited(ledger, citations), errors)
<1> DEFINE ds == plan.task_decisions
           kept(d, earlier) ==
             Finalized(d, Needs(tasks, d.task_id), Of(earlier), actual, Cited(ledger, citations), errors)
           Steps(f) == [k \in 0 .. Len(ds) |-> IF k = 0 THEN <<>> ELSE Append(f[k - 1], kept(ds[k], f[k - 1]))]
           one == Append(<<>>, kept(ds[1], <<>>))
           two == Append(one, kept(ds[2], one))
           three == Append(two, kept(ds[3], two))
           given == [k \in 0 .. Len(ds) |-> IF k = 0 THEN <<>> ELSE IF k = 1 THEN one ELSE IF k = 2 THEN two ELSE three]
           chosen == CHOOSE f : f = Steps(f)
<1>1. Finalize(plan, tasks, actual, ledger, citations, errors) = chosen[Len(ds)]
  BY DEF Finalize
<1>2. PICK n \in 0 .. 3 : DOMAIN ds = 1 .. n /\ ds = [i \in 1 .. n |-> ds[i]]
  BY DEF IsShort
<1>3. Len(ds) = n
  BY <1>2, ShortLength
<1> HIDE DEF ds, kept
<1>4. given = Steps(given)
  <2>1. /\ given[0] = <<>>
        /\ n >= 1 => given[1] = one
        /\ n >= 2 => given[2] = two
        /\ n >= 3 => given[3] = three
    BY <1>3
  <2>2. given = [k \in 0 .. n |-> given[k]]
    BY <1>3
  <2> HIDE DEF given, one, two, three
  <2>3. n >= 1 => given[1] = Append(given[0], kept(ds[1], given[0]))
    BY <2>1 DEF one
  <2>4. n >= 2 => given[2] = Append(given[1], kept(ds[2], given[1]))
    BY <2>1 DEF two
  <2>5. n >= 3 => given[3] = Append(given[2], kept(ds[3], given[2]))
    BY <2>1 DEF three
  <2>6. \A k \in 0 .. n : k = 0 \/ (k = 1 /\ n >= 1) \/ (k = 2 /\ n >= 2) \/ (k = 3 /\ n >= 3)
    OBVIOUS
  <2>7. ASSUME NEW k \in 0 .. n
        PROVE  given[k] = IF k = 0 THEN <<>> ELSE Append(given[k - 1], kept(ds[k], given[k - 1]))
    <3>1. CASE k = 0
      BY <2>1, <3>1
    <3>2. CASE k = 1 /\ n >= 1
      <4>1. k # 0 /\ k - 1 = 0
        BY <3>2
      <4> QED  BY <2>3, <3>2, <4>1
    <3>3. CASE k = 2 /\ n >= 2
      <4>1. k # 0 /\ k - 1 = 1
        BY <3>3
      <4> QED  BY <2>4, <3>3, <4>1
    <3>4. CASE k = 3 /\ n >= 3
      <4>1. k # 0 /\ k - 1 = 2
        BY <3>4
      <4> QED  BY <2>5, <3>4, <4>1
    <3> QED  BY <2>6, <3>1, <3>2, <3>3, <3>4
  <2> QED  BY <2>2, <2>7, <1>3
<1> HIDE DEF given, one, two, three
<1>5. chosen = Steps(chosen)
  BY <1>4
<1> HIDE DEF chosen
<1>6. /\ chosen[0] = <<>>
      /\ n >= 1 => chosen[1] = Append(chosen[0], kept(ds[1], chosen[0]))
      /\ n >= 2 => chosen[2] = Append(chosen[1], kept(ds[2], chosen[1]))
      /\ n >= 3 => chosen[3] = Append(chosen[2], kept(ds[3], chosen[2]))
  <2>1. chosen = [k \in 0 .. n |-> IF k = 0 THEN <<>> ELSE Append(chosen[k - 1], kept(ds[k], chosen[k - 1]))]
    BY <1>3, <1>5
  <2>2. chosen[0] = <<>>
    BY <2>1
  <2>3. ASSUME n >= 1 PROVE chosen[1] = Append(chosen[0], kept(ds[1], chosen[0]))
    <3>1. 1 \in 0 .. n /\ 1 # 0 /\ 1 - 1 = 0
      BY <2>3
    <3> QED  BY <2>1, <3>1
  <2>4. ASSUME n >= 2 PROVE chosen[2] = Append(chosen[1], kept(ds[2], chosen[1]))
    <3>1. 2 \in 0 .. n /\ 2 # 0 /\ 2 - 1 = 1
      BY <2>4
    <3> QED  BY <2>1, <3>1
  <2>5. ASSUME n >= 3 PROVE chosen[3] = Append(chosen[2], kept(ds[3], chosen[2]))
    <3>1. 3 \in 0 .. n /\ 3 # 0 /\ 3 - 1 = 2
      BY <2>5
    <3> QED  BY <2>1, <3>1
  <2> QED  BY <2>2, <2>3, <2>4, <2>5
<1>7. /\ chosen[0] = <<>>
      /\ n >= 1 => chosen[1] = one
      /\ n >= 2 => chosen[2] = two
      /\ n >= 3 => chosen[3] = three
  <2>1. n >= 1 => chosen[1] = one
    BY <1>6 DEF one
  <2>2. n >= 2 => chosen[2] = two
    BY <1>6, <2>1 DEF two
  <2>3. n >= 3 => chosen[3] = three
    BY <1>6, <2>2 DEF three
  <2> QED  BY <1>6, <2>1, <2>2, <2>3
<1> DEFINE results == chosen[n]
           first == kept(ds[1], <<>>)
           second == kept(ds[2], one)
           third == kept(ds[3], two)
<1> HIDE DEF first, second, third
<1>8. one = Append(<<>>, first) /\ two = Append(one, second) /\ three = Append(two, third)
  BY DEF one, two, three, first, second, third
<1>9. /\ DOMAIN one = 1 .. 1 /\ Len(one) = 1 /\ one[1] = first
      /\ DOMAIN two = 1 .. 2 /\ Len(two) = 2 /\ two[1] = first /\ two[2] = second
      /\ DOMAIN three = 1 .. 3 /\ Len(three) = 3 /\ three[1] = first /\ three[2] = second /\ three[3] = third
  BY <1>8, Appending
<1>11. /\ n = 0 => results = <<>>
       /\ n = 1 => results = one
       /\ n = 2 => results = two
       /\ n = 3 => results = three
  BY <1>7
<1> HIDE DEF results
<1>12. DOMAIN results = 1 .. n /\ Len(results) = n
  <2>1. n = 0 \/ n = 1 \/ n = 2 \/ n = 3
    OBVIOUS
  <2>2. n = 0 => DOMAIN results = 1 .. n /\ Len(results) = n
    BY <1>11
  <2> QED  BY <1>9, <1>11, <2>1, <2>2
<1>13. /\ n >= 1 => results[1] = first
       /\ n >= 2 => results[2] = second
       /\ n >= 3 => results[3] = third
  BY <1>9, <1>11
<1> DEFINE made(i) == Finalized(ds[i], Needs(tasks, ds[i].task_id), {results[j] : j \in 1 .. i - 1},
                                actual, Cited(ledger, citations), errors)
<1>14. n >= 1 => results[1] = made(1)
  <2>1. Of(<<>>) = {results[j] : j \in 1 .. 1 - 1}
    BY DEF Of
  <2> QED  BY <2>1, <1>13 DEF first, kept
<1>15. n >= 2 => results[2] = made(2)
  <2>1. Of(one) = {first}
    BY <1>9 DEF Of
  <2>2. n >= 2 => {results[j] : j \in 1 .. 2 - 1} = {first}
    BY <1>13
  <2> QED  BY <2>1, <2>2, <1>13 DEF second, kept
<1>16. n >= 3 => results[3] = made(3)
  <2>1. Of(two) = {first, second}
    BY <1>9 DEF Of
  <2>2. n >= 3 => {results[j] : j \in 1 .. 3 - 1} = {first, second}
    BY <1>13
  <2> QED  BY <2>1, <2>2, <1>13 DEF third, kept
<1> HIDE DEF made
<1>17. \A i \in 1 .. n : results[i] = made(i)
  BY <1>14, <1>15, <1>16
<1>18. Of(results) = {results[i] : i \in 1 .. n}
  BY <1>12 DEF Of
<1>19. results = Finalize(plan, tasks, actual, ledger, citations, errors)
  BY <1>1, <1>3 DEF results
<1> QED  BY <1>2, <1>3, <1>12, <1>17, <1>18, <1>19, ZenonT(60) DEF ds, made, ResultsOf

\* The routes that a task can be carried out by.
Carried == {"chat_direct", "reuse_evidence", "internal_rag", "tool_only", "rag_and_tool", "rag_and_web"}

\* What is decided of a task.
Decides(d, task) ==
    /\ {"decision", "route", "reason_code"} \subseteq DOMAIN d
    /\ d.task_id = task.task_id
    /\ d.decision \in TaskExecutionDecision
    /\ d.decision = "execute" => d.route \in Carried

\* One decision for each of the tasks, in their order.
Follows(decisions, tasks) ==
    /\ decisions = [i \in DOMAIN tasks |-> decisions[i]]
    /\ \A i \in DOMAIN tasks : Decides(decisions[i], tasks[i])

\* Whatever is known of the request, its task is decided.
LEMMA TaskIsDecided ==
    ASSUME NEW task, IsTask(task), NEW u, NEW error, NEW context, NEW m
    PROVE  Decides(TaskDecision(task, u, error, context, m), task)
<1>1. ASSUME NEW decision \in TaskExecutionDecision, NEW route, decision = "execute" => route \in Carried, NEW reason
      PROVE  Decides(Decision(task, decision, route, reason), task)
  BY <1>1 DEF Decides, Decision
<1>2. \A reason : Decides(Decision(task, "refuse", None, reason), task) /\ Decides(Decision(task, "defer", None, reason), task)
  BY <1>1 DEF TaskExecutionDecision
<1>3. TaskRoute(task, u, context, m) \in Carried
  BY DEF TaskRoute, Carried
<1>4. Decides(Decision(task, task.execution_policy, TaskRoute(task, u, context, m), "task_allowed"), task)
  BY <1>1, <1>3 DEF IsTask
<1> QED  BY <1>2, <1>4 DEF TaskDecision

\* What is put off or asked for is decided, too.
LEMMA StillFollows ==
    ASSUME NEW ds, NEW tasks, Follows(ds, tasks)
    PROVE  /\ Follows(EnforcePredefinedCombination(ds), tasks)
           /\ \A reason : Follows(Clarifying(ds, reason), tasks)
<1>1. DOMAIN ds = DOMAIN tasks
  BY DEF Follows
<1>2. ASSUME NEW d, NEW task, Decides(d, task), NEW reason
      PROVE  /\ Decides([d EXCEPT !.decision = "defer", !.route = None, !.reason_code = reason], task)
             /\ Decides([d EXCEPT !.decision = "clarify", !.reason_code = reason], task)
  BY <1>2 DEF Decides, TaskExecutionDecision
<1>3. ASSUME NEW some
      PROVE  Follows([i \in DOMAIN ds |-> IF i \in some
                                          THEN [ds[i] EXCEPT !.decision = "defer", !.route = None, !.reason_code =
                                                  "unsupported_route_combination_deferred"]
                                          ELSE ds[i]], tasks)
  BY <1>1, <1>2 DEF Follows
<1>4. \A reason : Follows(Clarifying(ds, reason), tasks)
  BY <1>1, <1>2 DEF Follows, Clarifying
<1>5. Follows(EnforcePredefinedCombination(ds), tasks)
  <2> DEFINE carried == SelectSeq(Executable(ds), LAMBDA d : d.route # "chat_direct")
             first == carried[1].route
             fits(d) == \/ d.route \in {None, "chat_direct", first}
                        \/ {first, d.route} \subseteq Business
                        \/ {first, d.route} \subseteq Public
             some == {i \in DOMAIN ds : ds[i].decision = "execute" /\ ~fits(ds[i])}
             deferred(d) == [d EXCEPT !.decision = "defer", !.route = None,
                                      !.reason_code = "unsupported_route_combination_deferred"]
             left == [i \in DOMAIN ds |-> IF ds[i].decision = "execute" /\ ~fits(ds[i]) THEN deferred(ds[i]) ELSE ds[i]]
  <2>1. EnforcePredefinedCombination(ds) = IF Compatible(Of(Routes(carried))) THEN ds ELSE left
    BY DEF EnforcePredefinedCombination
  <2> HIDE DEF fits
  <2>2. left = [i \in DOMAIN ds |-> IF i \in some THEN deferred(ds[i]) ELSE ds[i]]
    OBVIOUS
  <2> HIDE DEF some, left, carried
  <2>3. Follows(left, tasks)
    BY <1>3, <2>2
  <2> QED  BY <2>1, <2>3
<1> QED  BY <1>4, <1>5

\* A plan decides each of the tasks.
LEMMA PlanFollows ==
    ASSUME NEW u, IsTasks(u.task_items), NEW scope, NEW context, NEW m
    PROVE  Follows(Decide(u, scope, context, m).task_decisions, u.task_items)
<1> DEFINE slots == Overlay(u.inherited_slots, u.explicit_slots)
           error == ScopeError(slots, scope)
           first == [i \in DOMAIN u.task_items |-> TaskDecision(u.task_items[i], u, error, context, m)]
           ds == EnforcePredefinedCombination(first)
           route == Combined(u, ds)
           plan == Planned(u, ds, route, RequiredMissing(u, slots, route))
<1>1. Decide(u, scope, context, m) = plan
  BY DEF Decide, PlanOf, TaskDecisions
<1>2. Follows(first, u.task_items)
  BY TaskIsDecided DEF Follows, IsTasks
<1> HIDE DEF first
<1>3. Follows(ds, u.task_items)
  BY <1>2, StillFollows
<1> HIDE DEF ds, route, slots
<1>4. plan.task_decisions \in
        {ds, Clarifying(ds, "required_slots_missing"), Clarifying(ds, "semantic_confidence_too_low")}
  BY DEF Planned, Plan
<1> QED  BY <1>1, <1>3, <1>4, StillFollows

\* Of a result: it is the task's; a task that is carried out has a route that can be.
LEMMA FinalizedIs ==
    ASSUME None \notin Carried, NEW d, NEW task, Decides(d, task), NEW needs, NEW earlier, NEW actual, NEW cited, NEW errors
    PROVE  LET r == Finalized(d, needs, earlier, actual, cited, errors)
           IN  /\ r.task_id = task.task_id
               /\ d.decision = "refuse" => r.status = "refused"
               /\ r.status = "completed" =>
                    /\ \A e \in earlier : e.task_id \in needs => e.status = "completed"
                    /\ r.route \in Carried /\ RouteContract(r.route, cited)
<1> DEFINE r == Finalized(d, needs, earlier, actual, cited, errors)
           route == ActualTaskRoute(d.route, actual)
<1>1. /\ d.task_id = task.task_id /\ d.decision \in {"execute", "clarify", "refuse", "defer"}
      /\ d.decision = "execute" => d.route \in Carried
  BY DEF Decides, TaskExecutionDecision
<1>2. d.decision = "execute" => route \in Carried
  BY <1>1 DEF ActualTaskRoute, Carried
<1> HIDE DEF route
<1>3. LET e == ExecutedTask(d.task_id, route, cited)
      IN  /\ e.task_id = d.task_id /\ e.route = route
          /\ e.status = "completed" => RouteContract(route, cited)
  BY DEF ExecutedTask, Result
<1>4. CASE d.decision = "execute" /\ \E e \in earlier : e.task_id \in needs /\ e.status # "completed"
  BY <1>1, <1>4 DEF Finalized, Result
<1>5. CASE d.decision = "execute" /\ ~\E e \in earlier : e.task_id \in needs /\ e.status # "completed"
  <2>1. CASE errors # <<>>
    BY <1>1, <1>5, <2>1 DEF Finalized, Result
  <2>2. CASE errors = <<>>
    <3>1. r = ExecutedTask(d.task_id, route, cited)
      BY <1>5, <2>2 DEF Finalized, route
    <3> HIDE DEF r
    <3> QED  BY <1>1, <1>2, <1>3, <1>5, <3>1 DEF r
  <2> QED  BY <2>1, <2>2
<1>6. CASE d.decision # "execute"
  BY <1>1, <1>6 DEF Finalized, Result
<1> QED  BY <1>4, <1>5, <1>6

\* The results of a plan that follows its tasks.
LEMMA ResultsAre ==
    ASSUME None \notin Carried, NEW tasks, IsTasks(tasks), NEW plan, Follows(plan.task_decisions, tasks),
           NEW actual, NEW ledger, NEW citations, NEW errors
    PROVE  LET results == Finalize(plan, tasks, actual, ledger, citations, errors)
               cited == Cited(ledger, citations)
           IN  /\ Len(results) = Len(tasks)
               /\ \A i \in 1 .. Len(tasks) :
                    plan.task_decisions[i].decision = "refuse" => results[i].status = "refused"
               /\ \A r \in {r \in Of(results) : r.status = "completed" /\ r.route # "chat_direct"} :
                    LET task == CHOOSE t \in Of(tasks) : t.task_id = r.task_id
                    IN  /\ cited # {}
                        /\ r.route = "rag_and_tool" => {"internal", "live"} \subseteq cited
                        /\ \A d \in Of(results) : d.task_id \in task.depends_on => d.status = "completed"
<1> DEFINE ds == plan.task_decisions
           results == Finalize(plan, tasks, actual, ledger, citations, errors)
           cited == Cited(ledger, citations)
           needs(i) == Needs(tasks, ds[i].task_id)
           earlier(i) == {results[j] : j \in 1 .. i - 1}
<1>1. PICK n \in 0 .. 3 : DOMAIN tasks = 1 .. n /\ tasks = [i \in 1 .. n |-> tasks[i]]
  BY DEF IsTasks, IsShort
<1>2. Len(tasks) = n /\ Of(tasks) = {tasks[i] : i \in 1 .. n}
  BY <1>1, ShortLength
<1>3. DOMAIN ds = 1 .. n /\ ds = [i \in 1 .. n |-> ds[i]] /\ IsShort(ds)
  BY <1>1 DEF Follows, IsShort
<1>4. Len(ds) = n
  BY <1>3, ShortLength
<1>5. /\ Len(results) = n /\ Of(results) = {results[i] : i \in 1 .. n}
      /\ \A i \in 1 .. n : results[i] = Finalized(ds[i], needs(i), earlier(i), actual, cited, errors)
  <2>1. ResultsOf(results, ds, tasks, actual, cited, errors)
    BY <1>3, EachIsFinalized
  <2> HIDE DEF results, ds, cited
  <2> QED  BY <1>3, <1>4, <2>1 DEF ResultsOf
<1> HIDE DEF results, cited
<1>6. \A i \in 1 .. n : Decides(ds[i], tasks[i])
  BY <1>1 DEF Follows
<1> HIDE DEF ds, needs, earlier
<1>7. ASSUME NEW i \in 1 .. n
      PROVE  /\ results[i].task_id = tasks[i].task_id
             /\ ds[i].decision = "refuse" => results[i].status = "refused"
             /\ results[i].status = "completed" =>
                  /\ \A e \in earlier(i) : e.task_id \in needs(i) => e.status = "completed"
                  /\ results[i].route \in Carried /\ RouteContract(results[i].route, cited)
  BY <1>5, <1>6, FinalizedIs
<1>8. ASSUME NEW i \in 1 .. n, NEW j \in 1 .. n
      PROVE  /\ tasks[i].task_id = tasks[j].task_id => i = j
             /\ tasks[j].task_id \in tasks[i].depends_on => j < i
  BY <1>1 DEF IsTasks
<1>9. ASSUME NEW i \in 1 .. n PROVE needs(i) = tasks[i].depends_on
  <2>1. ds[i].task_id = tasks[i].task_id
    BY <1>6 DEF Decides
  <2>2. {t \in Of(tasks) : t.task_id = ds[i].task_id} = {tasks[i]}
    BY <1>2, <1>8, <2>1
  <2> QED  BY <2>2 DEF needs, Needs
<1>10. ASSUME NEW r \in Of(results), r.status = "completed", r.route # "chat_direct"
       PROVE  LET task == CHOOSE t \in Of(tasks) : t.task_id = r.task_id
              IN  /\ cited # {}
                  /\ r.route = "rag_and_tool" => {"internal", "live"} \subseteq cited
                  /\ \A d \in Of(results) : d.task_id \in task.depends_on => d.status = "completed"
  <2>1. PICK i \in 1 .. n : r = results[i]
    BY <1>5
  <2> DEFINE task == CHOOSE t \in Of(tasks) : t.task_id = r.task_id
  <2>2. task = tasks[i]
    <3>1. tasks[i] \in Of(tasks) /\ tasks[i].task_id = r.task_id
      BY <1>2, <1>7, <2>1
    <3>2. \A t \in Of(tasks) : t.task_id = r.task_id => t = tasks[i]
      BY <1>2, <1>8, <3>1
    <3> QED  BY <3>1, <3>2
  <2>3. r.route \in Carried /\ RouteContract(r.route, cited)
    BY <1>7, <1>10, <2>1
  <2>4. cited # {} /\ (r.route = "rag_and_tool" => {"internal", "live"} \subseteq cited)
    BY <1>10, <2>3 DEF Carried, RouteContract
  <2>5. ASSUME NEW d \in Of(results), d.task_id \in tasks[i].depends_on PROVE d.status = "completed"
    <3>1. PICK k \in 1 .. n : d = results[k]
      BY <1>5
    <3>2. k < i
      BY <1>7, <1>8, <2>5, <3>1
    <3>3. d \in earlier(i)
      BY <3>1, <3>2 DEF earlier
    <3> QED  BY <1>7, <1>9, <1>10, <2>1, <2>5, <3>3
  <2> QED  BY <2>2, <2>4, <2>5
<1> QED  BY <1>2, <1>5, <1>7, <1>10 DEF ds, results, cited
=============================================================================
