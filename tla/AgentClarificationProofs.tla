----------------------- MODULE AgentClarificationProofs -----------------------
(***************************************************************************)
(* The turns of a thread keep what ClarificationLife promises of a frame,  *)
(* whatever the messages say and however often a run fails between two     *)
(* nodes: every step of AgentTurns is a step of it, or leaves the id, the  *)
(* status and the round of the frame alone.  A frame holds what its        *)
(* answers are merged into, so that the same invariant tells what the      *)
(* tasks of a turn are, and what becomes of them at its end.  Last come    *)
(* the types: what is understood, planned, asked and remembered is made of *)
(* what the contracts name.                                                *)
(***************************************************************************)
EXTENDS AgentTurnsProofs

Asking == {"prepare_clarification_reply", "clarify_missing_fields"}

Interrupting == {"answer_side_conversation", "prepare_relation_clarification", "pause_clarification"}

\* The nodes from the message to where a frame is named for it.
Naming == {"authorize_scope", "classify_and_extract", "resolve_clarification_turn", "validate_required_fields"}

\* All the nodes at which the place of a frame is fixed.
Placing ==
    Asking \cup Interrupting
      \cup {"validate_required_fields", "resolve_clarification_turn", "resume_clarification"}

Named(s) ==
    /\ {"frame_id", "status", "round"} \subseteq DOMAIN s.clarification_frame
    /\ s.clarification_frame.frame_id \in Nat
    /\ s.clarification_frame.round \in Nat
    /\ s.clarification_round \in Nat

\* The status of a frame at the nodes that ask, resolve and interrupt, and how often it
\* has been asked.
Placed(at, s) ==
    LET frame == s.clarification_frame
    IN  /\ at = "validate_required_fields" /\ IsOpen(frame) =>
             frame.status = "waiting" /\ frame.round <= s.clarification_round
        /\ at \in Asking =>
             /\ frame.status = "waiting"
             /\ frame.round <= s.clarification_round /\ s.clarification_round < MaxRounds
        /\ at \in {"resolve_clarification_turn", "resume_clarification"} => frame.status = "waiting"
        /\ at \in Interrupting => frame.status = "paused"

\* A frame is named for a message; a run still has to name one for its own.
Numbered ==
    /\ \E S : thread.messages \in Seq(S)
    /\ run = [client |-> run.client, entry |-> run.entry, resume |-> run.resume]
    /\ graph.s.clarification_frame.frame_id <= Len(thread.messages)
    /\ Running =>
         /\ run.entry = Len(thread.messages) /\ run.entry > 0
         /\ run.resume # None \/ graph.at \in Naming => graph.s.clarification_frame.frame_id < run.entry

LifeInv == Named(graph.s) /\ Placed(graph.at, graph.s) /\ Numbered

-----------------------------------------------------------------------------
(* What a node makes of the frame *)

\* A step of the life of a frame, with the number a new one gets.
LifeStep(entry, frame, next) ==
    \/ next.frame_id = frame.frame_id /\ next.status = frame.status /\ next.round = frame.round
    \/ /\ frame.status \notin {"waiting", "paused"} /\ frame.frame_id < entry
       /\ next.frame_id = entry /\ next.status = "waiting" /\ next.round = 0
    \/ /\ frame.status = "waiting" /\ frame.round < MaxRounds
       /\ next.frame_id = frame.frame_id /\ next.status = frame.status /\ next.round = frame.round + 1
    \/ /\ <<frame.status, next.status>> \in
             {<<"waiting", "paused">>, <<"paused", "waiting">>, <<"waiting", "resolved">>,
              <<"waiting", "cancelled">>, <<"waiting", "superseded">>}
       /\ next.frame_id = frame.frame_id /\ next.round = frame.round
    \/ next.frame_id = 0 /\ next.status = "absent" /\ next.round = 0

\* From a node and a state to the next.
Lives(entry, at, s, next, t) ==
    /\ Named(t) /\ Placed(next, t)
    /\ LifeStep(entry, s.clarification_frame, t.clarification_frame)
    /\ next \in Naming =>
         \/ t.clarification_frame.frame_id = 0
         \/ at \in Naming \cup Interrupts /\ t.clarification_frame.frame_id = s.clarification_frame.frame_id

\* Most nodes leave the frame alone.
LEMMA FrameAlone ==
    ASSUME NEW entry, NEW at, NEW s, Named(s), NEW t,
           t.clarification_frame = s.clarification_frame, t.clarification_round = s.clarification_round,
           NEW next, next \notin Placing, next \in Naming => at \in Naming
    PROVE  Lives(entry, at, s, next, t)
BY DEF Lives, Named, Placed, LifeStep, Placing

\* A new request forgets the frame.
LEMMA IngestLives ==
    ASSUME NEW entry, NEW s, Named(s)
    PROVE  Lives(entry, "ingest_request", s, "authorize_scope", IngestRequest(s))
<1> DEFINE t == IngestRequest(s)
<1>1. t.clarification_frame = NoFrame /\ t.clarification_round = s.clarification_round
  BY FieldNames DEF IngestRequest, NoState
<1> HIDE DEF t
<1>2. Named(t)
  BY <1>1 DEF Named, NoFrame
<1>3. Placed("authorize_scope", t)
  BY DEF Placed, Asking, Interrupting
<1>4. LifeStep(entry, s.clarification_frame, t.clarification_frame) /\ t.clarification_frame.frame_id = 0
  BY <1>1 DEF LifeStep, NoFrame
<1> QED  BY <1>2, <1>3, <1>4 DEF Lives, t

\* A request that is understood has no frame yet.
LEMMA ClassifyLives ==
    ASSUME NEW entry, NEW s, Good("classify_and_extract", s), Named(s), NEW u, NEW request
    PROVE  Lives(entry, "classify_and_extract", s, "validate_required_fields", ClassificationUpdate(s, u, request))
<1> DEFINE t == ClassificationUpdate(s, u, request)
<1>1. s.clarification_frame = NoFrame
  BY DEF Good, Decided
<1>2. t.clarification_frame = NoFrame /\ t.clarification_round = s.clarification_round
  BY <1>1, FieldNames DEF ClassificationUpdate, WithPlan, Good, IsState
<1> HIDE DEF t
<1>3. Named(t) /\ Placed("validate_required_fields", t)
  BY <1>1, <1>2 DEF Named, Placed, NoFrame, IsOpen, Asking, Interrupting
<1> QED  BY <1>1, <1>2, <1>3 DEF Lives, LifeStep, NoFrame, t

\* A frame is opened under the number of its message, or asked again.
LEMMA ValidateLives ==
    ASSUME NEW s, Good("validate_required_fields", s), Named(s), Placed("validate_required_fields", s),
           run.entry \in Nat, s.clarification_frame.frame_id < run.entry
    PROVE  LET t == ValidatedFields(s)
           IN  Lives(run.entry, "validate_required_fields", s, RouteAfterValidation(t), t)
<1> DEFINE old == s.clarification_frame
           frame == BuildClarificationFrame(run.entry, s.request, s.understanding, s.route_plan,
                                            s.route_plan.missing_slots, old)
           t == ValidatedFields(s)
           next == RouteAfterValidation(t)
<1>1. /\ {"frame_id", "status", "round"} \subseteq DOMAIN frame
      /\ frame.frame_id = (IF IsOpen(old) THEN old.frame_id ELSE run.entry)
      /\ frame.round = (IF IsOpen(old) THEN old.round ELSE 0)
      /\ frame.status = "waiting"
  BY DEF BuildClarificationFrame
<1>2. t = WithFrame(s, frame)
  BY DEF ValidatedFields
<1> HIDE DEF frame, t
<1>3. /\ t.clarification_frame = (IF Asks(s.route_plan) THEN frame ELSE old)
      /\ t.clarification_round = s.clarification_round
      /\ t.missing_required_fields = (IF Asks(s.route_plan) THEN frame.pending ELSE <<>>)
      /\ t.route_decision = s.route_decision
  BY <1>2, FieldNames DEF WithFrame, Good, IsState
<1>4. next \in {"refuse_request", "direct_answer", "execute_combination_prelude",
                "insufficient_information", "prepare_clarification_reply"}
  BY DEF RouteAfterValidation
<1>5. IsOpen(old) => old.status = "waiting" /\ old.round <= s.clarification_round /\ Asks(s.route_plan)
  BY DEF Good, Decided, Placed
<1>6. Named(t)
  BY <1>1, <1>3 DEF Named
<1>7. LifeStep(run.entry, old, t.clarification_frame)
  BY <1>1, <1>3, <1>5 DEF LifeStep, IsOpen
<1>8. ASSUME next = "prepare_clarification_reply"
      PROVE  /\ t.clarification_frame.status = "waiting"
             /\ t.clarification_frame.round <= t.clarification_round /\ t.clarification_round < MaxRounds
  <2>1. ~(t.clarification_round >= MaxRounds) /\ (t.missing_required_fields # <<>> \/ t.route_decision = "clarify")
    BY <1>8 DEF RouteAfterValidation
  <2>2. Asks(s.route_plan)
    BY <1>3, <2>1 DEF Good, Decided, Asks
  <2>3. t.clarification_frame = frame
    BY <1>3, <2>2
  <2> QED  BY <1>1, <1>3, <1>5, <2>1, <2>3, RoundsAssumption DEF Named
<1>9. Placed(next, t)
  BY <1>4, <1>8 DEF Placed, Asking, Interrupting
<1> QED  BY <1>4, <1>6, <1>7, <1>9 DEF Lives, Naming, t

\* The nodes that write what the user is told leave the frame as it is.
LEMMA ReplyLives ==
    ASSUME NEW entry, NEW s, Named(s), NEW t,
           t.clarification_frame = s.clarification_frame, t.clarification_round = s.clarification_round
    PROVE  /\ Placed("prepare_clarification_reply", s) =>
                Lives(entry, "prepare_clarification_reply", s, "clarify_missing_fields", t)
           /\ \A at \in {"answer_side_conversation", "prepare_relation_clarification"} :
                Placed(at, s) => Lives(entry, at, s, "pause_clarification", t)
BY DEF Lives, Named, Placed, LifeStep, Asking, Interrupting, Naming

-----------------------------------------------------------------------------
(* What an answer makes of the frame *)

\* A question that is repeated waits as before.
LEMMA ResumeLives ==
    ASSUME NEW entry, NEW s, IsState(s), Named(s), Placed("resolve_clarification_turn", s)
    PROVE  LET t == ResumeOnly(s)
           IN  Lives(entry, "resolve_clarification_turn", s, RouteAfterResolution(t), t)
<1> DEFINE old == s.clarification_frame
           frame == [old EXCEPT !.status = "waiting"]
           t == ResumeOnly(s)
<1>1. t.clarification_frame = frame /\ t.clarification_round = old.round /\ t.clarification_resume_only = TRUE
  BY FieldNames DEF ResumeOnly, IsState
<1>2. old.status = "waiting" /\ {"frame_id", "status", "round"} \subseteq DOMAIN old
  BY DEF Placed, Named
<1>3. /\ frame.frame_id = old.frame_id /\ frame.status = "waiting" /\ frame.round = old.round
      /\ {"frame_id", "status", "round"} \subseteq DOMAIN frame
  BY <1>2
<1> HIDE DEF t, frame
<1>4. RouteAfterResolution(t) = "resume_clarification"
  BY <1>1 DEF RouteAfterResolution
<1>5. Named(t) /\ Placed("resume_clarification", t)
  BY <1>1, <1>3 DEF Named, Placed, Asking, Interrupting
<1>6. LifeStep(entry, old, t.clarification_frame)
  BY <1>1, <1>2, <1>3 DEF LifeStep
<1> QED  BY <1>4, <1>5, <1>6 DEF Lives, Naming, t

\* A message that may be either pauses the frame.
LEMMA AmbiguousLives ==
    ASSUME NEW entry, NEW s, IsState(s), Named(s), Placed("resolve_clarification_turn", s)
    PROVE  LET t == Ambiguous(s)
           IN  Lives(entry, "resolve_clarification_turn", s, RouteAfterResolution(t), t)
<1> DEFINE old == s.clarification_frame
           frame == TerminalTransition(old, "ambiguous")
           t == Ambiguous(s)
<1>1. frame = [old EXCEPT !.status = "paused"]
  BY DEF TerminalTransition
<1> HIDE DEF frame
<1>2. /\ t.clarification_frame = frame /\ t.clarification_round = old.round
      /\ t.clarification_resume_only = FALSE /\ t.clarification_relation = "ambiguous"
  <2>1. t = [s EXCEPT !.clarification_frame = frame, !.clarification_relation = "ambiguous",
                      !.clarification_resume_only = FALSE, !.missing_required_fields = old.pending,
                      !.clarification_round = old.round]
    BY FieldNames DEF Ambiguous, IsState, frame
  <2> HIDE DEF t
  <2> QED  BY <2>1, FieldNames DEF IsState
<1>3. old.status = "waiting" /\ {"frame_id", "status", "round"} \subseteq DOMAIN old
  BY DEF Placed, Named
<1>4. /\ frame.frame_id = old.frame_id /\ frame.status = "paused" /\ frame.round = old.round
      /\ {"frame_id", "status", "round"} \subseteq DOMAIN frame
  BY <1>1, <1>3
<1> HIDE DEF t
<1>5. RouteAfterResolution(t) = "prepare_relation_clarification"
  BY <1>2 DEF RouteAfterResolution
<1>6. Named(t) /\ Placed("prepare_relation_clarification", t)
  BY <1>2, <1>4 DEF Named, Placed, Asking, Interrupting
<1>7. LifeStep(entry, old, t.clarification_frame)
  BY <1>2, <1>3, <1>4 DEF LifeStep
<1> QED  BY <1>5, <1>6, <1>7 DEF Lives, Naming, t

\* An answer resolves the frame or leaves it waiting.
LEMMA ContinuedLives ==
    ASSUME NEW entry, NEW s, IsState(s), Named(s), Placed("resolve_clarification_turn", s), NEW u
    PROVE  LET t == ContinueCurrent(s, u)
           IN  Lives(entry, "resolve_clarification_turn", s, RouteAfterResolution(t), t)
<1> DEFINE old == s.clarification_frame
           merged == MergeContinuation(old, u)
           c == ClassificationUpdate(s, merged, old.request)
           pending == StillPending(old, c.route_plan)
           frame == UpdateAfterAnswer(old, c.understanding, pending)
           t == Continued(c, old, pending)
<1>1. ContinueCurrent(s, u) = t
  BY DEF ContinueCurrent
<1> HIDE DEF merged
<1>2. IsState(c)
  BY Classified
<1> HIDE DEF c, pending
<1>3. old.status = "waiting" /\ {"frame_id", "status", "round"} \subseteq DOMAIN old
  BY DEF Placed, Named
<1>4. /\ frame.frame_id = old.frame_id /\ frame.status \in {"waiting", "resolved"} /\ frame.round = old.round
      /\ {"frame_id", "status", "round"} \subseteq DOMAIN frame
  BY <1>3 DEF UpdateAfterAnswer
<1>5. t = [c EXCEPT !.request = old.request, !.clarification_frame = frame,
                    !.clarification_relation = "continue_current", !.clarification_resume_only = FALSE,
                    !.missing_required_fields = pending, !.clarification_round = old.round]
  BY DEF Continued
<1> HIDE DEF frame, t
<1>6. /\ t.clarification_frame = frame /\ t.clarification_round = old.round
      /\ t.clarification_relation = "continue_current" /\ t.clarification_resume_only = FALSE
  BY <1>2, <1>5, FieldNames DEF IsState
<1>7. RouteAfterResolution(t) = "validate_required_fields"
  BY <1>6 DEF RouteAfterResolution
<1>8. Named(t) /\ Placed("validate_required_fields", t)
  BY <1>4, <1>6 DEF Named, Placed, Asking, Interrupting, IsOpen
<1>9. LifeStep(entry, old, t.clarification_frame) /\ t.clarification_frame.frame_id = old.frame_id
  BY <1>3, <1>4, <1>6 DEF LifeStep
<1> QED  BY <1>1, <1>7, <1>8, <1>9 DEF Lives, Naming

\* A request of its own pauses or closes the frame.
LEMMA TakenUpLives ==
    ASSUME NEW entry, NEW s, IsState(s), Named(s), Placed("resolve_clarification_turn", s), NEW u,
           NEW relation \in {"replace_with_new_request", "cancel_current", "side_conversation"}
    PROVE  LET t == TakeUp(s, u, relation)
           IN  Lives(entry, "resolve_clarification_turn", s, RouteAfterResolution(t), t)
<1> DEFINE old == s.clarification_frame
           reset == ResetTaskState(s, s.clarification_response)
           understood == [u EXCEPT !.clarification_relation = relation,
                                   !.interaction_mode = IF relation # "replace_with_new_request" THEN @
                                                        ELSE IF u.primary_intent = "conversation"
                                                        THEN "conversation" ELSE "task",
                                   !.cancel_scope = IF relation = "cancel_current" THEN "clarification" ELSE @]
           c == ClassificationUpdate(reset, understood, s.clarification_response)
           frame == TerminalTransition(old, relation)
           t == TakenUp(c, frame, relation)
<1>1. TakeUp(s, u, relation) = t
  BY DEF TakeUp
<1>2. IsState(reset) /\ reset.clarification_resume_only = FALSE
  BY WasReset, NewState, FieldNames DEF ResetTaskState, IsState
<1> HIDE DEF reset, understood
<1>3. IsState(c) /\ c.clarification_resume_only = FALSE
  BY <1>2, Classified
<1> HIDE DEF c
<1>4. old.status = "waiting" /\ {"frame_id", "status", "round"} \subseteq DOMAIN old /\ old.round \in Nat
  BY DEF Placed, Named
<1>5. /\ frame.frame_id = old.frame_id /\ frame.round = old.round
      /\ frame.status = CASE relation = "cancel_current" -> "cancelled"
                          [] relation = "replace_with_new_request" -> "superseded"
                          [] relation = "side_conversation" -> "paused"
      /\ {"frame_id", "status", "round"} \subseteq DOMAIN frame
  BY <1>4 DEF TerminalTransition
<1> HIDE DEF frame
<1>6. /\ t.clarification_frame = frame /\ t.clarification_round \in {old.round, 0}
      /\ t.clarification_relation = relation /\ t.clarification_resume_only = FALSE
  <2> DEFINE missing == IF relation = "replace_with_new_request" THEN c.missing_required_fields ELSE frame.pending
             round == IF relation = "side_conversation" THEN frame.round ELSE 0
  <2>1. t = [c EXCEPT !.clarification_frame = frame, !.clarification_relation = relation,
                      !.missing_required_fields = missing, !.clarification_round = round]
    BY DEF TakenUp
  <2>2. round \in {old.round, 0}
    BY <1>5
  <2> HIDE DEF missing, round, t
  <2> QED  BY <1>3, <2>1, <2>2, FieldNames DEF IsState
<1> HIDE DEF t
<1>7. RouteAfterResolution(t) =
        CASE relation = "replace_with_new_request" -> "validate_required_fields"
          [] relation = "cancel_current" -> "direct_answer"
          [] relation = "side_conversation" -> "answer_side_conversation"
  BY <1>6 DEF RouteAfterResolution
<1>8. Named(t)
  BY <1>4, <1>5, <1>6 DEF Named
<1>9. Placed(RouteAfterResolution(t), t)
  BY <1>5, <1>6, <1>7 DEF Placed, Asking, Interrupting, IsOpen
<1>10. LifeStep(entry, old, t.clarification_frame) /\ t.clarification_frame.frame_id = old.frame_id
  BY <1>4, <1>5, <1>6 DEF LifeStep
<1> QED  BY <1>1, <1>8, <1>9, <1>10 DEF Lives, Naming

\* Whatever is understood of the answer.
LEMMA ResolveLives ==
    ASSUME NEW entry, NEW s, IsState(s), Named(s), Placed("resolve_clarification_turn", s), NEW u
    PROVE  LET t == Resolved(s, u)
           IN  Lives(entry, "resolve_clarification_turn", s, RouteAfterResolution(t), t)
<1> DEFINE relation == DecideTurnRelation(s.clarification_frame, Said[s.clarification_response], u)
           t == ResolvedAs(relation, s, u)
<1>1. Resolved(s, u) = t
  BY DEF Resolved
<1>2. relation \in {"replace_with_new_request", "cancel_current", "ambiguous", "continue_current", "resume",
                    "side_conversation"}
  BY Relations
<1> HIDE DEF relation
<1>3. CASE relation = "resume"
  <2>1. t = ResumeOnly(s)
    BY <1>3 DEF ResolvedAs
  <2> HIDE DEF t
  <2> QED  BY <1>1, <2>1, ResumeLives
<1>4. CASE relation = "ambiguous"
  <2>1. t = Ambiguous(s)
    BY <1>4 DEF ResolvedAs
  <2> HIDE DEF t
  <2> QED  BY <1>1, <2>1, AmbiguousLives
<1>5. CASE relation = "continue_current"
  <2>1. t = ContinueCurrent(s, u)
    BY <1>5 DEF ResolvedAs
  <2> HIDE DEF t
  <2> QED  BY <1>1, <2>1, ContinuedLives
<1>6. CASE relation \in {"replace_with_new_request", "cancel_current", "side_conversation"}
  <2>1. t = TakeUp(s, u, relation)
    BY <1>6 DEF ResolvedAs
  <2> HIDE DEF t
  <2> QED  BY <1>1, <1>6, <2>1, TakenUpLives
<1> QED  BY <1>2, <1>3, <1>4, <1>5, <1>6

\* The interrupts: the question has been asked once more, or goes on after a pause.
LEMMA InterruptLives ==
    ASSUME NEW entry, NEW s, IsState(s), Named(s), NEW response
    PROVE  LET round == s.clarification_frame.round + 1
               asked == [[s EXCEPT !.clarification_frame.round = round, !.clarification_frame.status = "waiting",
                                   !.clarification_round = round] EXCEPT !.clarification_response = response]
               resumed == [[s EXCEPT !.clarification_resume_only = FALSE] EXCEPT !.clarification_response = response]
               waiting == [[s EXCEPT !.clarification_frame.status = "waiting"]
                              EXCEPT !.clarification_response = response]
           IN  /\ Placed("clarify_missing_fields", s) =>
                    Lives(entry, "clarify_missing_fields", s, "resolve_clarification_turn", asked)
               /\ Placed("resume_clarification", s) =>
                    Lives(entry, "resume_clarification", s, "resolve_clarification_turn", resumed)
               /\ Placed("pause_clarification", s) =>
                    Lives(entry, "pause_clarification", s, "resolve_clarification_turn", waiting)
<1> DEFINE old == s.clarification_frame
           round == old.round + 1
           asked == [[s EXCEPT !.clarification_frame.round = round, !.clarification_frame.status = "waiting",
                               !.clarification_round = round] EXCEPT !.clarification_response = response]
           resumed == [[s EXCEPT !.clarification_resume_only = FALSE] EXCEPT !.clarification_response = response]
           waiting == [[s EXCEPT !.clarification_frame.status = "waiting"] EXCEPT !.clarification_response = response]
<1>1. ASSUME NEW at \in Interrupts, NEW t,
             {"frame_id", "status", "round"} \subseteq DOMAIN t.clarification_frame,
             t.clarification_frame.frame_id = old.frame_id, t.clarification_frame.status = "waiting",
             t.clarification_frame.round \in Nat, t.clarification_round \in Nat,
             LifeStep(entry, old, t.clarification_frame)
      PROVE  Lives(entry, at, s, "resolve_clarification_turn", t)
  BY <1>1 DEF Lives, Named, Placed, Asking, Interrupting
<1>2. {"frame_id", "status", "round"} \subseteq DOMAIN old /\ old.frame_id \in Nat /\ old.round \in Nat
  BY DEF Named
<1>3. ASSUME Placed("clarify_missing_fields", s)
      PROVE  Lives(entry, "clarify_missing_fields", s, "resolve_clarification_turn", asked)
  <2> DEFINE frame == [[old EXCEPT !.round = round] EXCEPT !.status = "waiting"]
  <2>1. asked.clarification_frame = frame /\ asked.clarification_round = round
    BY FieldNames DEF IsState
  <2>2. /\ {"frame_id", "status", "round"} \subseteq DOMAIN frame
        /\ frame.frame_id = old.frame_id /\ frame.status = "waiting" /\ frame.round = round
    BY <1>2
  <2>3. old.status = "waiting" /\ old.round < MaxRounds
    BY <1>2, <1>3, RoundsAssumption DEF Placed, Asking, Named
  <2> HIDE DEF frame, asked
  <2>4. LifeStep(entry, old, frame)
    BY <2>2, <2>3 DEF LifeStep
  <2> QED  BY <1>1, <1>2, <2>1, <2>2, <2>4 DEF Interrupts
<1>4. ASSUME Placed("resume_clarification", s)
      PROVE  Lives(entry, "resume_clarification", s, "resolve_clarification_turn", resumed)
  <2>1. resumed.clarification_frame = old /\ resumed.clarification_round = s.clarification_round
    BY FieldNames DEF IsState
  <2>2. old.status = "waiting" /\ s.clarification_round \in Nat
    BY <1>4 DEF Placed, Named
  <2> HIDE DEF resumed
  <2>3. LifeStep(entry, old, old)
    BY DEF LifeStep
  <2> QED  BY <1>1, <1>2, <2>1, <2>2, <2>3 DEF Interrupts
<1>5. ASSUME Placed("pause_clarification", s)
      PROVE  Lives(entry, "pause_clarification", s, "resolve_clarification_turn", waiting)
  <2> DEFINE frame == [old EXCEPT !.status = "waiting"]
  <2>1. waiting.clarification_frame = frame /\ waiting.clarification_round = s.clarification_round
    BY FieldNames DEF IsState
  <2>2. /\ {"frame_id", "status", "round"} \subseteq DOMAIN frame
        /\ frame.frame_id = old.frame_id /\ frame.status = "waiting" /\ frame.round = old.round
    BY <1>2
  <2>3. old.status = "paused" /\ s.clarification_round \in Nat
    BY <1>5 DEF Placed, Interrupting, Named
  <2> HIDE DEF frame, waiting
  <2>4. LifeStep(entry, old, frame)
    BY <2>2, <2>3 DEF LifeStep
  <2> QED  BY <1>1, <1>2, <2>1, <2>2, <2>3, <2>4 DEF Interrupts
<1> QED  BY <1>3, <1>4, <1>5

-----------------------------------------------------------------------------
(* Every step *)

\* A message is appended to the thread.
LEMMA Appended ==
    ASSUME NEW S, NEW seq \in Seq(S), NEW e
    PROVE  (\E R : Append(seq, e) \in Seq(R)) /\ Len(seq) \in Nat /\ Len(Append(seq, e)) = Len(seq) + 1
<1>1. seq \in Seq(S \cup {e})
  OBVIOUS
<1>2. Append(seq, e) \in Seq(S \cup {e}) /\ Len(Append(seq, e)) = Len(seq) + 1
  BY <1>1
<1> QED  BY <1>2

\* A node that is a step of the frame's life is one of ClarificationLife, and keeps the numbers.
LEMMA Moved ==
    ASSUME LifeInv, Running, NEW t, NEW next, graph' = [at |-> next, s |-> t], run' = Answered, UNCHANGED thread,
           Lives(run.entry, graph.at, graph.s, next, t), graph.at \in Interrupts => run.resume # None
    PROVE  LifeInv' /\ [Life!Next]_(Life!life)
<1> DEFINE old == graph.s.clarification_frame
           new == t.clarification_frame
<1>1. graph'.at = next /\ graph'.s = t
  OBVIOUS
<1>2. /\ run' = [client |-> run.client, entry |-> run.entry, resume |-> None]
      /\ run'.entry = run.entry /\ run'.resume = None
  BY DEF LifeInv, Numbered, Answered
<1>3. Len(thread.messages) \in Nat /\ run.entry = Len(thread.messages) /\ run.entry > 0
  BY DEF LifeInv, Numbered
<1>4. old.frame_id \in Nat /\ old.round \in Nat /\ new.frame_id \in Nat /\ old.frame_id <= run.entry
  BY <1>3 DEF LifeInv, Named, Lives, Numbered
<1>5. LifeStep(run.entry, old, new)
  BY DEF Lives
<1>6. new.frame_id <= Len(thread.messages)
  BY <1>3, <1>4, <1>5 DEF LifeStep
<1>7. graph.at \in Naming \cup Interrupts => old.frame_id < run.entry
  BY DEF LifeInv, Numbered
<1>8. next \in Naming => new.frame_id < run.entry
  BY <1>3, <1>7 DEF Lives
<1>9. Numbered'
  BY <1>1, <1>2, <1>3, <1>6, <1>8 DEF LifeInv, Numbered, Running
<1>10. Named(t) /\ Placed(next, t)
  BY DEF Lives
<1>11. LifeInv'
  BY <1>1, <1>9, <1>10 DEF LifeInv
<1>12. /\ (graph.s.clarification_frame.frame_id)' = new.frame_id
       /\ (graph.s.clarification_frame.status)' = new.status
       /\ (graph.s.clarification_frame.round)' = new.round
  BY <1>1
<1>13. [Life!Next]_(Life!life)
  <2> HIDE DEF new
  <2>1. CASE new.frame_id = old.frame_id /\ new.status = old.status /\ new.round = old.round
    BY <1>12, <2>1 DEF Life!life
  <2>2. CASE /\ old.status \notin {"waiting", "paused"} /\ old.frame_id < run.entry
             /\ new.frame_id = run.entry /\ new.status = "waiting" /\ new.round = 0
    BY <1>3, <1>4, <1>12, <2>2 DEF Life!Next, Life!Open
  <2>3. CASE /\ old.status = "waiting" /\ old.round < MaxRounds
             /\ new.frame_id = old.frame_id /\ new.status = old.status /\ new.round = old.round + 1
    BY <1>12, <2>3 DEF Life!Next, Life!Ask
  <2>4. CASE /\ <<old.status, new.status>> \in
                    {<<"waiting", "paused">>, <<"paused", "waiting">>, <<"waiting", "resolved">>,
                     <<"waiting", "cancelled">>, <<"waiting", "superseded">>}
             /\ new.frame_id = old.frame_id /\ new.round = old.round
    BY <1>12, <2>4 DEF Life!Next, Life!Interrupted, Life!Resumed, Life!Close
  <2>5. CASE new.frame_id = 0 /\ new.status = "absent" /\ new.round = 0
    BY <1>12, <2>5 DEF Life!Next, Life!Forget
  <2> QED  BY <1>5, <2>1, <2>2, <2>3, <2>4, <2>5 DEF LifeStep
<1> QED  BY <1>11, <1>13

\* The request, its plan and its frame are what they were.
Same(s, t) ==
    /\ Keeps(s, t) /\ t.request = s.request
    /\ t.clarification_frame = s.clarification_frame /\ t.clarification_round = s.clarification_round

\* A node that leaves them alone, and leads to none that asks for the frame.
PlainMove(at, t, next) ==
    /\ Node(at, t, next) /\ Same(graph.s, t)
    /\ at \notin Interrupts \cup {"validate_required_fields", "ingest_request"}
    /\ next \notin Placing \cup {"ingest_request"}
    /\ next \in Naming => next = "classify_and_extract" /\ at = "authorize_scope"
    /\ next = "audit" => t.task_results = TaskResults(t)
    /\ next = "end" => at = "audit" /\ t = graph.s

\* So do the nodes that consult, that answer, and that end a turn.
LEMMA PlainMoves ==
    ASSUME GraphInv,
           \/ AuthorizeScope \/ Evidence
           \/ DirectAnswer \/ RefuseRequest \/ InsufficientInformation \/ FinalizeTaskResults \/ Audit
    PROVE  \E at, t, next : PlainMove(at, t, next)
<1> DEFINE s == graph.s
<1>1. IsState(s)
  BY DEF GraphInv, Good
<1>2. ASSUME NEW at, NEW t, NEW next, PlainMove(at, t, next) PROVE \E a, r, n : PlainMove(a, r, n)
  BY <1>2
<1>3. CASE AuthorizeScope
  <2> DEFINE t == [s EXCEPT !.authorization_errors = <<>>]
  <2>1. Same(s, t)
    BY <1>1, FieldNames DEF IsState, Keeps, Same
  <2>2. Node("authorize_scope", t, "classify_and_extract")
    BY <1>3 DEF AuthorizeScope
  <2> HIDE DEF t
  <2> QED  BY <1>2, <2>1, <2>2 DEF PlainMove, Interrupts, Placing, Asking, Interrupting, Naming
<1>4. CASE Evidence
  <2>1. ASSUME NEW at \in Consulting, NEW t, NEW next \in Consulting \cup {"finalize_task_results"},
               Node(at, t, next), Same(s, t)
        PROVE  \E a, r, n : PlainMove(a, r, n)
    BY <1>2, <2>1 DEF PlainMove, Consulting, Interrupts, Placing, Asking, Interrupting, Naming
  <2>2. CASE ExecuteCombinationPrelude
    <3>1. Same(s, s)
      BY <1>1 DEF Same, Keeps
    <3> QED  BY <2>1, <2>2, <3>1 DEF ExecuteCombinationPrelude, Consulting
  <2>3. CASE RetrieveEvidence
    <3> DEFINE t(route, evidence, live, trace) ==
                 [s EXCEPT !.initial_route_decision = s.route_decision, !.route_decision = route,
                           !.reranked_evidence = evidence, !.external_evidence = None,
                           !.live_data_refs = live, !.trace_id = trace]
    <3>a. PICK route \in {"internal_rag", s.route_decision} : \E evidence, live, trace :
                 Node("retrieve_evidence", t(route, evidence, live, trace), "assess_evidence")
      BY <2>3, ZenonT(60) DEF RetrieveEvidence
    <3>1. PICK evidence, live, trace :
                 Node("retrieve_evidence", t(route, evidence, live, trace), "assess_evidence")
      BY <3>a
    <3>2. Same(s, t(route, evidence, live, trace))
      BY <1>1, FieldNames DEF IsState, Keeps, Same
    <3> HIDE DEF t
    <3> QED  BY <2>1, <3>1, <3>2 DEF Consulting
  <2>4. CASE AssessEvidence
    <3> DEFINE tools == s.route_decision = "tool_only"
               a(judged) == Assess(s.understanding, s.reranked_evidence, s.initial_route_decision, judged)
               t(evidence, allowed, mode) == [s EXCEPT !.reranked_evidence = evidence,
                                                       !.web_fallback_allowed = allowed, !.answer_mode = mode]
               next(allowed) == IF allowed THEN "search_external" ELSE "build_evidence_ledger"
    <3>1. PICK judged, evidence, mode :
                 Node("assess_evidence", t(evidence, ~tools /\ a(judged).web_fallback_allowed, mode),
                      next(~tools /\ a(judged).web_fallback_allowed))
      BY <2>4 DEF AssessEvidence
    <3> DEFINE allowed == ~tools /\ a(judged).web_fallback_allowed
    <3> HIDE DEF allowed
    <3>2. Same(s, t(evidence, allowed, mode))
      BY <1>1, FieldNames DEF IsState, Keeps, Same
    <3>3. next(allowed) \in Consulting
      BY DEF Consulting
    <3> HIDE DEF t, next
    <3>4. Node("assess_evidence", t(evidence, allowed, mode), next(allowed))
      BY <3>1 DEF allowed
    <3> QED  BY <2>1, <3>2, <3>3, <3>4 DEF Consulting
  <2>5. CASE SearchExternal
    <3> DEFINE t(value) == [s EXCEPT !.route_decision = "rag_and_web", !.external_evidence = value]
    <3>1. PICK value : Node("search_external", t(value), "build_evidence_ledger")
      BY <2>5 DEF SearchExternal
    <3>2. Same(s, t(value))
      BY <1>1, FieldNames DEF IsState, Keeps, Same
    <3> HIDE DEF t
    <3> QED  BY <2>1, <3>1, <3>2 DEF Consulting
  <2>6. CASE BuildEvidenceLedger
    <3> DEFINE t(value) == [s EXCEPT !.evidence_ledger = value]
    <3>1. PICK value : Node("build_evidence_ledger", t(value), "generate_answer")
      BY <2>6 DEF BuildEvidenceLedger
    <3>2. Same(s, t(value))
      BY <1>1, FieldNames DEF IsState, Keeps, Same
    <3> HIDE DEF t
    <3> QED  BY <2>1, <3>1, <3>2 DEF Consulting
  <2>7. CASE GenerateAnswer
    <3> DEFINE t(value) == [s EXCEPT !.answer = value]
    <3>1. PICK value : Node("generate_answer", t(value), "verify_answer")
      BY <2>7 DEF GenerateAnswer
    <3>2. Same(s, t(value))
      BY <1>1, FieldNames DEF IsState, Keeps, Same
    <3> HIDE DEF t
    <3> QED  BY <2>1, <3>1, <3>2 DEF Consulting
  <2>8. CASE VerifyAnswer
    <3> DEFINE verified == Verified(s)
               t == [s EXCEPT !.answer = verified, !.citations = UNION {c.citations : c \in verified},
                              !.status = "completed"]
    <3>1. Node("verify_answer", t, "finalize_task_results")
      BY <2>8 DEF VerifyAnswer
    <3>2. Same(s, t)
      <4> HIDE DEF verified
      <4> QED  BY <1>1, FieldNames DEF IsState, Keeps, Same
    <3> HIDE DEF t
    <3> QED  BY <2>1, <3>1, <3>2 DEF Consulting
  <2> QED  BY <1>4, <2>2, <2>3, <2>4, <2>5, <2>6, <2>7, <2>8 DEF Evidence
<1>5. CASE DirectAnswer \/ RefuseRequest \/ InsufficientInformation
  <2> DEFINE t(status) == [s EXCEPT !.answer = {}, !.citations = {}, !.status = status]
  <2>a. PICK at \in {"direct_answer", "refuse_request", "insufficient_information"} :
               \E status : Node(at, t(status), "finalize_task_results")
    BY <1>5 DEF DirectAnswer, DirectlyAnswered, RefuseRequest, InsufficientInformation
  <2>1. PICK status : Node(at, t(status), "finalize_task_results")
    BY <2>a
  <2>2. Same(s, t(status))
    BY <1>1, FieldNames DEF IsState, Keeps, Same
  <2> HIDE DEF t
  <2> QED  BY <1>2, <2>1, <2>2 DEF PlainMove, Interrupts, Placing, Asking, Interrupting, Naming
<1>6. CASE FinalizeTaskResults
  <2> DEFINE t == [s EXCEPT !.task_results = TaskResults(s)]
  <2>1. Node("finalize_task_results", t, "audit")
    BY <1>6 DEF FinalizeTaskResults
  <2>2. Same(s, t) /\ t.task_results = TaskResults(t)
    <3> DEFINE results == TaskResults(s)
    <3> HIDE DEF results
    <3>1. t = [s EXCEPT !.task_results = results]
      BY DEF results
    <3> HIDE DEF t
    <3>2. /\ Same(s, t) /\ t.task_results = results
          /\ t.route_decision = s.route_decision /\ t.evidence_ledger = s.evidence_ledger
          /\ t.citations = s.citations /\ t.authorization_errors = s.authorization_errors
      BY <1>1, <3>1, FieldNames DEF IsState, Keeps, Same
    <3> QED  BY <3>2 DEF TaskResults, Tasks, Same, Keeps, results
  <2> HIDE DEF t
  <2> QED  BY <1>2, <2>1, <2>2 DEF PlainMove, Interrupts, Placing, Asking, Interrupting, Naming
<1>7. CASE Audit
  <2>1. Same(s, s)
    BY <1>1 DEF Same, Keeps
  <2> QED  BY <1>2, <1>7, <2>1 DEF Audit, PlainMove, Interrupts, Placing, Asking, Interrupting, Naming
<1> QED  BY <1>3, <1>4, <1>5, <1>6, <1>7

\* Those nodes leave the frame as it is.
LEMMA PlainLives ==
    ASSUME LifeInv, \E at, t, next : PlainMove(at, t, next)
    PROVE  LifeInv' /\ [Life!Next]_(Life!life)
<1>1. PICK at, t, next : PlainMove(at, t, next)
  OBVIOUS
<1>2. graph.at = at /\ Lives(run.entry, at, graph.s, next, t)
  BY <1>1, FrameAlone DEF PlainMove, Same, Node, LifeInv, Naming
<1> QED  BY <1>1, <1>2, Moved DEF PlainMove, Node

\* The nodes from the message to where a frame is named.
LEMMA NamingLives ==
    ASSUME GraphInv, LifeInv, Ingest \/ ClassifyAndExtract \/ ValidateRequiredFields
    PROVE  LifeInv' /\ [Life!Next]_(Life!life)
<1> DEFINE s == graph.s
<1>1. Good(graph.at, s) /\ Named(s) /\ Placed(graph.at, s)
  BY DEF GraphInv, LifeInv
<1>2. ASSUME NEW at, NEW t, NEW next, Node(at, t, next), at \notin Interrupts, Lives(run.entry, at, s, next, t)
      PROVE  LifeInv' /\ [Life!Next]_(Life!life)
  BY <1>2, Moved DEF Node
<1>3. CASE Ingest
  <2>1. Lives(run.entry, "ingest_request", s, "authorize_scope", IngestRequest(s))
    BY <1>1, IngestLives
  <2> QED  BY <1>2, <1>3, <2>1 DEF Ingest, Interrupts
<1>4. CASE ClassifyAndExtract
  <2>1. Good("classify_and_extract", s)
    BY <1>1, <1>4 DEF ClassifyAndExtract
  <2>2. PICK u : Node("classify_and_extract", ClassificationUpdate(s, u, s.request), "validate_required_fields")
    BY <1>4 DEF ClassifyAndExtract
  <2>3. Lives(run.entry, "classify_and_extract", s, "validate_required_fields",
              ClassificationUpdate(s, u, s.request))
    BY <1>1, <2>1, ClassifyLives
  <2> QED  BY <1>2, <2>2, <2>3 DEF Interrupts
<1>5. CASE ValidateRequiredFields
  <2> DEFINE t == ValidatedFields(s)
  <2>1. graph.at = "validate_required_fields" /\ Node("validate_required_fields", t, RouteAfterValidation(t))
    BY <1>5 DEF ValidateRequiredFields
  <2>2. run.entry \in Nat /\ s.clarification_frame.frame_id < run.entry
    <3>1. Running
      BY <2>1 DEF Node
    <3>2. PICK S : thread.messages \in Seq(S)
      BY DEF LifeInv, Numbered
    <3>3. Len(thread.messages) \in Nat
      BY <3>2
    <3> QED  BY <2>1, <3>1, <3>3 DEF LifeInv, Numbered, Naming
  <2>3. Lives(run.entry, "validate_required_fields", s, RouteAfterValidation(t), t)
    BY <1>1, <2>1, <2>2, ValidateLives
  <2> QED  BY <1>2, <2>1, <2>3 DEF Interrupts
<1> QED  BY <1>3, <1>4, <1>5

\* The nodes that ask the user and take the answer.
LEMMA ClarificationLives ==
    ASSUME GraphInv, LifeInv, Clarification
    PROVE  LifeInv' /\ [Life!Next]_(Life!life)
<1> DEFINE s == graph.s
<1>1. IsState(s) /\ Named(s) /\ Placed(graph.at, s)
  BY DEF GraphInv, Good, LifeInv
<1>2. ASSUME NEW at, NEW t, NEW next, Node(at, t, next), at \notin Interrupts, Lives(run.entry, at, s, next, t)
      PROVE  LifeInv' /\ [Life!Next]_(Life!life)
  BY <1>2, Moved DEF Node
<1>3. ASSUME NEW at, NEW t, Interrupt(at, t),
             Lives(run.entry, at, s, "resolve_clarification_turn", [t EXCEPT !.clarification_response = run.resume])
      PROVE  LifeInv' /\ [Life!Next]_(Life!life)
  BY <1>3, Moved DEF Interrupt
<1>4. CASE PrepareClarificationReply
  <2> DEFINE t == [s EXCEPT !.task_results = TaskResults(s)]
  <2>1. graph.at = "prepare_clarification_reply" /\ Node("prepare_clarification_reply", t, "clarify_missing_fields")
    BY <1>4 DEF PrepareClarificationReply, Node
  <2>2. t.clarification_frame = s.clarification_frame /\ t.clarification_round = s.clarification_round
    BY <1>1, FieldNames DEF IsState
  <2> HIDE DEF t
  <2>3. Lives(run.entry, "prepare_clarification_reply", s, "clarify_missing_fields", t)
    BY <1>1, <2>1, <2>2, ReplyLives
  <2> QED  BY <1>2, <2>1, <2>3 DEF Interrupts
<1>5. CASE ClarifyMissingFields
  <2> DEFINE asked == s.clarification_frame.round + 1
             t == [s EXCEPT !.clarification_frame.round = asked, !.clarification_frame.status = "waiting",
                            !.clarification_round = asked]
  <2>1. graph.at = "clarify_missing_fields" /\ Interrupt("clarify_missing_fields", t)
    BY <1>5 DEF ClarifyMissingFields, Interrupt
  <2>2. Lives(run.entry, "clarify_missing_fields", s, "resolve_clarification_turn",
              [t EXCEPT !.clarification_response = run.resume])
    BY <1>1, <2>1, InterruptLives
  <2> QED  BY <1>3, <2>1, <2>2
<1>6. CASE ResolveClarificationTurn
  <2>1. graph.at = "resolve_clarification_turn"
    BY <1>6 DEF ResolveClarificationTurn
  <2>2. PICK u : Node("resolve_clarification_turn", Resolved(s, u), RouteAfterResolution(Resolved(s, u)))
    BY <1>6 DEF ResolveClarificationTurn
  <2>3. Lives(run.entry, "resolve_clarification_turn", s, RouteAfterResolution(Resolved(s, u)), Resolved(s, u))
    BY <1>1, <2>1, ResolveLives
  <2> QED  BY <1>2, <2>2, <2>3 DEF Interrupts
<1>7. CASE AnswerSideConversation
  <2> DEFINE t == [s EXCEPT !.answer = {}, !.citations = {}, !.status = "completed"]
  <2>1. graph.at = "answer_side_conversation" /\ Node("answer_side_conversation", t, "pause_clarification")
    BY <1>7 DEF AnswerSideConversation, DirectlyAnswered, Node
  <2>2. t.clarification_frame = s.clarification_frame /\ t.clarification_round = s.clarification_round
    BY <1>1, FieldNames DEF IsState
  <2> HIDE DEF t
  <2>3. Lives(run.entry, "answer_side_conversation", s, "pause_clarification", t)
    BY <1>1, <2>1, <2>2, ReplyLives
  <2> QED  BY <1>2, <2>1, <2>3 DEF Interrupts
<1>8. CASE ResumeClarification
  <2> DEFINE t == [s EXCEPT !.clarification_resume_only = FALSE]
  <2>1. graph.at = "resume_clarification" /\ Interrupt("resume_clarification", t)
    BY <1>8 DEF ResumeClarification, Interrupt
  <2>2. Lives(run.entry, "resume_clarification", s, "resolve_clarification_turn",
              [t EXCEPT !.clarification_response = run.resume])
    BY <1>1, <2>1, InterruptLives
  <2> QED  BY <1>3, <2>1, <2>2
<1>9. CASE PrepareRelationClarification
  <2>1. /\ graph.at = "prepare_relation_clarification"
        /\ Node("prepare_relation_clarification", s, "pause_clarification")
    BY <1>9 DEF PrepareRelationClarification, Node
  <2>2. Lives(run.entry, "prepare_relation_clarification", s, "pause_clarification", s)
    BY <1>1, <2>1, ReplyLives
  <2> QED  BY <1>2, <2>1, <2>2 DEF Interrupts
<1>10. CASE PauseClarification
  <2> DEFINE t == [s EXCEPT !.clarification_frame.status = "waiting"]
  <2>1. graph.at = "pause_clarification" /\ Interrupt("pause_clarification", t)
    BY <1>10 DEF PauseClarification, Interrupt
  <2>2. Lives(run.entry, "pause_clarification", s, "resolve_clarification_turn",
              [t EXCEPT !.clarification_response = run.resume])
    BY <1>1, <2>1, InterruptLives
  <2> QED  BY <1>3, <2>1, <2>2
<1> QED  BY <1>4, <1>5, <1>6, <1>7, <1>8, <1>9, <1>10 DEF Clarification

\* The service numbers the message of a run after all that are there.
LEMMA ServiceLives ==
    ASSUME GraphInv, ThreadInv, LifeInv, (\E c \in Client : StreamMessage(c)) \/ FinalizeStreamResponse
    PROVE  LifeInv' /\ [Life!Next]_(Life!life)
<1> DEFINE s == graph.s
           frame == s.clarification_frame
<1>1. /\ IsState(s) /\ graph = [at |-> graph.at, s |-> s]
      /\ Named(s) /\ Placed(graph.at, s)
      /\ frame.frame_id <= Len(thread.messages) /\ frame.frame_id \in Nat
  BY DEF GraphInv, Good, LifeInv, Numbered, Named
<1>2. PICK S : thread.messages \in Seq(S)
  BY DEF LifeInv, Numbered
<1>3. CASE \E c \in Client : StreamMessage(c)
  <2> DEFINE given(context) == [s EXCEPT !.conversation_context = context]
             asked(context, m) == [given(context) EXCEPT !.request = m, !.clarification_round = 0]
  <2> PICK c \in Client : StreamMessage(c)
    BY <1>3
  <2> DEFINE entry == Len(thread.messages) + 1
             m == client[c].message
             resume == IF client[c].resume_checkpoint THEN m ELSE None
             e == [id |-> entry, role |-> "user", message |-> m]
             context == Assemble([thread EXCEPT !.messages = Append(@, e)], entry)
  <2>1. /\ thread' = [thread EXCEPT !.messages = Append(@, e)]
        /\ run' = [client |-> c, entry |-> entry, resume |-> resume]
        /\ \/ graph' = [graph EXCEPT !.s = given(context)]
           \/ graph' = [at |-> "ingest_request", s |-> asked(context, m)]
    BY DEF StreamMessage
  <2> HIDE DEF m, resume, e, context
  <2>2. PICK at, t : /\ graph' = [at |-> at, s |-> t]
                     /\ t.clarification_frame = frame
                     /\ Named(t) /\ Placed(at, t)
    <3>1. /\ given(context).clarification_frame = frame
          /\ given(context).clarification_round = s.clarification_round
          /\ asked(context, m).clarification_frame = frame
          /\ asked(context, m).clarification_round = 0
      BY <1>1, FieldNames DEF IsState
    <3> HIDE DEF given, asked
    <3>2. CASE graph' = [graph EXCEPT !.s = given(context)]
      <4>1. graph' = [at |-> graph.at, s |-> given(context)]
        BY <1>1, <3>2
      <4>2. Named(given(context)) /\ Placed(graph.at, given(context))
        BY <1>1, <3>1 DEF Named, Placed
      <4> QED  BY <3>1, <4>1, <4>2
    <3>3. CASE graph' = [at |-> "ingest_request", s |-> asked(context, m)]
      <4>1. Named(asked(context, m)) /\ Placed("ingest_request", asked(context, m))
        BY <1>1, <3>1 DEF Named, Placed, Asking, Interrupting
      <4> QED  BY <3>1, <3>3, <4>1
    <3> QED  BY <2>1, <3>2, <3>3
  <2>3. thread'.messages = Append(thread.messages, e)
    BY <2>1 DEF ThreadInv
  <2>4. /\ \E R : thread'.messages \in Seq(R)
        /\ Len(thread.messages) \in Nat /\ Len(thread'.messages) = Len(thread.messages) + 1
    BY <1>2, <2>3, Appended
  <2>5. Numbered'
    BY <1>1, <2>1, <2>2, <2>4 DEF Numbered
  <2>6. LifeInv'
    BY <2>2, <2>5 DEF LifeInv
  <2> QED  BY <2>2, <2>6 DEF Life!life
<1>4. CASE FinalizeStreamResponse
  <2>1. PICK waiting, e, active :
          thread' = [waiting |-> waiting, messages |-> Append(thread.messages, e), active_context |-> active]
    BY <1>4 DEF FinalizeStreamResponse
  <2>2. /\ \E R : thread'.messages \in Seq(R)
        /\ Len(thread.messages) \in Nat /\ Len(thread'.messages) = Len(thread.messages) + 1
    BY <1>2, <2>1, Appended
  <2>3. UNCHANGED graph /\ run' = NoRun
    BY <1>4 DEF FinalizeStreamResponse
  <2>4. Numbered'
    BY <1>1, <2>2, <2>3 DEF Numbered, NoRun, Running
  <2>5. LifeInv'
    BY <1>1, <2>3, <2>4 DEF LifeInv
  <2> QED  BY <2>3, <2>5 DEF Life!life
<1> QED  BY <1>3, <1>4

\* A new thread has no frame.
LEMMA InitLives == ASSUME Init PROVE LifeInv /\ Life!Init
<1>1. graph.s = NoState /\ graph.at = "end" /\ thread.messages = <<>> /\ run = NoRun
  BY DEF Init
<1>2. NoState.clarification_frame = NoFrame /\ NoState.clarification_round = 0
  BY DEF NoState
<1>3. Named(NoState) /\ Placed("end", NoState)
  BY <1>2 DEF Named, Placed, NoFrame, Asking, Interrupting
<1>4. Numbered
  <2>1. thread.messages \in Seq({}) /\ Len(thread.messages) = 0
    BY <1>1
  <2> QED  BY <1>1, <1>2, <2>1 DEF Numbered, Running, NoRun, NoFrame
<1>5. Life!Init
  BY <1>1, <1>2 DEF Life!Init, NoFrame
<1> QED  BY <1>1, <1>3, <1>4, <1>5 DEF LifeInv

\* Every step is one of the frame's life or leaves it alone.
LEMMA EveryStepLives == GraphInv /\ ThreadInv /\ LifeInv /\ [Next]_vars => LifeInv' /\ [Life!Next]_(Life!life)
<1> SUFFICES ASSUME GraphInv, ThreadInv, LifeInv, [Next]_vars PROVE LifeInv' /\ [Life!Next]_(Life!life)
  OBVIOUS
<1>1. CASE UNCHANGED <<thread, graph, run>>
  BY <1>1 DEF LifeInv, Numbered, Running, Life!life
<1>2. CASE \E c \in Client : PrepareMessage(c) \/ StreamMessage(c)
  BY <1>1, <1>2, ServiceLives DEF PrepareMessage
<1>3. CASE Step
  BY <1>3, ServiceLives, NamingLives, ClarificationLives, PlainMoves, PlainLives DEF Step
<1>4. CASE Fail
  <2>1. UNCHANGED <<thread, graph>> /\ run' = NoRun
    BY <1>4 DEF Fail
  <2>2. Numbered'
    BY <2>1 DEF LifeInv, Numbered, Running, NoRun
  <2> QED  BY <2>1, <2>2 DEF LifeInv, Life!life
<1>5. CASE Rest \/ UNCHANGED vars
  BY <1>1, <1>5 DEF Rest, vars
<1> QED  BY <1>2, <1>3, <1>4, <1>5 DEF Next

-----------------------------------------------------------------------------
(* Theorem of the frames *)

\* Through answers, interruptions, failures and resumptions a frame is asked at most
\* MaxRounds times, pauses and waits again, and once closed is never asked again.
THEOREM FramesAlwaysKeepTheirLife == Spec => FramesKeepTheirLife
<1>1. Init => ThreadInv
  BY ThreadStarts
<1>2. ThreadInv /\ GraphInv /\ [Next]_vars => ThreadInv'
  BY ThreadKept, ThreadFinalized
<1> QED  BY <1>1, <1>2, InitLives, EveryStepLives, GraphIsGood, PTL DEF Spec, FramesKeepTheirLife, Life!Spec

-----------------------------------------------------------------------------
(* What is planned and read, and what the results are *)

\* A frame has the understanding that its answers are merged into.
Based(frame) == frame.status # "absent" => "base" \in DOMAIN frame /\ IsRead(frame.base)

\* The nodes that read a new request, and those at which the results stand.
Reading == {"ingest_request", "authorize_scope", "classify_and_extract"}
Resulted == {"audit", "end"}

\* What is understood has tasks, what is planned decides on each of them, and what is
\* read are messages; at the end the results are those of the plan.
Tasked(at, s) ==
    /\ IsRead(s.understanding)
    /\ Follows(s.route_plan.task_decisions, Tasks(s))
    /\ Based(s.clarification_frame)
    /\ at \in Reading => s.request \in Message
    /\ at = "resolve_clarification_turn" => s.clarification_response \in Message
    /\ at \in Resulted => s.task_results = TaskResults(s)

\* What clients send, and what a run resumes with, are messages.
Sent ==
    /\ run.resume \in Message \cup {None}
    /\ \A c \in Client : client[c].pc = "prepared" => client[c].message \in Message

\* The inductive invariant, with GraphInv and LifeInv.
ResultInv == Tasked(graph.at, graph.s) /\ Sent

-----------------------------------------------------------------------------
(* What a node makes of the tasks *)

\* Whatever is understood is planned task by task.
LEMMA ClassifiedTasks ==
    ASSUME NEW s, IsState(s), NEW u, IsRead(u), NEW request
    PROVE  LET t == ClassificationUpdate(s, u, request) IN
           /\ IsState(t) /\ t.clarification_frame = s.clarification_frame
           /\ IsRead(t.understanding) /\ Follows(t.route_plan.task_decisions, Tasks(t))
<1> DEFINE plan == Decide(u, Scope, s.conversation_context, Said[request])
           t == ClassificationUpdate(s, u, request)
<1>1. t = WithPlan(s, u, plan)
  BY DEF ClassificationUpdate
<1>2. Follows(plan.task_decisions, u.task_items)
  BY PlanFollows DEF IsRead
<1> HIDE DEF t, plan
<1>3. IsState(t) /\ t.clarification_frame = s.clarification_frame /\ t.understanding = u /\ t.route_plan = plan
  BY <1>1, PlanIsSet
<1> QED  BY <1>2, <1>3 DEF Tasks, t

\* A step that plans nothing new, to a node that neither reads a message nor has results.
LEMMA KeptTasked ==
    ASSUME NEW at, NEW s, Tasked(at, s), NEW t, Keeps(s, t), Based(t.clarification_frame),
           NEW next, next \notin Reading \cup Resulted \cup {"resolve_clarification_turn"}
    PROVE  Tasked(next, t)
BY DEF Tasked, Keeps, Tasks

\* A request that is read.
LEMMA MessageIsRead ==
    ASSUME NEW m \in Message, NEW context, NEW raw \in RawUnderstandings(Raws(m)), NEW pending
    PROVE  IsRead(Understand(Said[m], context, raw, pending))
<1>1. raw = None \/ raw \in Raws(m)
  BY DEF RawUnderstandings, Repaired, Calls
<1>2. raw = None \/ IsRawTasks(raw.task_items)
  BY <1>1, RawsAssumption DEF IsRawTasks, IsRawUnderstanding, IsRawTask
<1> QED  BY <1>2, UnderstoodIsRead

\* A new request has no tasks yet.
LEMMA IngestIsTasked ==
    ASSUME NEW s, IsState(s), s.request \in Message
    PROVE  Tasked("authorize_scope", IngestRequest(s))
<1> DEFINE t == IngestRequest(s)
<1>1. /\ t.clarification_frame = NoFrame /\ t.understanding = NoUnderstanding /\ t.route_plan = NoPlan
      /\ t.request = s.request
  BY Ingested, NewState, FieldNames DEF IngestRequest, IsState
<1> HIDE DEF t
<1>2. IsRead(NoUnderstanding) /\ Follows(NoPlan.task_decisions, NoUnderstanding.task_items) /\ Based(NoFrame)
  BY DEF IsRead, IsTasks, IsShort, NoUnderstanding, Follows, NoPlan, Plan, Based, NoFrame
<1> QED  BY <1>1, <1>2 DEF Tasked, Tasks, Reading, Resulted, t

\* A request that is understood.
LEMMA ClassifyIsTasked ==
    ASSUME NEW s, IsState(s), Tasked("classify_and_extract", s), NEW u, IsRead(u)
    PROVE  Tasked("validate_required_fields", ClassificationUpdate(s, u, s.request))
BY ClassifiedTasks DEF Tasked, Reading, Resulted

\* A frame that is opened holds what was understood.
LEMMA ValidateIsTasked ==
    ASSUME NEW s, IsState(s), Tasked("validate_required_fields", s)
    PROVE  LET t == ValidatedFields(s) IN Tasked(RouteAfterValidation(t), t)
<1> DEFINE old == s.clarification_frame
           frame == BuildClarificationFrame(run.entry, s.request, s.understanding, s.route_plan,
                                            s.route_plan.missing_slots, old)
           t == ValidatedFields(s)
<1>1. t = WithFrame(s, frame)
  BY DEF ValidatedFields
<1>2. /\ {"status", "base"} \subseteq DOMAIN frame
      /\ frame.base = IF IsOpen(old) THEN old.base ELSE s.understanding
  BY DEF BuildClarificationFrame
<1> HIDE DEF frame, t
<1>3. /\ Keeps(s, t)
      /\ t.clarification_frame = (IF Asks(s.route_plan) THEN frame ELSE old)
  BY <1>1, <1>2, FrameIsSet
<1>4. Based(old) /\ IsRead(s.understanding)
  BY DEF Tasked
<1>5. Based(frame)
  BY <1>2, <1>4 DEF Based, IsOpen
<1>6. RouteAfterValidation(t) \in {"refuse_request", "direct_answer", "execute_combination_prelude",
                                   "insufficient_information", "prepare_clarification_reply"}
  BY DEF RouteAfterValidation
<1> QED  BY <1>3, <1>4, <1>5, <1>6, KeptTasked DEF Reading, Resulted, t

\* Where an answer leads to.
LEMMA Resolutions ==
    ASSUME NEW t, \/ t.clarification_resume_only = TRUE
                  \/ t.clarification_resume_only = FALSE /\ t.clarification_relation \in ClarificationTurnRelation
    PROVE  RouteAfterResolution(t) \notin Reading \cup Resulted \cup {"resolve_clarification_turn"}
BY DEF RouteAfterResolution, ClarificationTurnRelation, Reading, Resulted

\* A question that is repeated plans nothing new.
LEMMA ResumeIsTasked ==
    ASSUME NEW s, IsState(s), Tasked("resolve_clarification_turn", s), s.clarification_frame.status = "waiting"
    PROVE  LET t == ResumeOnly(s) IN Tasked(RouteAfterResolution(t), t)
<1> DEFINE frame == [s.clarification_frame EXCEPT !.status = "waiting"]
           t == ResumeOnly(s)
<1>1. Based(frame) /\ "status" \in DOMAIN frame
  BY DEF Tasked, Based, IsState
<1>2. t.clarification_frame = frame /\ t.clarification_resume_only = TRUE /\ Keeps(s, t)
  BY <1>1, FieldNames DEF ResumeOnly, IsState, Keeps
<1> HIDE DEF t
<1> QED  BY <1>1, <1>2, Resolutions, KeptTasked DEF t

\* Neither does a message that may be either.
LEMMA AmbiguousIsTasked ==
    ASSUME NEW s, IsState(s), Tasked("resolve_clarification_turn", s), s.clarification_frame.status = "waiting"
    PROVE  LET t == Ambiguous(s) IN Tasked(RouteAfterResolution(t), t)
<1> DEFINE frame == TerminalTransition(s.clarification_frame, "ambiguous")
           t == Ambiguous(s)
<1>1. Based(frame) /\ "status" \in DOMAIN frame
  BY DEF Tasked, Based, TerminalTransition, IsState
<1>2. t.clarification_frame = frame /\ t.clarification_resume_only = FALSE /\ t.clarification_relation = "ambiguous"
      /\ Keeps(s, t)
  <2>1. t = [s EXCEPT !.clarification_frame = frame, !.clarification_relation = "ambiguous",
                      !.clarification_resume_only = FALSE,
                      !.missing_required_fields = s.clarification_frame.pending,
                      !.clarification_round = s.clarification_frame.round]
    BY FieldNames DEF Ambiguous, IsState
  <2> HIDE DEF t, frame
  <2> QED  BY <1>1, <2>1, FieldNames DEF IsState, Keeps
<1> HIDE DEF t
<1> QED  BY <1>1, <1>2, Resolutions, KeptTasked DEF t, ClarificationTurnRelation

\* An answer is merged into what the frame holds, and planned anew.
LEMMA ContinuedIsTasked ==
    ASSUME NEW s, IsState(s), Tasked("resolve_clarification_turn", s), s.clarification_frame.status = "waiting",
           NEW u, IsRead(u)
    PROVE  LET t == ContinueCurrent(s, u) IN Tasked(RouteAfterResolution(t), t)
<1> DEFINE old == s.clarification_frame
           merged == MergeContinuation(old, u)
           c == ClassificationUpdate(s, merged, old.request)
           pending == StillPending(old, c.route_plan)
           frame == UpdateAfterAnswer(old, c.understanding, pending)
           t == Continued(c, old, pending)
<1>1. ContinueCurrent(s, u) = t
  BY DEF ContinueCurrent
<1>2. "base" \in DOMAIN old /\ IsRead(old.base) /\ "status" \in DOMAIN old
  BY DEF Tasked, Based, IsState
<1>3. IsRead(merged)
  BY <1>2 DEF MergeContinuation, IsRead
<1> HIDE DEF merged
<1>4. IsState(c) /\ IsRead(c.understanding) /\ Follows(c.route_plan.task_decisions, Tasks(c))
  BY <1>3, ClassifiedTasks
<1> HIDE DEF c, pending
<1>5. Based(frame) /\ "status" \in DOMAIN frame
  BY <1>2, <1>4 DEF UpdateAfterAnswer, Based
<1>6. t = [c EXCEPT !.request = old.request, !.clarification_frame = frame,
                    !.clarification_relation = "continue_current", !.clarification_resume_only = FALSE,
                    !.missing_required_fields = pending, !.clarification_round = old.round]
  BY DEF Continued
<1> HIDE DEF frame, t
<1>7. /\ t.clarification_frame = frame /\ t.understanding = c.understanding /\ t.route_plan = c.route_plan
      /\ t.clarification_relation = "continue_current" /\ t.clarification_resume_only = FALSE
  BY <1>4, <1>6, FieldNames DEF IsState
<1>8. RouteAfterResolution(t) \notin Reading \cup Resulted \cup {"resolve_clarification_turn"}
  BY <1>7, Resolutions DEF ClarificationTurnRelation
<1> QED  BY <1>1, <1>4, <1>5, <1>7, <1>8 DEF Tasked, Tasks

\* A request of its own is planned beside the frame or in its place.
LEMMA TakenUpIsTasked ==
    ASSUME NEW s, IsState(s), Tasked("resolve_clarification_turn", s), s.clarification_frame.status = "waiting",
           NEW u, IsRead(u),
           NEW relation \in {"replace_with_new_request", "cancel_current", "side_conversation"}
    PROVE  LET t == TakeUp(s, u, relation) IN Tasked(RouteAfterResolution(t), t)
<1> DEFINE old == s.clarification_frame
           reset == ResetTaskState(s, s.clarification_response)
           understood == [u EXCEPT !.clarification_relation = relation,
                                   !.interaction_mode = IF relation # "replace_with_new_request" THEN @
                                                        ELSE IF u.primary_intent = "conversation"
                                                        THEN "conversation" ELSE "task",
                                   !.cancel_scope = IF relation = "cancel_current" THEN "clarification" ELSE @]
           c == ClassificationUpdate(reset, understood, s.clarification_response)
           frame == TerminalTransition(old, relation)
           t == TakenUp(c, frame, relation)
<1>1. TakeUp(s, u, relation) = t
  BY DEF TakeUp
<1>2. IsState(reset) /\ reset.clarification_resume_only = FALSE
  BY WasReset, ZenonT(60)
<1>3. IsRead(understood)
  BY DEF IsRead
<1> HIDE DEF reset, understood
<1>4. /\ IsState(c) /\ IsRead(c.understanding) /\ Follows(c.route_plan.task_decisions, Tasks(c))
      /\ c.clarification_resume_only = FALSE
  BY <1>2, <1>3, ClassifiedTasks, Classified
<1> HIDE DEF c
<1>5. Based(frame) /\ "status" \in DOMAIN frame
  BY DEF TerminalTransition, Tasked, Based, IsState
<1> HIDE DEF frame
<1>6. /\ t.clarification_frame = frame /\ t.understanding = c.understanding /\ t.route_plan = c.route_plan
      /\ t.clarification_relation = relation /\ t.clarification_resume_only = FALSE
  <2> DEFINE missing == IF relation = "replace_with_new_request" THEN c.missing_required_fields ELSE frame.pending
             round == IF relation = "side_conversation" THEN frame.round ELSE 0
  <2>1. t = [c EXCEPT !.clarification_frame = frame, !.clarification_relation = relation,
                      !.missing_required_fields = missing, !.clarification_round = round]
    BY DEF TakenUp
  <2> HIDE DEF missing, round, t
  <2> QED  BY <1>4, <2>1, FieldNames DEF IsState
<1> HIDE DEF t
<1>7. RouteAfterResolution(t) \notin Reading \cup Resulted \cup {"resolve_clarification_turn"}
  BY <1>6, Resolutions DEF ClarificationTurnRelation
<1> QED  BY <1>1, <1>4, <1>5, <1>6, <1>7 DEF Tasked, Tasks

\* Whatever is understood of the answer.
LEMMA ResolveIsTasked ==
    ASSUME NEW s, IsState(s), Tasked("resolve_clarification_turn", s), s.clarification_frame.status = "waiting",
           NEW u, IsRead(u)
    PROVE  LET t == Resolved(s, u) IN Tasked(RouteAfterResolution(t), t)
<1> DEFINE relation == DecideTurnRelation(s.clarification_frame, Said[s.clarification_response], u)
           t == ResolvedAs(relation, s, u)
<1>1. Resolved(s, u) = t
  BY DEF Resolved
<1>2. relation \in {"replace_with_new_request", "cancel_current", "ambiguous", "continue_current", "resume",
                    "side_conversation"}
  BY Relations
<1> HIDE DEF relation
<1>3. t \in {ResumeOnly(s), Ambiguous(s), ContinueCurrent(s, u)}
        \cup {TakeUp(s, u, r) : r \in {"replace_with_new_request", "cancel_current", "side_conversation"}}
  BY <1>2 DEF ResolvedAs
<1> HIDE DEF t
<1> QED  BY <1>1, <1>3, ResumeIsTasked, AmbiguousIsTasked, ContinuedIsTasked, TakenUpIsTasked

-----------------------------------------------------------------------------
(* Every step keeps the results in step with the plan *)

\* A node that is left for the next keeps what was sent.
LEMMA TaskedMoves ==
    ASSUME LifeInv, ResultInv, NEW t, NEW next, graph' = [at |-> next, s |-> t], run' = Answered, UNCHANGED client,
           Tasked(next, t)
    PROVE  ResultInv'
<1>1. graph'.at = next /\ graph'.s = t
  OBVIOUS
<1>2. run'.resume = None
  BY DEF LifeInv, Numbered, Answered
<1>3. Tasked(graph.at, graph.s)'
  BY <1>1
<1> QED  BY <1>2, <1>3 DEF ResultInv, Sent

\* The nodes that consult, that answer, and that end a turn.
LEMMA PlainIsTasked ==
    ASSUME LifeInv, ResultInv, \E at, t, next : PlainMove(at, t, next)
    PROVE  ResultInv'
<1>1. PICK at, t, next : PlainMove(at, t, next)
  OBVIOUS
<1>2. Tasked(at, graph.s)
  BY <1>1 DEF ResultInv, PlainMove, Node
<1>3. Keeps(graph.s, t) /\ t.request = graph.s.request /\ t.clarification_frame = graph.s.clarification_frame
  BY <1>1 DEF PlainMove, Same
<1>4. next # "resolve_clarification_turn" /\ (next \in Reading => at \in Reading)
  BY <1>1 DEF PlainMove, Placing, Reading, Naming
<1>5. next \in Resulted => t.task_results = TaskResults(t)
  BY <1>1, <1>2 DEF PlainMove, Resulted, Tasked
<1>6. Tasked(next, t)
  BY <1>2, <1>3, <1>4, <1>5 DEF Tasked, Keeps, Tasks
<1> QED  BY <1>1, <1>6, TaskedMoves DEF PlainMove, Node

\* The nodes that read a message.
LEMMA ReadingIsTasked ==
    ASSUME GraphInv, LifeInv, ResultInv,
           Ingest \/ ClassifyAndExtract \/ ValidateRequiredFields \/ ResolveClarificationTurn
    PROVE  ResultInv'
<1> DEFINE s == graph.s
<1>1. IsState(s) /\ Tasked(graph.at, s) /\ Placed(graph.at, s)
  BY DEF GraphInv, Good, LifeInv, ResultInv
<1>2. ASSUME NEW at, NEW t, NEW next, Node(at, t, next), Tasked(next, t)
      PROVE  ResultInv'
  BY <1>2, TaskedMoves DEF Node
<1>3. CASE Ingest
  <2>1. s.request \in Message
    BY <1>1, <1>3 DEF Ingest, Node, Tasked, Reading
  <2>2. Tasked("authorize_scope", IngestRequest(s))
    BY <1>1, <2>1, IngestIsTasked
  <2> QED  BY <1>2, <1>3, <2>2 DEF Ingest
<1>4. CASE ClassifyAndExtract
  <2>1. graph.at = "classify_and_extract" /\ s.request \in Message
    BY <1>1, <1>4 DEF ClassifyAndExtract, Tasked, Reading
  <2>2. PICK raw \in RawUnderstandings(Raws(s.request)) :
               Node("classify_and_extract",
                    ClassificationUpdate(s, Understand(Said[s.request], s.conversation_context, raw, FALSE), s.request),
                    "validate_required_fields")
    BY <1>4 DEF ClassifyAndExtract
  <2> DEFINE u == Understand(Said[s.request], s.conversation_context, raw, FALSE)
  <2>3. IsRead(u)
    BY <2>1, MessageIsRead
  <2> HIDE DEF u
  <2>4. Tasked("validate_required_fields", ClassificationUpdate(s, u, s.request))
    BY <1>1, <2>1, <2>3, ClassifyIsTasked
  <2> QED  BY <1>2, <2>2, <2>4 DEF u
<1>5. CASE ValidateRequiredFields
  <2> DEFINE t == ValidatedFields(s)
  <2>1. graph.at = "validate_required_fields" /\ Node("validate_required_fields", t, RouteAfterValidation(t))
    BY <1>5 DEF ValidateRequiredFields
  <2>2. Tasked(RouteAfterValidation(t), t)
    BY <1>1, <2>1, ValidateIsTasked
  <2> QED  BY <1>2, <2>1, <2>2
<1>6. CASE ResolveClarificationTurn
  <2> DEFINE response == s.clarification_response
  <2>1. graph.at = "resolve_clarification_turn" /\ response \in Message /\ s.clarification_frame.status = "waiting"
    BY <1>1, <1>6 DEF ResolveClarificationTurn, Tasked, Placed
  <2>2. PICK raw \in RawUnderstandings(Raws(response)) :
               LET t == Resolved(s, Understand(Said[response], s.conversation_context, raw, TRUE))
               IN  Node("resolve_clarification_turn", t, RouteAfterResolution(t))
    BY <1>6 DEF ResolveClarificationTurn
  <2> DEFINE u == Understand(Said[response], s.conversation_context, raw, TRUE)
             t == Resolved(s, u)
  <2>3. IsRead(u)
    BY <2>1, MessageIsRead
  <2>4. Node("resolve_clarification_turn", t, RouteAfterResolution(t))
    BY <2>2
  <2> HIDE DEF u
  <2>5. Tasked(RouteAfterResolution(t), t)
    BY <1>1, <2>1, <2>3, ResolveIsTasked
  <2> QED  BY <1>2, <2>4, <2>5
<1> QED  BY <1>3, <1>4, <1>5, <1>6

\* The nodes that ask, and those that wait for the answer.
LEMMA AskingIsTasked ==
    ASSUME GraphInv, LifeInv, ResultInv,
           \/ PrepareClarificationReply \/ AnswerSideConversation \/ PrepareRelationClarification
           \/ ClarifyMissingFields \/ ResumeClarification \/ PauseClarification
    PROVE  ResultInv'
<1> DEFINE s == graph.s
           old == s.clarification_frame
           waiting == [old EXCEPT !.status = "waiting"]
<1>1. IsState(s) /\ Tasked(graph.at, s)
  BY DEF GraphInv, Good, ResultInv
<1>2. Based(old) /\ "status" \in DOMAIN old
  BY <1>1 DEF Tasked, IsState
<1>3. CASE PrepareClarificationReply \/ AnswerSideConversation \/ PrepareRelationClarification
  <2>1. PICK at, t, next :
               /\ Node(at, t, next) /\ next \in {"clarify_missing_fields", "pause_clarification"}
               /\ \/ t = s
                  \/ \E results : t = [s EXCEPT !.task_results = results]
                  \/ t = [s EXCEPT !.answer = {}, !.citations = {}, !.status = "completed"]
    BY <1>3 DEF PrepareClarificationReply, AnswerSideConversation, DirectlyAnswered, PrepareRelationClarification
  <2>2. Keeps(s, t) /\ t.clarification_frame = old
    BY <1>1, <2>1, FieldNames DEF IsState, Keeps
  <2>3. Tasked(next, t)
    BY <1>1, <1>2, <2>1, <2>2, KeptTasked DEF Reading, Resulted
  <2> QED  BY <2>1, <2>3, TaskedMoves DEF Node
<1>4. CASE ClarifyMissingFields \/ ResumeClarification \/ PauseClarification
  <2>1. run.resume \in Message
    BY <1>4 DEF ClarifyMissingFields, ResumeClarification, PauseClarification, Interrupt, ResultInv, Sent
  <2>2. ASSUME NEW at, NEW t, Interrupt(at, t), IsState(t), Keeps(s, t), Based(t.clarification_frame)
        PROVE  ResultInv'
    <3> DEFINE r == [t EXCEPT !.clarification_response = run.resume]
    <3>1. Keeps(s, r) /\ r.clarification_frame = t.clarification_frame /\ r.clarification_response = run.resume
      BY <2>2, FieldNames DEF IsState, Keeps
    <3>2. /\ graph' = [at |-> "resolve_clarification_turn", s |-> r] /\ run' = Answered /\ UNCHANGED client
      BY <2>2 DEF Interrupt
    <3> HIDE DEF r
    <3>3. Tasked("resolve_clarification_turn", r)
      BY <1>1, <2>1, <2>2, <3>1 DEF Tasked, Keeps, Tasks, Reading, Resulted
    <3> QED  BY <3>2, <3>3, TaskedMoves
  <2>3. CASE ClarifyMissingFields
    <3> DEFINE asked == old.round + 1
               frame == [[old EXCEPT !.round = asked] EXCEPT !.status = "waiting"]
               t == [s EXCEPT !.clarification_frame.round = asked, !.clarification_frame.status = "waiting",
                              !.clarification_round = asked]
    <3>1. Interrupt("clarify_missing_fields", t)
      BY <2>3 DEF ClarifyMissingFields
    <3>2. t = [s EXCEPT !.clarification_frame = frame, !.clarification_round = asked]
      BY <1>1, FieldNames DEF IsState
    <3>3. "status" \in DOMAIN frame /\ Based(frame)
      <4>1. old.status # "absent"
        BY <3>1 DEF Interrupt, LifeInv, Placed, Asking
      <4> QED  BY <1>2, <4>1 DEF Based
    <3> HIDE DEF frame, t
    <3>4. IsState(t) /\ Keeps(s, t) /\ t.clarification_frame = frame
      BY <1>1, <3>2, <3>3, FieldNames DEF IsState, Keeps
    <3> QED  BY <2>2, <3>1, <3>3, <3>4
  <2>4. CASE ResumeClarification
    <3> DEFINE t == [s EXCEPT !.clarification_resume_only = FALSE]
    <3>1. Interrupt("resume_clarification", t)
      BY <2>4 DEF ResumeClarification
    <3>2. IsState(t) /\ Keeps(s, t) /\ t.clarification_frame = old
      BY <1>1, FieldNames DEF IsState, Keeps
    <3> HIDE DEF t
    <3> QED  BY <1>2, <2>2, <3>1, <3>2
  <2>5. CASE PauseClarification
    <3> DEFINE t == [s EXCEPT !.clarification_frame.status = "waiting"]
    <3>1. Interrupt("pause_clarification", t)
      BY <2>5 DEF PauseClarification
    <3>2. t = [s EXCEPT !.clarification_frame = waiting]
      BY <1>1, FieldNames DEF IsState
    <3>3. "status" \in DOMAIN waiting /\ Based(waiting)
      <4>1. old.status # "absent"
        BY <3>1 DEF Interrupt, LifeInv, Placed, Interrupting
      <4> QED  BY <1>2, <4>1 DEF Based
    <3> HIDE DEF waiting, t
    <3>4. IsState(t) /\ Keeps(s, t) /\ t.clarification_frame = waiting
      BY <1>1, <3>2, <3>3, FieldNames DEF IsState, Keeps
    <3> QED  BY <2>2, <3>1, <3>3, <3>4
  <2> QED  BY <1>4, <2>3, <2>4, <2>5
<1> QED  BY <1>3, <1>4

\* The service starts a turn with a message, or goes on with one.
LEMMA StreamedIsTasked ==
    ASSUME GraphInv, ResultInv, NEW c \in Client, StreamMessage(c)
    PROVE  ResultInv'
<1> DEFINE s == graph.s
           m == client[c].message
           resume == IF client[c].resume_checkpoint THEN m ELSE None
           given(context) == [s EXCEPT !.conversation_context = context]
           asked(context) == [given(context) EXCEPT !.request = m, !.clarification_round = 0]
<1>1. /\ IsState(s) /\ graph = [at |-> graph.at, s |-> s] /\ Tasked(graph.at, s)
  BY DEF GraphInv, Good, ResultInv
<1>2. m \in Message
  BY DEF StreamMessage, ResultInv, Sent
<1>3. PICK context, entry :
        /\ run' = [client |-> c, entry |-> entry, resume |-> resume]
        /\ \/ graph' = [graph EXCEPT !.s = given(context)]
           \/ graph' = [at |-> "ingest_request", s |-> asked(context)]
  BY DEF StreamMessage
<1>4. client' = [client EXCEPT ![c] = Idle]
  BY DEF StreamMessage
<1>5. Sent'
  <2>1. run'.resume = resume
    BY <1>3
  <2>2. \A d \in Client : client'[d].pc = "prepared" => client'[d].message \in Message
    <3> SUFFICES ASSUME NEW d \in Client, client'[d].pc = "prepared" PROVE client'[d].message \in Message
      OBVIOUS
    <3>1. client'[d] = client[d] \/ client'[d] = Idle \/ client' = client
      BY <1>4
    <3> QED  BY <3>1 DEF Idle, ResultInv, Sent
  <2> QED  BY <1>2, <2>1, <2>2 DEF Sent
<1> HIDE DEF m, resume
<1>6. CASE graph' = [graph EXCEPT !.s = given(context)]
  <2> DEFINE t == given(context)
  <2>1. graph'.at = graph.at /\ graph'.s = t
    BY <1>1, <1>6
  <2>2. /\ t.understanding = s.understanding /\ t.route_plan = s.route_plan /\ t.request = s.request
        /\ t.clarification_frame = s.clarification_frame /\ t.clarification_response = s.clarification_response
        /\ t.task_results = s.task_results
        /\ t.route_decision = s.route_decision /\ t.evidence_ledger = s.evidence_ledger
        /\ t.citations = s.citations /\ t.authorization_errors = s.authorization_errors
    BY <1>1, FieldNames DEF IsState
  <2> HIDE DEF t
  <2>3. TaskResults(t) = TaskResults(s) /\ Tasks(t) = Tasks(s)
    BY <2>2 DEF TaskResults, Tasks
  <2>4. Tasked(graph.at, t)
    BY <1>1, <2>2, <2>3 DEF Tasked
  <2> QED  BY <1>5, <2>1, <2>4 DEF ResultInv
<1>7. CASE graph' = [at |-> "ingest_request", s |-> asked(context)]
  <2> DEFINE t == asked(context)
  <2>1. graph'.at = "ingest_request" /\ graph'.s = t
    BY <1>7
  <2>2. /\ t.understanding = s.understanding /\ t.route_plan = s.route_plan /\ t.request = m
        /\ t.clarification_frame = s.clarification_frame
    BY <1>1, FieldNames DEF IsState
  <2> HIDE DEF t
  <2>3. Tasked("ingest_request", t)
    BY <1>1, <1>2, <2>2 DEF Tasked, Tasks, Resulted
  <2> QED  BY <1>5, <2>1, <2>3 DEF ResultInv
<1> QED  BY <1>3, <1>6, <1>7

\* Nothing has been asked of a new thread.
LEMMA InitIsTasked == ASSUME Init PROVE ResultInv
<1>1. graph.s = NoState /\ graph.at = "end" /\ run = NoRun /\ client = [c \in Client |-> Idle]
  BY DEF Init
<1>2. /\ NoState.understanding = NoUnderstanding /\ NoState.route_plan = NoPlan
      /\ NoState.clarification_frame = NoFrame /\ NoState.task_results = <<>>
  BY DEF NoState
<1>3. IsRead(NoUnderstanding) /\ Follows(NoPlan.task_decisions, NoUnderstanding.task_items) /\ Based(NoFrame)
  BY DEF IsRead, IsTasks, IsShort, NoUnderstanding, Follows, NoPlan, Plan, Based, NoFrame
<1>4. TaskResults(NoState) = <<>>
  <2> DEFINE kept(d, earlier) ==
               Finalized(d, Needs(Tasks(NoState), d.task_id), Of(earlier), NoState.route_decision,
                         Cited(NoState.evidence_ledger, NoState.citations), NoState.authorization_errors)
             Steps(f) == [n \in 0 .. Len(<<>>) |-> IF n = 0 THEN <<>> ELSE Append(f[n - 1], kept(<<>>[n], f[n - 1]))]
             chosen == CHOOSE f : f = Steps(f)
  <2>1. NoPlan.task_decisions = <<>>
    BY DEF NoPlan, Plan
  <2>2. TaskResults(NoState) = chosen[Len(<<>>)]
    BY <1>2, <2>1 DEF TaskResults, Finalize
  <2>3. Len(<<>>) = 0
    OBVIOUS
  <2> HIDE DEF kept
  <2>4. \E f : f = Steps(f)
    <3> DEFINE g == [n \in 0 .. 0 |-> <<>>]
    <3>1. g = Steps(g)
      BY <2>3
    <3> QED  BY <3>1
  <2>5. chosen = Steps(chosen)
    BY <2>4
  <2> QED  BY <2>2, <2>3, <2>5
<1>5. Tasked("end", NoState)
  BY <1>2, <1>3, <1>4 DEF Tasked, Tasks, Reading
<1>6. Sent
  BY <1>1 DEF Sent, NoRun, Idle
<1> QED  BY <1>1, <1>5, <1>6 DEF ResultInv

\* Every step keeps the results in step with the plan.
LEMMA EveryStepIsTasked == GraphInv /\ LifeInv /\ ResultInv /\ [Next]_vars => ResultInv'
<1> SUFFICES ASSUME GraphInv, LifeInv, ResultInv, [Next]_vars PROVE ResultInv'
  OBVIOUS
<1>1. CASE \E c \in Client : PrepareMessage(c) \/ StreamMessage(c)
  <2>1. PICK c \in Client : PrepareMessage(c) \/ StreamMessage(c)
    BY <1>1
  <2>2. CASE PrepareMessage(c)
    <3>1. UNCHANGED <<graph, run>>
      BY <2>2 DEF PrepareMessage
    <3>2. PICK m \in Message :
            client' = [client EXCEPT ![c] = [pc |-> "prepared", message |-> m, resume_checkpoint |-> thread.waiting]]
      BY <2>2 DEF PrepareMessage
    <3>3. \A d \in Client : client'[d].pc = "prepared" => client'[d].message \in Message
      BY <3>2 DEF ResultInv, Sent
    <3> QED  BY <3>1, <3>3 DEF ResultInv, Sent
  <2> QED  BY <2>1, <2>2, StreamedIsTasked
<1>2. CASE Step
  <2>1. CASE FinalizeStreamResponse
    <3>1. UNCHANGED <<graph, client>> /\ run' = NoRun
      BY <2>1 DEF FinalizeStreamResponse
    <3> QED  BY <3>1 DEF ResultInv, Sent, NoRun
  <2> QED  BY <1>2, <2>1, PlainMoves, PlainIsTasked, ReadingIsTasked, AskingIsTasked DEF Step, Clarification
<1>3. CASE Fail
  <2>1. UNCHANGED <<graph, client>> /\ run' = NoRun
    BY <1>3 DEF Fail
  <2> QED  BY <2>1 DEF ResultInv, Sent, NoRun
<1>4. CASE Rest \/ UNCHANGED vars
  <2>1. UNCHANGED <<graph, run, client>>
    BY <1>4 DEF Rest, vars
  <2> QED  BY <2>1 DEF ResultInv, Sent
<1> QED  BY <1>1, <1>2, <1>3, <1>4 DEF Next

\* So they are in every state.
LEMMA ResultsFollow == Spec => [](GraphInv /\ ResultInv)
<1>1. Init => ThreadInv
  BY ThreadStarts
<1>2. ThreadInv /\ GraphInv /\ [Next]_vars => ThreadInv'
  BY ThreadKept, ThreadFinalized
<1>3. Init => LifeInv
  BY InitLives
<1>4. GraphInv /\ ThreadInv /\ LifeInv /\ [Next]_vars => LifeInv'
  BY EveryStepLives
<1>5. Init => ResultInv
  BY InitIsTasked
<1> QED  BY <1>1, <1>2, <1>3, <1>4, <1>5, EveryStepIsTasked, GraphIsGood, PTL DEF Spec

\* What the results at the end of a turn are.
LEMMA EndResults ==
    ASSUME GraphInv, ResultInv, graph.at = "end"
    PROVE  WritesAreRefused /\ ResultsAreEarned
<1> DEFINE s == graph.s
<1>1. None \notin Carried
  BY NoneAssumption DEF AgentRoute, Carried
<1>2. /\ IsTasks(Tasks(s)) /\ Follows(s.route_plan.task_decisions, Tasks(s))
      /\ s.task_results = Finalize(s.route_plan, Tasks(s), s.route_decision, s.evidence_ledger, s.citations,
                                   s.authorization_errors)
  BY DEF ResultInv, Tasked, Resulted, IsRead, TaskResults, Tasks
<1>3. \A i \in DOMAIN Tasks(s) :
        IsForbiddenMutation(Tasks(s)[i]) => s.route_plan.task_decisions[i].decision = "refuse"
  BY DEF GraphInv, Good, PlanFits
<1>4. \A i \in 1 .. Len(Tasks(s)) : i \in DOMAIN Tasks(s)
  BY <1>2, ShortLength DEF IsTasks, IsShort
<1>5. /\ Len(s.task_results) = Len(Tasks(s))
      /\ \A i \in 1 .. Len(Tasks(s)) :
           s.route_plan.task_decisions[i].decision = "refuse" => s.task_results[i].status = "refused"
      /\ \A r \in {r \in Of(s.task_results) : r.status = "completed" /\ r.route # "chat_direct"} :
           LET task == CHOOSE t \in Of(Tasks(s)) : t.task_id = r.task_id
               cited == Cited(s.evidence_ledger, s.citations)
           IN  /\ cited # {}
               /\ r.route = "rag_and_tool" => {"internal", "live"} \subseteq cited
               /\ \A d \in Of(s.task_results) : d.task_id \in task.depends_on => d.status = "completed"
  BY <1>1, <1>2, ResultsAre
<1> QED  BY <1>3, <1>4, <1>5 DEF WritesAreRefused, ResultsAreEarned

-----------------------------------------------------------------------------
(* Theorems of the results *)

\* At the end of a turn every task has its result, and one that would write to a
\* recipe is refused whatever the model says of it (finalize_task_results).
THEOREM WritesAlwaysRefused == Spec => []WritesAreRefused
<1>1. GraphInv /\ ResultInv => WritesAreRefused
  BY EndResults DEF WritesAreRefused
<1> QED  BY <1>1, ResultsFollow, PTL

\* A completed task rests on verified citations: an investigation on a document and on
\* live data, and on tasks that are completed themselves.
THEOREM ResultsAlwaysEarned == Spec => []ResultsAreEarned
<1>1. GraphInv /\ ResultInv => ResultsAreEarned
  BY EndResults DEF ResultsAreEarned
<1> QED  BY <1>1, ResultsFollow, PTL

-----------------------------------------------------------------------------
(* What is still to be asked *)

\* The keys that an understanding leaves open.
Unanswered(u) == (DOMAIN AnswersTo \cup {"history_reference"}) \ AnsweredKeys(u)

\* An understanding tells what is given and what it refers to.
Tells(u) == {"explicit_slots", "inherited_slots", "context_message_ids"} \subseteq DOMAIN u

\* What is planned asks for open keys alone.  So does an open frame, except while the answer
\* that was merged into it waits for the validation: then its base is what is understood.
Remaining(at, s) ==
    LET frame == s.clarification_frame
    IN  /\ s.route_plan.missing_slots \in Seq(Unanswered(s.understanding))
        /\ at = "validate_required_fields" => Tells(s.understanding)
        /\ IsOpen(frame) =>
             /\ {"base", "pending"} \subseteq DOMAIN frame /\ Tells(frame.base)
             /\ at = "validate_required_fields" => frame.base = s.understanding
             /\ at \notin {"validate_required_fields", "ingest_request"} =>
                  Of(frame.pending) \cap AnsweredKeys(frame.base) = {}

\* The inductive invariant, with GraphInv and LifeInv.
AskInv == Remaining(graph.at, graph.s)

\* What one frame was told, another that is open, too, was told as well.
Remembers(frame, next) == IsOpen(frame) /\ IsOpen(next) => AnsweredKeys(frame.base) \subseteq AnsweredKeys(next.base)

\* From one state to the next.
Recalled(s, next, t) == Remaining(next, t) /\ Remembers(s.clarification_frame, t.clarification_frame)

-----------------------------------------------------------------------------
(* The keys that a plan asks for *)

\* A key is asked for only when no slot that answers it is given.
LEMMA LackingIsUnanswered ==
    ASSUME NEW u, NEW key \in DOMAIN AnswersTo
    PROVE  Lacking(Overlay(u.inherited_slots, u.explicit_slots), AnswersTo[key], key) \in Seq(Unanswered(u))
<1> DEFINE slots == Overlay(u.inherited_slots, u.explicit_slots)
           S == Unanswered(u)
<1>1. key # "history_reference"
  BY DEF AnswersTo
<1>2. ~Given(slots, AnswersTo[key]) => key \in S
  BY <1>1 DEF Unanswered, AnsweredKeys
<1> HIDE DEF slots, S
<1>3. <<>> \in Seq(S) /\ (key \in S => <<key>> \in Seq(S))
  OBVIOUS
<1> QED  BY <1>2, <1>3 DEF Lacking, slots, S

\* So is everything that a task lacks.
LEMMA LackedByTask ==
    ASSUME NEW u
    PROVE  LET slots == Overlay(u.inherited_slots, u.explicit_slots)
           IN  /\ LegacyManufacturingMissing(slots) \in Seq(Unanswered(u))
               /\ \A task : TaskMissing(task, slots) \in Seq(Unanswered(u))
<1> DEFINE slots == Overlay(u.inherited_slots, u.explicit_slots)
           S == Unanswered(u)
<1>1. /\ {"product", "time_range", "tool_or_chamber", "affected_object"} \subseteq DOMAIN AnswersTo
      /\ AnswersTo["product"] = {"product"} /\ AnswersTo["time_range"] = {"time_range"}
      /\ AnswersTo["tool_or_chamber"] = {"tool_id", "chamber"} /\ AnswersTo["affected_object"] = AffectedObject
  BY DEF AnswersTo
<1>2. /\ Lacking(slots, {"product"}, "product") \in Seq(S)
      /\ Lacking(slots, {"time_range"}, "time_range") \in Seq(S)
      /\ Lacking(slots, {"tool_id", "chamber"}, "tool_or_chamber") \in Seq(S)
      /\ Lacking(slots, AffectedObject, "affected_object") \in Seq(S)
  <2>1. \A key \in DOMAIN AnswersTo : Lacking(slots, AnswersTo[key], key) \in Seq(S)
    BY LackingIsUnanswered
  <2> HIDE DEF slots, S
  <2> QED  BY <1>1, <2>1, Zenon
<1> HIDE DEF slots, S
<1> DEFINE product == Lacking(slots, {"product"}, "product")
           time == Lacking(slots, {"time_range"}, "time_range")
           tool == Lacking(slots, {"tool_id", "chamber"}, "tool_or_chamber")
           object == Lacking(slots, AffectedObject, "affected_object")
<1>3. product \in Seq(S) /\ time \in Seq(S) /\ tool \in Seq(S) /\ object \in Seq(S)
  BY <1>2
<1>4. LegacyManufacturingMissing(slots) = (product \o time) \o tool
  BY DEF LegacyManufacturingMissing
<1>5. \A task : TaskMissing(task, slots) \in {<<>>, LegacyManufacturingMissing(slots), time, time \o object}
  BY DEF TaskMissing
<1> HIDE DEF product, time, tool, object
<1>6. product \o time \in Seq(S) /\ time \o object \in Seq(S)
  BY <1>3, Joined
<1>7. LegacyManufacturingMissing(slots) \in Seq(S)
  BY <1>3, <1>4, <1>6, Joined
<1>8. <<>> \in Seq(S)
  OBVIOUS
<1>9. \A task : TaskMissing(task, slots) \in Seq(S)
  BY <1>3, <1>5, <1>6, <1>7, <1>8, Zenon
<1> QED  BY <1>7, <1>9 DEF slots, S

\* Five lists, one after the other.
LEMMA FiveJoined ==
    ASSUME NEW S, NEW a \in Seq(S), NEW b \in Seq(S), NEW c \in Seq(S), NEW d \in Seq(S), NEW e \in Seq(S)
    PROVE  a \o b \o c \o d \o e \in Seq(S)
<1>1. a \o b \in Seq(S)
  BY Joined
<1>2. a \o b \o c \in Seq(S)
  BY <1>1, Joined
<1>3. a \o b \o c \o d \in Seq(S)
  BY <1>2, Joined
<1> QED  BY <1>3, Joined

\* The first three of a list, and what they are.
LEMMA FirstThreeOf ==
    ASSUME NEW S, NEW seq \in Seq(S)
    PROVE  FirstThree(seq) \in Seq(S) /\ Of(FirstThree(seq)) \subseteq S
<1> DEFINE three == FirstThree(seq)
<1>1. IsShort(three) /\ \A n \in DOMAIN three : three[n] \in S
  BY FirstThreeIsShort
<1> HIDE DEF three
<1>2. PICK n \in 0 .. 3 : DOMAIN three = 1 .. n /\ three = [i \in 1 .. n |-> three[i]]
  BY <1>1 DEF IsShort
<1>3. Of(three) = {three[i] : i \in 1 .. n}
  BY <1>2, ShortLength
<1>4. \A i \in 1 .. n : three[i] \in S
  BY <1>1, <1>2
<1>5. [i \in 1 .. n |-> three[i]] \in Seq(S)
  BY <1>4
<1> QED  BY <1>2, <1>3, <1>4, <1>5 DEF three

\* What is required and missing is not known yet.
LEMMA MissingIsUnanswered ==
    ASSUME NEW u, NEW route
    PROVE  LET missing == RequiredMissing(u, Overlay(u.inherited_slots, u.explicit_slots), route)
           IN  missing \in Seq(Unanswered(u)) /\ IsShort(missing)
<1> DEFINE slots == Overlay(u.inherited_slots, u.explicit_slots)
           S == Unanswered(u)
           executable == SelectSeq(u.task_items, LAMBDA t : t.execution_policy = "execute")
           of(i) == IF i <= Len(executable) THEN TaskMissing(executable[i], slots) ELSE <<>>
           unplanned == IF route \in {"tool_only", "rag_and_tool"} /\ executable = <<>>
                        THEN LegacyManufacturingMissing(slots) ELSE <<>>
           history == IF (\E t \in Of(u.task_items) : IsHistoryTask(t)) /\ u.context_message_ids = <<>>
                      THEN <<"history_reference">> ELSE <<>>
<1>1. RequiredMissing(u, slots, route) = FirstThree(of(1) \o of(2) \o of(3) \o unplanned \o history)
  BY DEF RequiredMissing
<1>2. LegacyManufacturingMissing(slots) \in Seq(S) /\ \A task : TaskMissing(task, slots) \in Seq(S)
  BY LackedByTask
<1>3. u.context_message_ids = <<>> => "history_reference" \in S
  BY DEF Unanswered, AnsweredKeys, AnswersTo
<1> HIDE DEF slots, S, executable
<1>4. <<>> \in Seq(S)
  OBVIOUS
<1>5. \A i : of(i) \in Seq(S)
  BY <1>2, <1>4
<1>6. unplanned \in Seq(S)
  BY <1>2, <1>4
<1>7. history \in Seq(S)
  BY <1>3, <1>4
<1>8. of(1) \in Seq(S) /\ of(2) \in Seq(S) /\ of(3) \in Seq(S)
  BY <1>5, Zenon
<1> HIDE DEF of, unplanned, history
<1>9. of(1) \o of(2) \o of(3) \o unplanned \o history \in Seq(S)
  BY <1>6, <1>7, <1>8, FiveJoined
<1> DEFINE lacked == of(1) \o of(2) \o of(3) \o unplanned \o history
<1> HIDE DEF lacked
<1>10. RequiredMissing(u, slots, route) \in Seq(S) /\ IsShort(RequiredMissing(u, slots, route))
  <2>1. lacked \in Seq(S) /\ RequiredMissing(u, slots, route) = FirstThree(lacked)
    BY <1>1, <1>9 DEF lacked
  <2> QED  BY <2>1, FirstThreeOf, FirstThreeIsShort
<1> QED  BY <1>10 DEF slots, S

\* Nor is what a plan asks for.
LEMMA PlanAsks ==
    ASSUME NEW s, IsState(s), NEW u, NEW request
    PROVE  LET t == ClassificationUpdate(s, u, request)
           IN  t.understanding = u /\ t.route_plan.missing_slots \in Seq(Unanswered(u))
<1> DEFINE slots == Overlay(u.inherited_slots, u.explicit_slots)
           plan == Decide(u, Scope, s.conversation_context, Said[request])
           t == ClassificationUpdate(s, u, request)
<1>1. PICK decisions, route : plan = Planned(u, decisions, route, RequiredMissing(u, slots, route))
  BY DEF Decide, PlanOf
<1>2. plan.missing_slots \in {<<>>, RequiredMissing(u, slots, route)}
  BY <1>1 DEF Planned, Plan
<1>3. RequiredMissing(u, slots, route) \in Seq(Unanswered(u))
  BY MissingIsUnanswered
<1>4. <<>> \in Seq(Unanswered(u))
  OBVIOUS
<1>5. t = WithPlan(s, u, plan)
  BY DEF ClassificationUpdate
<1> HIDE DEF plan, t, slots
<1>6. t.understanding = u /\ t.route_plan = plan
  BY <1>5, PlanIsSet
<1> QED  BY <1>2, <1>3, <1>4, <1>6 DEF t

-----------------------------------------------------------------------------
(* What a node makes of a question *)

\* What is answered directly tells what it refers to.
LEMMA DirectTells ==
    ASSUME NEW mode, NEW intent, NEW target, NEW action, NEW route, NEW ids
    PROVE  Tells(Direct(mode, intent, target, action, route, ids))
BY DEF Direct, Tells

\* Whatever is understood of a message tells it.
LEMMA UnderstoodTells ==
    ASSUME NEW m, NEW context, NEW raw, NEW pending
    PROVE  Tells(Understand(m, context, raw, pending))
<1>1. \A c, p : Tells(Heuristic(m, c, p)) /\ \A said : Tells(Heuristic(said, c, p))
  BY DEF Heuristic, Guessed, Tells
<1>2. Tells(NormalizeRaw(raw, m, context, pending))
  BY DEF NormalizeRaw, Normalized, Tells
<1>3. ASSUME NEW prior, NEW tasks, NEW known, tasks # <<>> => Tells(prior) PROVE Tells(Reused(prior, tasks, known))
  <2>1. CASE tasks = <<>>
    BY <2>1, DirectTells DEF Reused
  <2>2. CASE tasks # <<>>
    BY <1>3, <2>2 DEF Reused, Tells
  <2> QED  BY <2>1, <2>2
<1>4. Tells(EvidenceFollowup(context))
  BY <1>1, <1>3 DEF EvidenceFollowup
<1>5. Tells(L0(m, context))
  <2> DEFINE control == Direct("control", "conversation", "general", "execute", "chat_direct", <<>>)
  <2>1. ASSUME NEW scope PROVE Tells([control EXCEPT !.cancel_scope = scope])
    BY DirectTells DEF Tells
  <2>2. ASSUME NEW slots, NEW operations
        PROVE  Tells([control EXCEPT !.explicit_slots = slots, !.slot_operations = operations])
    BY DirectTells DEF Tells
  <2> QED  BY <1>4, <2>1, <2>2, DirectTells, ZenonT(60) DEF L0
<1> QED  BY <1>1, <1>2, <1>5 DEF Understand, ReadRaw

\* A frame that stays as it was, but for its status and round, still asks for the rest.
LEMMA KeptRecalled ==
    ASSUME NEW at, NEW s, Remaining(at, s), at \notin {"validate_required_fields", "ingest_request"},
           NEW t, t.understanding = s.understanding, t.route_plan = s.route_plan,
           IsOpen(t.clarification_frame) =>
             /\ IsOpen(s.clarification_frame)
             /\ {"base", "pending"} \subseteq DOMAIN t.clarification_frame
             /\ t.clarification_frame.base = s.clarification_frame.base
             /\ t.clarification_frame.pending = s.clarification_frame.pending,
           NEW next, next # "validate_required_fields"
    PROVE  Recalled(s, next, t)
BY DEF Recalled, Remaining, Remembers

\* A new request has nothing to ask yet.
LEMMA IngestRecalls == ASSUME NEW s, IsState(s) PROVE Recalled(s, "authorize_scope", IngestRequest(s))
<1> DEFINE t == IngestRequest(s)
<1>1. t.clarification_frame = NoFrame /\ t.understanding = NoUnderstanding /\ t.route_plan = NoPlan
  BY Ingested, Zenon
<1> HIDE DEF t
<1>2. NoPlan.missing_slots = <<>> /\ ~IsOpen(NoFrame)
  BY DEF NoPlan, Plan, NoFrame, IsOpen
<1>3. <<>> \in Seq(Unanswered(NoUnderstanding))
  OBVIOUS
<1>4. t.route_plan.missing_slots \in Seq(Unanswered(t.understanding))
  BY <1>1, <1>2, <1>3
<1> QED  BY <1>1, <1>2, <1>4 DEF Recalled, Remaining, Remembers, t

\* A request that is understood has no frame yet.
LEMMA ClassifyRecalls ==
    ASSUME NEW s, Good("classify_and_extract", s), NEW u, Tells(u), NEW request
    PROVE  Recalled(s, "validate_required_fields", ClassificationUpdate(s, u, request))
<1> DEFINE t == ClassificationUpdate(s, u, request)
<1>1. IsState(s) /\ s.clarification_frame = NoFrame
  BY DEF Good, Decided
<1>2. t.clarification_frame = NoFrame
  BY <1>1, Classified
<1>3. t.understanding = u /\ t.route_plan.missing_slots \in Seq(Unanswered(u))
  BY <1>1, PlanAsks
<1> HIDE DEF t
<1>4. ~IsOpen(t.clarification_frame)
  BY <1>2 DEF NoFrame, IsOpen
<1>5. t.route_plan.missing_slots \in Seq(Unanswered(t.understanding)) /\ Tells(t.understanding)
  BY <1>3
<1> QED  BY <1>4, <1>5 DEF Recalled, Remaining, Remembers, t

\* A frame asks for what the plan names, or for what is meant.
LEMMA ValidateRecalls ==
    ASSUME NEW s, Good("validate_required_fields", s), Remaining("validate_required_fields", s)
    PROVE  LET t == ValidatedFields(s) IN Recalled(s, RouteAfterValidation(t), t)
<1> DEFINE old == s.clarification_frame
           missing == s.route_plan.missing_slots
           frame == BuildClarificationFrame(run.entry, s.request, s.understanding, s.route_plan, missing, old)
           t == ValidatedFields(s)
<1>1. t = WithFrame(s, frame)
  BY DEF ValidatedFields
<1>2. /\ {"status", "base", "pending"} \subseteq DOMAIN frame
      /\ frame.base = (IF IsOpen(old) THEN old.base ELSE s.understanding)
      /\ frame.pending = (IF FirstThree(missing) = <<>> THEN <<"intent_target">> ELSE FirstThree(missing))
  BY DEF BuildClarificationFrame
<1> HIDE DEF frame, t
<1>3. /\ Keeps(s, t)
      /\ t.clarification_frame = (IF Asks(s.route_plan) THEN frame ELSE old)
  BY <1>1, <1>2, FrameIsSet DEF Good
<1>4. /\ missing \in Seq(Unanswered(s.understanding)) /\ Tells(s.understanding)
      /\ IsOpen(old) => old.base = s.understanding
  BY DEF Remaining
<1>5. frame.base = s.understanding
  BY <1>2, <1>4
<1>6. Of(FirstThree(missing)) \subseteq Unanswered(s.understanding)
  BY <1>4, FirstThreeOf
<1>7. Of(<<"intent_target">>) = {"intent_target"}
  BY DEF Of
<1>8. "intent_target" \notin AnsweredKeys(s.understanding)
  BY DEF AnsweredKeys, AnswersTo
<1>9. Of(frame.pending) \cap AnsweredKeys(frame.base) = {}
  BY <1>2, <1>5, <1>6, <1>7, <1>8 DEF Unanswered
<1>10. IsOpen(t.clarification_frame) => t.clarification_frame = frame
  BY <1>3 DEF Good, Decided
<1>11. t.route_plan.missing_slots \in Seq(Unanswered(t.understanding))
  BY <1>3, <1>4 DEF Keeps
<1>12. RouteAfterValidation(t) # "validate_required_fields"
  BY DEF RouteAfterValidation
<1>13. Remaining(RouteAfterValidation(t), t)
  BY <1>2, <1>4, <1>5, <1>9, <1>10, <1>11, <1>12 DEF Remaining
<1>14. Remembers(old, t.clarification_frame)
  BY <1>4, <1>5, <1>10 DEF Remembers
<1> QED  BY <1>13, <1>14 DEF Recalled, t

\* A question that is repeated is the same.
LEMMA ResumeRecalls ==
    ASSUME NEW s, IsState(s), Remaining("resolve_clarification_turn", s), s.clarification_frame.status = "waiting"
    PROVE  LET t == ResumeOnly(s) IN Recalled(s, RouteAfterResolution(t), t)
<1> DEFINE old == s.clarification_frame
           frame == [old EXCEPT !.status = "waiting"]
           t == ResumeOnly(s)
<1>1. IsOpen(old) /\ {"base", "pending"} \subseteq DOMAIN old
  BY DEF Remaining, IsOpen
<1>2. {"base", "pending"} \subseteq DOMAIN frame /\ frame.base = old.base /\ frame.pending = old.pending
  BY <1>1
<1>3. /\ t.clarification_frame = frame /\ t.clarification_resume_only = TRUE
      /\ t.understanding = s.understanding /\ t.route_plan = s.route_plan
  BY FieldNames DEF ResumeOnly, IsState
<1> HIDE DEF frame, t
<1>4. RouteAfterResolution(t) # "validate_required_fields"
  BY <1>3 DEF RouteAfterResolution
<1> QED  BY <1>1, <1>2, <1>3, <1>4, KeptRecalled DEF t

\* So is one that waits for what is meant to be clear.
LEMMA AmbiguousRecalls ==
    ASSUME NEW s, IsState(s), Remaining("resolve_clarification_turn", s), s.clarification_frame.status = "waiting"
    PROVE  LET t == Ambiguous(s) IN Recalled(s, RouteAfterResolution(t), t)
<1> DEFINE old == s.clarification_frame
           frame == TerminalTransition(old, "ambiguous")
           t == Ambiguous(s)
<1>1. IsOpen(old) /\ {"base", "pending"} \subseteq DOMAIN old
  BY DEF Remaining, IsOpen
<1>2. {"base", "pending"} \subseteq DOMAIN frame /\ frame.base = old.base /\ frame.pending = old.pending
  BY <1>1 DEF TerminalTransition
<1>3. t = [s EXCEPT !.clarification_frame = frame, !.clarification_relation = "ambiguous",
                    !.clarification_resume_only = FALSE,
                    !.missing_required_fields = old.pending, !.clarification_round = old.round]
  BY FieldNames DEF Ambiguous, IsState
<1> HIDE DEF frame, t
<1>4. /\ t.clarification_frame = frame /\ t.clarification_relation = "ambiguous"
      /\ t.clarification_resume_only = FALSE
      /\ t.understanding = s.understanding /\ t.route_plan = s.route_plan
  BY <1>3, FieldNames DEF IsState
<1>5. RouteAfterResolution(t) = "prepare_relation_clarification"
  BY <1>4 DEF RouteAfterResolution
<1> QED  BY <1>1, <1>2, <1>4, <1>5, KeptRecalled DEF t

\* What a frame was told is still known when an answer is laid over it.
LEMMA MergingForgetsNothing ==
    ASSUME NEW frame, NEW u, Tells(frame.base)
    PROVE  /\ Tells(MergeContinuation(frame, u))
           /\ AnsweredKeys(frame.base) \subseteq AnsweredKeys(MergeContinuation(frame, u))
<1> DEFINE base == frame.base
           merged == MergeContinuation(frame, u)
<1>1. /\ Tells(merged)
      /\ merged.explicit_slots = Overlay(base.explicit_slots, u.explicit_slots)
      /\ merged.inherited_slots = Overlay(base.inherited_slots, u.inherited_slots)
      /\ base.context_message_ids # <<>> => merged.context_message_ids # <<>>
  <2> DEFINE ids == IF u.context_message_ids # <<>> THEN u.context_message_ids ELSE base.context_message_ids
  <2>1. DOMAIN merged = DOMAIN base
    <3> DEFINE retasked == frame.kind = "intent_disambiguation" /\ u.task_items # <<>>
               half == [base EXCEPT
                          !.interaction_mode = "clarification_answer",
                          !.primary_intent = IF retasked THEN u.primary_intent ELSE base.primary_intent,
                          !.task_items = IF retasked THEN u.task_items ELSE base.task_items,
                          !.slot_operations = base.slot_operations \cup u.slot_operations,
                          !.explicit_slots = Overlay(base.explicit_slots, u.explicit_slots)]
               laid == Overlay(base.inherited_slots, u.inherited_slots)
               route == IF retasked THEN u.suggested_route ELSE base.suggested_route
               surer == IF u.confidence > base.confidence THEN u.confidence ELSE base.confidence
               rest(f) == [f EXCEPT !.inherited_slots = laid, !.context_message_ids = ids, !.cancel_scope = None,
                                    !.clarification_relation = "continue_current",
                                    !.suggested_route = route, !.confidence = surer]
    <3>1. merged = rest(half)
      BY DEF MergeContinuation
    <3>2. DOMAIN half = DOMAIN base
      <4> HIDE DEF retasked
      <4> QED  OBVIOUS
    <3> HIDE DEF half, laid, route, surer, ids
    <3>3. DOMAIN rest(half) = DOMAIN half
      OBVIOUS
    <3> QED  BY <3>1, <3>2, <3>3
  <2>2. /\ merged.explicit_slots = Overlay(base.explicit_slots, u.explicit_slots)
        /\ merged.inherited_slots = Overlay(base.inherited_slots, u.inherited_slots)
        /\ merged.context_message_ids = ids
    BY DEF MergeContinuation, Tells
  <2> HIDE DEF merged
  <2> QED  BY <2>1, <2>2 DEF Tells
<1> HIDE DEF merged
<1>2. DOMAIN Overlay(base.inherited_slots, base.explicit_slots)
        \subseteq DOMAIN Overlay(merged.inherited_slots, merged.explicit_slots)
  BY <1>1 DEF Overlay
<1>3. \A names : Given(Overlay(base.inherited_slots, base.explicit_slots), names)
                   => Given(Overlay(merged.inherited_slots, merged.explicit_slots), names)
  BY <1>2 DEF Given
<1> QED  BY <1>1, <1>3 DEF AnsweredKeys, merged

\* An answer is merged into what the frame holds, which the validation looks at next.
LEMMA ContinuedRecalls ==
    ASSUME NEW s, IsState(s), Remaining("resolve_clarification_turn", s), s.clarification_frame.status = "waiting",
           NEW u
    PROVE  LET t == ContinueCurrent(s, u) IN Recalled(s, RouteAfterResolution(t), t)
<1> DEFINE old == s.clarification_frame
           merged == MergeContinuation(old, u)
           c == ClassificationUpdate(s, merged, old.request)
           pending == StillPending(old, c.route_plan)
           frame == UpdateAfterAnswer(old, c.understanding, pending)
           t == Continued(c, old, pending)
<1>1. ContinueCurrent(s, u) = t
  BY DEF ContinueCurrent
<1>2. IsOpen(old) /\ {"base", "pending"} \subseteq DOMAIN old /\ Tells(old.base)
  BY DEF Remaining, IsOpen
<1>3. Tells(merged) /\ AnsweredKeys(old.base) \subseteq AnsweredKeys(merged)
  BY <1>2, MergingForgetsNothing
<1> HIDE DEF merged
<1>4. /\ IsState(c) /\ c.understanding = merged
      /\ c.route_plan.missing_slots \in Seq(Unanswered(c.understanding))
  BY PlanAsks, Classified
<1> HIDE DEF c, pending
<1>5. {"base", "pending"} \subseteq DOMAIN frame /\ frame.base = merged
  BY <1>2, <1>4 DEF UpdateAfterAnswer
<1>6. t = [c EXCEPT !.request = old.request, !.clarification_frame = frame,
                    !.clarification_relation = "continue_current", !.clarification_resume_only = FALSE,
                    !.missing_required_fields = pending, !.clarification_round = old.round]
  BY DEF Continued
<1> HIDE DEF frame, t
<1>7. /\ t.clarification_frame = frame /\ t.understanding = merged
      /\ t.route_plan.missing_slots \in Seq(Unanswered(t.understanding))
      /\ t.clarification_relation = "continue_current" /\ t.clarification_resume_only = FALSE
  BY <1>4, <1>6, FieldNames DEF IsState
<1>8. RouteAfterResolution(t) = "validate_required_fields"
  BY <1>7 DEF RouteAfterResolution
<1> QED  BY <1>1, <1>2, <1>3, <1>5, <1>7, <1>8 DEF Recalled, Remaining, Remembers

\* A request of its own leaves the frame as it was, or closes it.
LEMMA TakenUpRecalls ==
    ASSUME NEW s, IsState(s), Remaining("resolve_clarification_turn", s), s.clarification_frame.status = "waiting",
           NEW u, Tells(u),
           NEW relation \in {"replace_with_new_request", "cancel_current", "side_conversation"}
    PROVE  LET t == TakeUp(s, u, relation) IN Recalled(s, RouteAfterResolution(t), t)
<1> DEFINE old == s.clarification_frame
           reset == ResetTaskState(s, s.clarification_response)
           understood == [u EXCEPT !.clarification_relation = relation,
                                   !.interaction_mode = IF relation # "replace_with_new_request" THEN @
                                                        ELSE IF u.primary_intent = "conversation"
                                                        THEN "conversation" ELSE "task",
                                   !.cancel_scope = IF relation = "cancel_current" THEN "clarification" ELSE @]
           c == ClassificationUpdate(reset, understood, s.clarification_response)
           frame == TerminalTransition(old, relation)
           t == TakenUp(c, frame, relation)
<1>1. TakeUp(s, u, relation) = t
  BY DEF TakeUp
<1>2. IsOpen(old) /\ {"base", "pending"} \subseteq DOMAIN old /\ Tells(old.base)
      /\ Of(old.pending) \cap AnsweredKeys(old.base) = {}
  BY DEF Remaining, IsOpen
<1>3. IsState(reset) /\ reset.clarification_resume_only = FALSE
  BY WasReset, ZenonT(60)
<1>4. Tells(understood)
  BY DEF Tells
<1> HIDE DEF reset, understood
<1>5. /\ IsState(c) /\ c.understanding = understood /\ c.clarification_resume_only = FALSE
      /\ c.route_plan.missing_slots \in Seq(Unanswered(c.understanding))
  BY <1>3, PlanAsks, Classified
<1> HIDE DEF c
<1>6. /\ "status" \in DOMAIN old
      /\ DOMAIN frame = DOMAIN old
      /\ relation = "side_conversation" => frame.status = "paused"
      /\ relation # "side_conversation" => ~IsOpen(frame)
  BY DEF TerminalTransition, IsState, IsOpen
<1>7. frame.base = old.base /\ frame.pending = old.pending
  BY <1>2 DEF TerminalTransition
<1> HIDE DEF frame
<1>8. /\ t.clarification_frame = frame /\ t.understanding = understood
      /\ t.route_plan.missing_slots \in Seq(Unanswered(t.understanding))
      /\ t.clarification_relation = relation /\ t.clarification_resume_only = FALSE
  <2> DEFINE missing == IF relation = "replace_with_new_request" THEN c.missing_required_fields ELSE frame.pending
             round == IF relation = "side_conversation" THEN frame.round ELSE 0
  <2>1. t = [c EXCEPT !.clarification_frame = frame, !.clarification_relation = relation,
                      !.missing_required_fields = missing, !.clarification_round = round]
    BY DEF TakenUp
  <2> HIDE DEF missing, round, t
  <2> QED  BY <1>5, <2>1, FieldNames DEF IsState
<1> HIDE DEF t
<1>9. relation = "side_conversation" => RouteAfterResolution(t) = "answer_side_conversation"
  BY <1>8 DEF RouteAfterResolution
<1>10. Remaining(RouteAfterResolution(t), t)
  BY <1>2, <1>4, <1>6, <1>7, <1>8, <1>9 DEF Remaining
<1>11. Remembers(old, t.clarification_frame)
  BY <1>7, <1>8 DEF Remembers
<1> QED  BY <1>1, <1>10, <1>11 DEF Recalled

\* Whatever is understood of the answer.
LEMMA ResolveRecalls ==
    ASSUME NEW s, IsState(s), Remaining("resolve_clarification_turn", s), s.clarification_frame.status = "waiting",
           NEW u, Tells(u)
    PROVE  LET t == Resolved(s, u) IN Recalled(s, RouteAfterResolution(t), t)
<1> DEFINE relation == DecideTurnRelation(s.clarification_frame, Said[s.clarification_response], u)
           t == ResolvedAs(relation, s, u)
<1>1. Resolved(s, u) = t
  BY DEF Resolved
<1>2. relation \in {"replace_with_new_request", "cancel_current", "ambiguous", "continue_current", "resume",
                    "side_conversation"}
  BY Relations
<1> HIDE DEF relation
<1>3. t \in {ResumeOnly(s), Ambiguous(s), ContinueCurrent(s, u)}
        \cup {TakeUp(s, u, r) : r \in {"replace_with_new_request", "cancel_current", "side_conversation"}}
  BY <1>2 DEF ResolvedAs
<1> HIDE DEF t
<1> QED  BY <1>1, <1>3, ResumeRecalls, AmbiguousRecalls, ContinuedRecalls, TakenUpRecalls

-----------------------------------------------------------------------------
(* Every step asks for the rest alone *)

\* What a step makes of a question, whatever node it leaves.
Recalling == UNCHANGED graph \/ Recalled(graph.s, graph'.at, graph'.s)

\* A node that is left for the next.
LEMMA NodeRecalls ==
    ASSUME NEW at, NEW t, NEW next, Node(at, t, next) \/ graph' = [at |-> next, s |-> t],
           Recalled(graph.s, next, t)
    PROVE  Recalling
<1>1. graph' = [at |-> next, s |-> t]
  BY DEF Node
<1>2. graph'.at = next /\ graph'.s = t
  BY <1>1
<1> QED  BY <1>2 DEF Recalling

\* The nodes that consult, that answer, and that end a turn.
LEMMA PlainRecalls ==
    ASSUME AskInv, \E at, t, next : PlainMove(at, t, next)
    PROVE  Recalling
<1>1. PICK at, t, next : PlainMove(at, t, next)
  OBVIOUS
<1>2. /\ Node(at, t, next) /\ Remaining(at, graph.s)
      /\ at \notin {"validate_required_fields", "ingest_request"} /\ next # "validate_required_fields"
  BY <1>1 DEF AskInv, PlainMove, Node, Placing
<1>3. /\ t.understanding = graph.s.understanding /\ t.route_plan = graph.s.route_plan
      /\ t.clarification_frame = graph.s.clarification_frame
  BY <1>1 DEF PlainMove, Same, Keeps
<1>4. IsOpen(graph.s.clarification_frame) => {"base", "pending"} \subseteq DOMAIN graph.s.clarification_frame
  BY <1>2 DEF Remaining
<1>5. Recalled(graph.s, next, t)
  BY <1>2, <1>3, <1>4, KeptRecalled
<1> QED  BY <1>2, <1>5, NodeRecalls

\* The nodes that read a message.
LEMMA ReadingRecalls ==
    ASSUME GraphInv, LifeInv, AskInv,
           Ingest \/ ClassifyAndExtract \/ ValidateRequiredFields \/ ResolveClarificationTurn
    PROVE  Recalling
<1> DEFINE s == graph.s
<1>1. Good(graph.at, s) /\ IsState(s) /\ Remaining(graph.at, s) /\ Placed(graph.at, s)
  BY DEF GraphInv, Good, LifeInv, AskInv
<1>2. CASE Ingest
  <2>1. Recalled(s, "authorize_scope", IngestRequest(s))
    BY <1>1, IngestRecalls
  <2> QED  BY <1>2, <2>1, NodeRecalls DEF Ingest
<1>3. CASE ClassifyAndExtract
  <2>1. graph.at = "classify_and_extract"
    BY <1>3 DEF ClassifyAndExtract
  <2>2. PICK raw : LET u == Understand(Said[s.request], s.conversation_context, raw, FALSE)
                   IN  Node("classify_and_extract", ClassificationUpdate(s, u, s.request), "validate_required_fields")
    BY <1>3 DEF ClassifyAndExtract
  <2> DEFINE u == Understand(Said[s.request], s.conversation_context, raw, FALSE)
  <2>3. Tells(u)
    BY UnderstoodTells
  <2>4. Node("classify_and_extract", ClassificationUpdate(s, u, s.request), "validate_required_fields")
    BY <2>2
  <2> HIDE DEF u
  <2>5. Recalled(s, "validate_required_fields", ClassificationUpdate(s, u, s.request))
    BY <1>1, <2>1, <2>3, ClassifyRecalls
  <2> QED  BY <2>4, <2>5, NodeRecalls
<1>4. CASE ValidateRequiredFields
  <2> DEFINE t == ValidatedFields(s)
  <2>1. graph.at = "validate_required_fields" /\ Node("validate_required_fields", t, RouteAfterValidation(t))
    BY <1>4 DEF ValidateRequiredFields
  <2>2. Recalled(s, RouteAfterValidation(t), t)
    BY <1>1, <2>1, ValidateRecalls
  <2> QED  BY <2>1, <2>2, NodeRecalls
<1>5. CASE ResolveClarificationTurn
  <2> DEFINE response == s.clarification_response
  <2>1. graph.at = "resolve_clarification_turn" /\ s.clarification_frame.status = "waiting"
    BY <1>1, <1>5 DEF ResolveClarificationTurn, Placed
  <2>2. PICK raw : LET t == Resolved(s, Understand(Said[response], s.conversation_context, raw, TRUE))
                   IN  Node("resolve_clarification_turn", t, RouteAfterResolution(t))
    BY <1>5 DEF ResolveClarificationTurn
  <2> DEFINE u == Understand(Said[response], s.conversation_context, raw, TRUE)
             t == Resolved(s, u)
  <2>3. Tells(u)
    BY UnderstoodTells
  <2>4. Node("resolve_clarification_turn", t, RouteAfterResolution(t))
    BY <2>2
  <2> HIDE DEF u
  <2>5. Recalled(s, RouteAfterResolution(t), t)
    BY <1>1, <2>1, <2>3, ResolveRecalls
  <2> QED  BY <2>4, <2>5, NodeRecalls
<1> QED  BY <1>2, <1>3, <1>4, <1>5

\* A frame that is asked changes nothing but itself and the round.
LEMMA FrameIsAsked ==
    ASSUME NEW s, IsState(s), NEW frame, "status" \in DOMAIN frame, NEW round
    PROVE  LET t == [s EXCEPT !.clarification_frame = frame, !.clarification_round = round]
           IN  IsState(t) /\ Keeps(s, t) /\ t.clarification_frame = frame
BY FieldNames DEF IsState, Keeps

\* The nodes that ask, and those that wait for the answer.
LEMMA AskingRecalls ==
    ASSUME GraphInv, LifeInv, AskInv,
           \/ PrepareClarificationReply \/ AnswerSideConversation \/ PrepareRelationClarification
           \/ ClarifyMissingFields \/ ResumeClarification \/ PauseClarification
    PROVE  Recalling
<1> DEFINE s == graph.s
           old == s.clarification_frame
           waiting == [old EXCEPT !.status = "waiting"]
<1>1. IsState(s) /\ Remaining(graph.at, s) /\ Placed(graph.at, s)
  BY DEF GraphInv, Good, LifeInv, AskInv
<1>2. /\ graph.at \in Asking \cup Interrupting \cup {"resume_clarification"}
      /\ IsOpen(old) /\ {"base", "pending"} \subseteq DOMAIN old
  <2>1. graph.at \in Asking \cup Interrupting \cup {"resume_clarification"}
    BY DEF PrepareClarificationReply, AnswerSideConversation, PrepareRelationClarification,
           ClarifyMissingFields, ResumeClarification, PauseClarification, Node, Interrupt, Asking, Interrupting
  <2>2. IsOpen(old)
    BY <1>1, <2>1 DEF Placed, IsOpen
  <2> QED  BY <1>1, <2>1, <2>2 DEF Remaining
<1>3. ASSUME NEW t, t.understanding = s.understanding, t.route_plan = s.route_plan,
             {"base", "pending"} \subseteq DOMAIN t.clarification_frame,
             t.clarification_frame.base = old.base, t.clarification_frame.pending = old.pending,
             NEW next, next # "validate_required_fields", graph' = [at |-> next, s |-> t]
      PROVE  Recalling
  <2>1. graph.at \notin {"validate_required_fields", "ingest_request"}
    BY <1>2 DEF Asking, Interrupting
  <2>2. Recalled(s, next, t)
    BY <1>1, <1>2, <1>3, <2>1, KeptRecalled
  <2> QED  BY <1>3, <2>2, NodeRecalls
<1>4. CASE PrepareClarificationReply \/ AnswerSideConversation \/ PrepareRelationClarification
  <2>1. PICK at, t, next :
               /\ Node(at, t, next) /\ next \in {"clarify_missing_fields", "pause_clarification"}
               /\ \/ t = s
                  \/ \E results : t = [s EXCEPT !.task_results = results]
                  \/ t = [s EXCEPT !.answer = {}, !.citations = {}, !.status = "completed"]
    BY <1>4 DEF PrepareClarificationReply, AnswerSideConversation, DirectlyAnswered, PrepareRelationClarification
  <2>2. Keeps(s, t) /\ t.clarification_frame = old
    BY <1>1, <2>1, FieldNames DEF IsState, Keeps
  <2> QED  BY <1>2, <1>3, <2>1, <2>2 DEF Node, Keeps
<1>5. CASE ClarifyMissingFields \/ ResumeClarification \/ PauseClarification
  <2>1. ASSUME NEW at, NEW t, Interrupt(at, t), IsState(t), Keeps(s, t),
               {"base", "pending"} \subseteq DOMAIN t.clarification_frame,
               t.clarification_frame.base = old.base, t.clarification_frame.pending = old.pending
        PROVE  Recalling
    <3> DEFINE r == [t EXCEPT !.clarification_response = run.resume]
    <3>1. Keeps(s, r) /\ r.clarification_frame = t.clarification_frame
      BY <2>1, FieldNames DEF IsState, Keeps
    <3>2. graph' = [at |-> "resolve_clarification_turn", s |-> r]
      BY <2>1 DEF Interrupt
    <3> HIDE DEF r
    <3> QED  BY <1>3, <2>1, <3>1, <3>2 DEF Keeps
  <2>2. CASE ClarifyMissingFields
    <3> DEFINE asked == old.round + 1
               frame == [[old EXCEPT !.round = asked] EXCEPT !.status = "waiting"]
               t == [s EXCEPT !.clarification_frame.round = asked, !.clarification_frame.status = "waiting",
                              !.clarification_round = asked]
    <3>1. Interrupt("clarify_missing_fields", t)
      BY <2>2 DEF ClarifyMissingFields
    <3>2. t = [s EXCEPT !.clarification_frame = frame, !.clarification_round = asked]
      BY <1>1, FieldNames DEF IsState
    <3>3. /\ {"status", "base", "pending"} \subseteq DOMAIN frame
          /\ frame.base = old.base /\ frame.pending = old.pending
      BY <1>1, <1>2 DEF IsState
    <3> HIDE DEF asked, frame, t
    <3>4. "status" \in DOMAIN frame
      BY <3>3
    <3>5. IsState(t) /\ Keeps(s, t) /\ t.clarification_frame = frame
      BY <1>1, <3>2, <3>4, FrameIsAsked
    <3> QED  BY <2>1, <3>1, <3>3, <3>5
  <2>3. CASE ResumeClarification
    <3> DEFINE t == [s EXCEPT !.clarification_resume_only = FALSE]
    <3>1. Interrupt("resume_clarification", t)
      BY <2>3 DEF ResumeClarification
    <3>2. IsState(t) /\ Keeps(s, t) /\ t.clarification_frame = old
      BY <1>1, FieldNames DEF IsState, Keeps
    <3> HIDE DEF t
    <3> QED  BY <1>2, <2>1, <3>1, <3>2
  <2>4. CASE PauseClarification
    <3> DEFINE t == [s EXCEPT !.clarification_frame.status = "waiting"]
    <3>1. Interrupt("pause_clarification", t)
      BY <2>4 DEF PauseClarification
    <3>2. t = [s EXCEPT !.clarification_frame = waiting]
      BY <1>1, FieldNames DEF IsState
    <3>3. /\ {"status", "base", "pending"} \subseteq DOMAIN waiting
          /\ waiting.base = old.base /\ waiting.pending = old.pending
      BY <1>1, <1>2 DEF IsState
    <3> HIDE DEF waiting, t
    <3>4. IsState(t) /\ Keeps(s, t) /\ t.clarification_frame = waiting
      BY <1>1, <3>2, <3>3, FieldNames DEF IsState, Keeps
    <3> QED  BY <2>1, <3>1, <3>3, <3>4
  <2> QED  BY <1>5, <2>2, <2>3, <2>4
<1> QED  BY <1>4, <1>5

\* A message leaves the question as it is: the run goes on with it, or forgets it next.
LEMMA StreamedRecalls ==
    ASSUME GraphInv, AskInv, NEW c \in Client, StreamMessage(c)
    PROVE  Recalling
<1> DEFINE s == graph.s
           m == client[c].message
           given(context) == [s EXCEPT !.conversation_context = context]
           asked(context) == [given(context) EXCEPT !.request = m, !.clarification_round = 0]
<1>1. IsState(s) /\ graph = [at |-> graph.at, s |-> s] /\ Remaining(graph.at, s)
  BY DEF GraphInv, Good, AskInv
<1> DEFINE entry == Len(thread.messages) + 1
           with == [thread EXCEPT !.messages = Append(@, [id |-> entry, role |-> "user", message |-> m])]
           context == Assemble(with, entry)
<1>2. \/ graph' = [graph EXCEPT !.s = given(context)]
      \/ graph' = [at |-> "ingest_request", s |-> asked(context)]
  BY DEF StreamMessage
<1> HIDE DEF context
<1>3. PICK t : /\ t \in {given(context), asked(context)}
               /\ \/ graph'.at = graph.at /\ graph'.s = t
                  \/ graph'.at = "ingest_request" /\ graph'.s = t
  BY <1>1, <1>2
<1>4. /\ t.understanding = s.understanding /\ t.route_plan = s.route_plan
      /\ t.clarification_frame = s.clarification_frame
  BY <1>1, <1>3, FieldNames DEF IsState
<1> HIDE DEF given, asked
<1>5. Remaining(graph.at, t) /\ Remaining("ingest_request", t)
  BY <1>1, <1>4 DEF Remaining
<1>6. Remembers(s.clarification_frame, t.clarification_frame)
  BY <1>4 DEF Remembers
<1> QED  BY <1>3, <1>5, <1>6 DEF Recalling, Recalled

\* So does every step.
LEMMA StepRecalls == ASSUME GraphInv, LifeInv, AskInv, [Next]_vars PROVE Recalling
<1>1. UNCHANGED graph => Recalling
  BY DEF Recalling
<1>2. CASE \E c \in Client : PrepareMessage(c) \/ StreamMessage(c)
  <2>1. PICK c \in Client : PrepareMessage(c) \/ StreamMessage(c)
    BY <1>2
  <2>2. PrepareMessage(c) => UNCHANGED graph
    BY DEF PrepareMessage
  <2> QED  BY <1>1, <2>1, <2>2, StreamedRecalls
<1>3. CASE Step
  <2>1. FinalizeStreamResponse => UNCHANGED graph
    BY DEF FinalizeStreamResponse
  <2> QED  BY <1>1, <1>3, <2>1, PlainMoves, PlainRecalls, ReadingRecalls, AskingRecalls DEF Step, Clarification
<1>4. CASE Fail \/ Rest \/ UNCHANGED vars
  <2>1. UNCHANGED graph
    BY <1>4 DEF Fail, Rest, vars
  <2> QED  BY <1>1, <2>1
<1> QED  BY <1>2, <1>3, <1>4 DEF Next

\* And keeps the invariant.
LEMMA EveryStepRecalls == GraphInv /\ LifeInv /\ AskInv /\ [Next]_vars => AskInv' /\ Recalling
<1>1. UNCHANGED graph /\ AskInv => AskInv'
  BY DEF AskInv
<1>2. Recalled(graph.s, graph'.at, graph'.s) => AskInv'
  BY DEF Recalled, AskInv
<1>3. Recalling /\ AskInv => AskInv'
  BY <1>1, <1>2 DEF Recalling
<1> QED  BY <1>3, StepRecalls

\* Nothing has been asked in a new thread.
LEMMA InitAsks == ASSUME Init PROVE AskInv
<1>1. /\ graph.s = NoState /\ NoState.route_plan = NoPlan /\ NoState.clarification_frame = NoFrame
      /\ graph.at = "end"
  BY DEF Init, NoState
<1>2. NoPlan.missing_slots = <<>> /\ ~IsOpen(NoFrame)
  BY DEF NoPlan, Plan, NoFrame, IsOpen
<1>3. <<>> \in Seq(Unanswered(NoState.understanding))
  OBVIOUS
<1> QED  BY <1>1, <1>2, <1>3 DEF AskInv, Remaining

-----------------------------------------------------------------------------
(* Theorem of the questions *)

\* While a frame is open nothing that it was told is forgotten, whatever comes between, and
\* its questions leave out what it knows (_merge_continuation, build_clarification_frame).
THEOREM QuestionsAskOnlyTheRest == Spec => AsksOnlyTheRest
<1>1. Init => ThreadInv
  BY ThreadStarts
<1>2. ThreadInv /\ GraphInv /\ [Next]_vars => ThreadInv'
  BY ThreadKept, ThreadFinalized
<1>3. Init => LifeInv
  BY InitLives
<1>4. GraphInv /\ ThreadInv /\ LifeInv /\ [Next]_vars => LifeInv'
  BY EveryStepLives
<1>5. Init => AskInv
  BY InitAsks
<1>6. GraphInv /\ LifeInv /\ AskInv /\ [Next]_vars =>
        /\ AskInv'
        /\ [LET old == graph.s.clarification_frame
                new == graph'.s.clarification_frame
            IN  IsOpen(new) =>
                  /\ IsOpen(old) => AnsweredKeys(old.base) \subseteq AnsweredKeys(new.base)
                  /\ graph'.at \notin {"validate_required_fields", "ingest_request"} =>
                       Of(new.pending) \cap AnsweredKeys(new.base) = {}]_graph
  BY EveryStepRecalls DEF Recalling, Recalled, Remembers, Remaining
<1> QED  BY <1>1, <1>2, <1>3, <1>4, <1>5, <1>6, GraphIsGood, PTL DEF Spec, AsksOnlyTheRest

-----------------------------------------------------------------------------
(* What is understood is typed *)

\* A task with every field that something is decided by.
IsItem(task) ==
    /\ {"task_id", "primary_intent", "target_type", "action", "task_shape", "depends_on", "execution_policy"}
         \subseteq DOMAIN task
    /\ IsIntentTaskItem(task)

AreItems(tasks) == IsTasks(tasks) /\ \A i \in DOMAIN tasks : IsItem(tasks[i])

\* A task that is made of typed parts.
LEMMA ItemIs ==
    ASSUME NEW id \in TaskId, NEW intent \in PrimaryIntent, NEW target \in IntentTarget,
           NEW action \in IntentTaskAction, NEW shape \in TaskShape, NEW needs \in SUBSET TaskId,
           NEW policy \in TaskExecutionDecision, NEW spans
    PROVE  IsItem(Item(id, intent, target, action, shape, needs, policy, spans))
BY DEF Item, IsItem, IsIntentTaskItem

\* The words of a text leave an intent as it is, or make it one of three.
LEMMA GroundedIntents ==
    ASSUME NEW signs, NEW proposed
    PROVE  GroundedIntent(signs, proposed) \in {proposed, "knowledge_query", "data_query", "investigation"}
BY DEF GroundedIntent

\* The shape of a task is one of the shapes.
LEMMA ShapesAre ==
    ASSUME NEW signs, NEW intent
    PROVE  GroundedShape(signs, intent) \in TaskShape /\ PreservedShape(intent) \in TaskShape
BY DEF GroundedShape, PreservedShape, TaskShape

\* A task in the words of its text.
LEMMA GroundedItem ==
    ASSUME NEW task, IsItem(task), NEW signs
    PROVE  IsItem(Grounded(task, signs))
<1> DEFINE intent == GroundedIntent(signs, task.primary_intent)
           shape == GroundedShape(signs, intent)
           override == intent # task.primary_intent
           target == IF override /\ intent = "knowledge_query" /\ task.target_type \notin ControlledTargets
                     THEN "general"
                     ELSE IF override /\ intent = "investigation" THEN "case" ELSE task.target_type
           action == IF ~override THEN task.action
                     ELSE CASE intent = "knowledge_query" -> "explain"
                            [] intent = "data_query" -> "lookup"
                            [] intent = "investigation" -> "diagnose"
           looked == [task EXCEPT !.action = "lookup", !.task_shape = "entity_lookup"]
           changed == [task EXCEPT !.primary_intent = intent, !.task_shape = shape, !.target_type = target,
                                   !.action = action]
<1>1. Grounded(task, signs) \in {looked, changed}
  BY DEF Grounded
<1>2. intent \in {task.primary_intent, "knowledge_query", "data_query", "investigation"} /\ shape \in TaskShape
  BY GroundedIntents, ShapesAre
<1> HIDE DEF intent, shape
<1>3. intent \in PrimaryIntent /\ target \in IntentTarget /\ action \in IntentTaskAction
  BY <1>2 DEF IsItem, IsIntentTaskItem, PrimaryIntent, IntentTarget, IntentTaskAction
<1> HIDE DEF target, action
<1>4. IsItem(looked)
  BY DEF IsItem, IsIntentTaskItem, IntentTaskAction, TaskShape
<1>5. IsItem(changed)
  BY <1>2, <1>3 DEF IsItem, IsIntentTaskItem
<1> QED  BY <1>1, <1>4, <1>5

\* A task alone.
LEMMA OneItem ==
    ASSUME NEW task, IsItem(task), task.depends_on = {}
    PROVE  AreItems(<<task>>)
<1>1. IsTasks(<<task>>)
  BY OneTask DEF IsItem, IsIntentTaskItem, IsTask
<1>2. DOMAIN <<task>> = 1 .. 1 /\ <<task>>[1] = task
  OBVIOUS
<1> QED  BY <1>1, <1>2 DEF AreItems

\* The tasks of a text.
LEMMA InferredItems ==
    ASSUME NEW primary \in PrimaryIntent, NEW signs
    PROVE  AreItems(Inferred(Candidates(signs, primary), signs))
<1> DEFINE wanted == Candidates(signs, primary)
           items == [i \in DOMAIN wanted |-> InferredItem(Nth[i], wanted[i], signs)]
           tasks == WithNeeds(items, wanted)
<1>1. IsCandidates(wanted) /\ \A i \in DOMAIN wanted : wanted[i] \in CandidatesOf(primary)
  BY CandidatesAreShort
<1> HIDE DEF wanted
<1>2. PICK n \in 0 .. 3 : DOMAIN wanted = 1 .. n
  BY <1>1 DEF IsCandidates, IsShort
<1>3. ASSUME NEW i \in 1 .. n PROVE IsItem(items[i])
  <2> DEFINE c == wanted[i]
             plain == Item(Nth[i], c.intent, c.target, c.action, PreservedShape(c.intent), {}, c.policy, signs)
  <2>1. items[i] = InferredItem(Nth[i], c, signs)
    BY <1>2
  <2>2. /\ c.intent \in PrimaryIntent /\ c.target \in IntentTarget /\ c.action \in IntentTaskAction
        /\ c.policy \in TaskExecutionDecision
    BY <1>1, <1>2 DEF CandidatesOf
  <2>3. Nth[i] \in TaskId
    BY DEF Nth, TaskId
  <2>4. IsItem(plain)
    BY <2>2, <2>3, ItemIs, ShapesAre
  <2>5. InferredItem(Nth[i], c, signs) \in {plain, Grounded(plain, signs)}
    BY DEF InferredItem
  <2> QED  BY <2>1, <2>4, <2>5, GroundedItem
<1>4. DOMAIN items = 1 .. n
  BY <1>2
<1> HIDE DEF items
<1>5. DOMAIN tasks = 1 .. n
  BY <1>4 DEF WithNeeds
<1>6. ASSUME NEW i \in 1 .. n PROVE IsItem(tasks[i])
  <2> DEFINE needs == IF wanted[i].intent # "investigation" THEN {}
                      ELSE {items[j].task_id : j \in {j \in 1 .. i - 1 :
                                              items[j].primary_intent \in {"data_query", "knowledge_query"}}}
  <2>1. tasks[i] = [items[i] EXCEPT !.depends_on = needs]
    BY <1>4 DEF WithNeeds
  <2>2. needs \subseteq TaskId
    <3>1. \A j \in 1 .. i - 1 : items[j].task_id \in TaskId
      BY <1>3 DEF IsItem, IsIntentTaskItem
    <3> QED  BY <3>1
  <2> HIDE DEF needs
  <2> QED  BY <1>3, <2>1, <2>2 DEF IsItem, IsIntentTaskItem
<1> HIDE DEF tasks
<1>7. Inferred(wanted, signs) = tasks
  BY DEF Inferred, tasks, items
<1>8. IsTasks(tasks)
  BY <1>1, <1>7, InferredTasks
<1> QED  BY <1>5, <1>6, <1>7, <1>8 DEF AreItems, wanted

\* The tasks that are inferred from a message.
LEMMA InferredAreItems ==
    ASSUME NEW m, NEW primary \in PrimaryIntent
    PROVE  AreItems(InferTasks(m, primary))
<1> DEFINE target == IF NamesRecipe(m.signs) THEN "recipe" ELSE "general"
           task == Item("task_1", "action_request", target, "execute", "unspecified", {}, "refuse", m.signs)
<1>1. InferTasks(m, primary) \in {<<task>>, Inferred(Candidates(m.signs, primary), m.signs)}
  BY DEF InferTasks
<1>2. IsItem(task)
  <2>1. /\ "task_1" \in TaskId /\ "action_request" \in PrimaryIntent /\ target \in IntentTarget
        /\ "execute" \in IntentTaskAction /\ "unspecified" \in TaskShape /\ "refuse" \in TaskExecutionDecision
    BY DEF TaskId, PrimaryIntent, IntentTarget, IntentTaskAction, TaskShape, TaskExecutionDecision
  <2> HIDE DEF target
  <2> QED  BY <2>1, ItemIs
<1>3. task.depends_on = {}
  BY DEF Item
<1> HIDE DEF task
<1> QED  BY <1>1, <1>2, <1>3, OneItem, InferredItems

\* Tasks that are left out leave the others typed.
LEMMA PickedItems ==
    ASSUME NEW tasks, AreItems(tasks), NEW places \in SUBSET DOMAIN tasks
    PROVE  AreItems(Picked(tasks, places))
BY PickedTasks DEF AreItems

\* Tasks that quote the text.
LEMMA QuotedItems ==
    ASSUME NEW raws, IsShort(raws), \A i \in DOMAIN raws : IsRawTask(raws[i])
    PROVE  AreItems(NormalizeTasks(raws))
<1> DEFINE quoted == {i \in 1 .. Len(raws) : raws[i].grounded}
           item(i) == Item(Nth[i], raws[i].primary_intent, raws[i].target_type, raws[i].action, raws[i].task_shape,
                           raws[i].depends_on \cap {Nth[j] : j \in {j \in quoted : j < i}},
                           raws[i].execution_policy, raws[i].spans)
           items == [i \in 1 .. Len(raws) |-> item(i)]
<1>1. NormalizeTasks(raws) = Picked(items, quoted)
  BY DEF NormalizeTasks
<1>2. PICK n \in 0 .. 3 : Len(raws) = n /\ DOMAIN raws = 1 .. n
  BY ShortLength DEF IsShort
<1>3. quoted \in SUBSET (1 .. n) /\ DOMAIN items = 1 .. n
  BY <1>2
<1>4. IsTasks(NormalizeTasks(raws))
  BY NormalizedTasks DEF IsRawTasks, IsRawTask
<1>5. ASSUME NEW i \in 1 .. n PROVE IsItem(items[i])
  <2> DEFINE needs == raws[i].depends_on \cap {Nth[j] : j \in {j \in quoted : j < i}}
  <2>1. needs \in SUBSET TaskId
    <3>1. \A j \in 1 .. n : Nth[j] \in TaskId
      BY DEF Nth, TaskId
    <3> QED  BY <1>3, <3>1
  <2>2. Nth[i] \in TaskId
    BY DEF Nth, TaskId
  <2>3. items[i] = item(i) /\ IsRawTask(raws[i])
    BY <1>2
  <2> HIDE DEF items, needs, quoted
  <2> QED  BY <2>1, <2>2, <2>3, ItemIs DEF IsRawTask, needs
<1> HIDE DEF items, quoted
<1>6. PICK at \in [1 .. Cardinality(quoted) -> quoted] :
        Picked(items, quoted) = [k \in 1 .. Cardinality(quoted) |-> items[at[k]]]
  <2>1. IsFiniteSet(1 .. n)
    BY FirstNumbers
  <2>2. quoted \in SUBSET Nat /\ IsFiniteSet(quoted)
    <3>1. quoted \in SUBSET (1 .. n) /\ 1 .. n \subseteq Nat
      BY <1>3
    <3> QED  BY <2>1, <3>1, FS_Subset
  <2> QED  BY <2>2, PickedInOrder
<1>7. \A k \in DOMAIN Picked(items, quoted) : IsItem(Picked(items, quoted)[k])
  BY <1>3, <1>5, <1>6
<1> QED  BY <1>1, <1>4, <1>7 DEF AreItems

\* Tasks in the words of their text, of which those that have become the same are one.
LEMMA AppliedItems ==
    ASSUME NEW tasks, AreItems(tasks)
    PROVE  AreItems(ApplyGroundedTaskSemantics(tasks))
<1> DEFINE now == [i \in DOMAIN tasks |-> Became(tasks[i])]
<1>1. IsTasks(now)
  BY BecameTasks DEF AreItems
<1>2. ASSUME NEW i \in DOMAIN now PROVE IsItem(now[i])
  <2> DEFINE t == tasks[i]
             kept == [t EXCEPT !.task_shape = IF @ # "unspecified" THEN @ ELSE PreservedShape(t.primary_intent)]
  <2>1. now[i] = Became(t) /\ IsItem(t)
    BY DEF AreItems
  <2> HIDE DEF now
  <2>2. Became(t) \in {kept, Grounded(t, t.spans)}
    BY DEF Became
  <2> HIDE DEF t
  <2>3. IsItem(kept)
    BY <2>1, ShapesAre DEF IsItem, IsIntentTaskItem
  <2> QED  BY <2>1, <2>2, <2>3, GroundedItem
<1> HIDE DEF now
<1>3. IsTasks(Merged(now)) /\ Renamed(Merged(now), now)
  BY <1>1, MergedTasks
<1>4. ASSUME NEW k \in DOMAIN Merged(now) PROVE IsItem(Merged(now)[k])
  <2>1. PICK i \in DOMAIN now, id \in TaskId, needs \in SUBSET TaskId :
               Merged(now)[k] = [now[i] EXCEPT !.task_id = id, !.depends_on = needs]
    BY <1>3 DEF Renamed
  <2> QED  BY <1>2, <2>1 DEF IsItem, IsIntentTaskItem
<1> QED  BY <1>3, <1>4 DEF AreItems, ApplyGroundedTaskSemantics, now

\* One task for a text that overrules the intent proposed for it.
LEMMA CollapsedItems ==
    ASSUME NEW tasks, AreItems(tasks), NEW m, NEW intent \in PrimaryIntent
    PROVE  AreItems(CollapseTasks(tasks, m, intent))
<1> DEFINE places == {i \in 1 .. Len(tasks) : tasks[i].target_type \in DataTargets}
           own == Picked(tasks, places)
           target == CASE intent = "data_query" -> IF own = <<>> THEN "general" ELSE own[1].target_type
                       [] intent = "investigation" -> "case"
                       [] OTHER -> "general"
           action == CASE intent = "data_query" -> "lookup"
                       [] intent = "investigation" -> "diagnose"
                       [] OTHER -> "explain"
           task == Item("task_1", intent, target, action, GroundedShape(m.signs, intent), {}, "execute", m.signs)
<1>1. CollapseTasks(tasks, m, intent) = <<task>>
  BY DEF CollapseTasks
<1>2. own # <<>> => own[1].target_type \in IntentTarget
  <2>1. PICK n \in 0 .. 3 : DOMAIN tasks = 1 .. n /\ Len(tasks) = n
    BY ShortLength DEF AreItems, IsTasks, IsShort
  <2>2. places \in SUBSET DOMAIN tasks
    BY <2>1
  <2> HIDE DEF places
  <2>3. AreItems(own)
    BY <2>2, PickedItems
  <2> HIDE DEF own
  <2>4. PICK c \in 0 .. 3 : DOMAIN own = 1 .. c /\ own = [i \in 1 .. c |-> own[i]]
    BY <2>3 DEF AreItems, IsTasks, IsShort
  <2>5. own # <<>> => 1 \in DOMAIN own
    BY <2>4
  <2> QED  BY <2>3, <2>5 DEF AreItems, IsItem, IsIntentTaskItem
<1> HIDE DEF own
<1>3. /\ "task_1" \in TaskId /\ target \in IntentTarget /\ action \in IntentTaskAction
      /\ "execute" \in TaskExecutionDecision
  BY <1>2 DEF TaskId, IntentTarget, IntentTaskAction, TaskExecutionDecision
<1> HIDE DEF target, action
<1>4. IsItem(task)
  BY <1>3, ItemIs, ShapesAre
<1>5. task.depends_on = {}
  BY DEF Item
<1> HIDE DEF task
<1> QED  BY <1>1, <1>4, <1>5, OneItem

\* The tasks of an answer of the model.
LEMMA RawItems ==
    ASSUME NEW raw, IsRawUnderstanding(raw), NEW m, NEW primary \in PrimaryIntent
    PROVE  AreItems(NormalizeTasks(raw.task_items)) /\ AreItems(RawTasks(raw, m, primary))
<1> DEFINE quoted == NormalizeTasks(raw.task_items)
           tasks == IF quoted = <<>> THEN InferTasks(m, primary) ELSE quoted
           applied == ApplyGroundedTaskSemantics(tasks)
<1>1. AreItems(quoted)
  BY QuotedItems DEF IsRawUnderstanding
<1> HIDE DEF quoted
<1>2. AreItems(tasks)
  BY <1>1, InferredAreItems
<1> HIDE DEF tasks
<1>3. AreItems(applied)
  BY <1>2, AppliedItems
<1> HIDE DEF applied
<1>4. AreItems(CollapseTasks(applied, m, primary))
  BY <1>3, CollapsedItems
<1>5. RawTasks(raw, m, primary) \in {applied, CollapseTasks(applied, m, primary)}
  BY DEF RawTasks, applied, tasks, quoted
<1> QED  BY <1>1, <1>3, <1>4, <1>5 DEF quoted

\* A task that asks what was said before, alone.
LEMMA RecallIsAnItem ==
    ASSUME NEW tasks, AreItems(tasks), Recalls(tasks) # <<>>
    PROVE  AreItems(<<[Recalls(tasks)[1] EXCEPT !.primary_intent = "conversation"]>>)
<1> DEFINE places == {i \in 1 .. Len(tasks) : /\ tasks[i].target_type = "previous_user_message"
                                              /\ tasks[i].action = "recall"}
           recalls == Picked(tasks, places)
           task == [recalls[1] EXCEPT !.primary_intent = "conversation"]
<1>1. Recalls(tasks) = recalls
  BY DEF Recalls
<1>2. PICK n \in 0 .. 3 : DOMAIN tasks = 1 .. n /\ Len(tasks) = n
  BY ShortLength DEF AreItems, IsTasks, IsShort
<1>3. places \in SUBSET DOMAIN tasks
  BY <1>2
<1> HIDE DEF places
<1>4. AreItems(recalls)
  BY <1>3, PickedItems
<1> HIDE DEF recalls
<1>5. PICK c \in 0 .. 3 : DOMAIN recalls = 1 .. c /\ recalls = [i \in 1 .. c |-> recalls[i]]
  BY <1>4 DEF AreItems, IsTasks, IsShort
<1>6. 1 \in DOMAIN recalls
  BY <1>1, <1>5
<1>7. IsItem(task)
  BY <1>4, <1>6 DEF AreItems, IsItem, IsIntentTaskItem, PrimaryIntent
<1>8. IsTasks(<<task>>)
  BY <1>1, <1>4, RecallIsATask DEF AreItems
<1>9. DOMAIN <<task>> = 1 .. 1 /\ <<task>>[1] = task
  OBVIOUS
<1> HIDE DEF task
<1>10. AreItems(<<task>>)
  BY <1>7, <1>8, <1>9 DEF AreItems
<1> QED  BY <1>1, <1>10 DEF task

-----------------------------------------------------------------------------
(* The slots and the messages that a context holds *)

\* A slot that is known: its value, the message that gave it, and whether it still holds.
IsKnown(slot) ==
    {"value", "source", "valid"} \subseteq DOMAIN slot /\ slot.value \in Value /\ slot.source \in Nat

AreKnown(slots) == DOMAIN slots \subseteq Context_Slot_Names /\ \A n \in DOMAIN slots : IsKnown(slots[n])

\* A message of the thread.
IsEntry(e) == e.id \in Nat /\ (e.role = "user" => e.message \in Message)

IsContext(context) ==
    /\ AreKnown(context.slots)
    /\ Len(context.recent) \in Nat /\ \A i \in 1 .. Len(context.recent) : IsEntry(context.recent[i])

\* A list of ids of messages, and its parts.
AreIds(ids) == ids \in Seq(Nat)

\* What is picked of a list are as many members of it as there are places.
LEMMA PickedMembers ==
    ASSUME NEW seq, NEW n \in Nat, NEW places \in SUBSET (1 .. n)
    PROVE  LET picked == Picked(seq, places)
           IN  /\ Len(picked) \in Nat /\ DOMAIN picked = 1 .. Len(picked)
               /\ \A k \in 1 .. Len(picked) : \E i \in places : picked[k] = seq[i]
               /\ Len(picked) <= n
               /\ picked # <<>> => Len(picked) \in 1 .. Len(picked)
               /\ picked = [k \in 1 .. Len(picked) |-> picked[k]]
<1> DEFINE picked == Picked(seq, places)
           c == Cardinality(places)
<1>1. IsFiniteSet(places) /\ places \in SUBSET Nat /\ c \in Nat /\ c <= n
  <2>1. IsFiniteSet(1 .. n) /\ Cardinality(1 .. n) = n
    BY FirstNumbers
  <2>2. 1 .. n \subseteq Nat
    OBVIOUS
  <2> QED  BY <2>1, <2>2, FS_Subset, FS_CardinalityType
<1>2. PICK at \in [1 .. c -> places] : picked = [k \in 1 .. c |-> seq[at[k]]]
  BY <1>1, PickedInOrder
<1> HIDE DEF picked, c
<1> DEFINE S == {seq[i] : i \in places}
<1>3. picked \in Seq(S)
  <2>1. picked \in [1 .. c -> S]
    BY <1>2
  <2> QED  BY <1>1, <2>1
<1>4. Len(picked) = c
  BY <1>1, <1>2, <1>3
<1>5. \A k \in 1 .. c : \E i \in places : picked[k] = seq[i]
  BY <1>2
<1>6. picked # <<>> => c # 0
  BY <1>2
<1> QED  BY <1>1, <1>2, <1>4, <1>5, <1>6 DEF picked

\* A list of numbers.
LEMMA NumbersAreIds == ASSUME NEW n \in Nat, NEW ids \in [1 .. n -> Nat] PROVE AreIds(ids)
BY DEF AreIds

\* The last message of a role, if there is one.
LEMMA LastMessageIs ==
    ASSUME NEW context, IsContext(context), NEW role
    PROVE  AreIds(LastMessage(context, role))
<1> DEFINE recent == context.recent
           places == {i \in 1 .. Len(recent) : recent[i].role = role}
           own == Picked(recent, places)
<1>1. /\ Len(own) \in Nat
      /\ \A k \in 1 .. Len(own) : \E i \in places : own[k] = recent[i]
      /\ own # <<>> => Len(own) \in 1 .. Len(own)
  <2>1. Len(recent) \in Nat /\ places \in SUBSET (1 .. Len(recent))
    BY DEF IsContext
  <2> HIDE DEF places
  <2> QED  BY <2>1, PickedMembers
<1>2. own # <<>> => own[Len(own)].id \in Nat
  BY <1>1 DEF IsContext, IsEntry
<1>3. LastMessage(context, role) = IF own = <<>> THEN <<>> ELSE <<own[Len(own)].id>>
  BY DEF LastMessage
<1> HIDE DEF own
<1> QED  BY <1>2, <1>3 DEF AreIds

\* The last of the user that is not a mere recall, if there is one.
LEMMA LastSubstantiveIs ==
    ASSUME NEW context, IsContext(context)
    PROVE  /\ LastSubstantive(context) # <<>> => LastSubstantive(context)[1].message \in Message
           /\ AreIds(Ids(LastSubstantive(context)))
<1> DEFINE recent == context.recent
           places == {i \in 1 .. Len(recent) :
                        recent[i].role = "user" /\ "history_recall" \notin Said[recent[i].message].signs}
           own == Picked(recent, places)
<1>1. /\ Len(own) \in Nat
      /\ \A k \in 1 .. Len(own) : \E i \in places : own[k] = recent[i]
      /\ own # <<>> => Len(own) \in 1 .. Len(own)
  <2>1. Len(recent) \in Nat /\ places \in SUBSET (1 .. Len(recent))
    BY DEF IsContext
  <2> HIDE DEF places
  <2> QED  BY <2>1, PickedMembers
<1>2. own # <<>> => own[Len(own)].id \in Nat /\ own[Len(own)].message \in Message
  BY <1>1 DEF IsContext, IsEntry
<1>3. LastSubstantive(context) = IF own = <<>> THEN <<>> ELSE <<own[Len(own)]>>
  BY DEF LastSubstantive
<1> DEFINE e == own[Len(own)]
<1> HIDE DEF own
<1>4. CASE own = <<>>
  <2>1. LastSubstantive(context) = <<>>
    BY <1>3, <1>4
  <2>2. Len(<<>>) = 0 /\ 0 \in Nat
    OBVIOUS
  <2>3. Ids(<<>>) \in [1 .. 0 -> Nat]
    BY <2>2 DEF Ids
  <2> QED  BY <2>1, <2>2, <2>3 DEF AreIds
<1>5. CASE own # <<>>
  <2>1. LastSubstantive(context) = <<e>> /\ e.id \in Nat /\ e.message \in Message
    BY <1>2, <1>3, <1>5
  <2> HIDE DEF e
  <2>2. <<e>>[1] = e /\ <<e>> # <<>> /\ Len(<<e>>) = 1
    OBVIOUS
  <2>3. Ids(<<e>>) = [i \in 1 .. 1 |-> <<e>>[i].id]
    BY <2>2 DEF Ids
  <2>4. Ids(<<e>>) \in [1 .. 1 -> Nat]
    <3>1. ASSUME NEW i \in 1 .. 1 PROVE <<e>>[i].id \in Nat
      <4>1. i = 1
        OBVIOUS
      <4> QED  BY <4>1, <2>1, <2>2
    <3> DEFINE ids == [i \in 1 .. 1 |-> <<e>>[i].id]
    <3>2. ids \in [1 .. 1 -> Nat]
      BY <3>1
    <3> QED  BY <2>3, <3>2
  <2>5. AreIds(Ids(<<e>>))
    BY <2>4, NumbersAreIds, 1 \in Nat, Zenon
  <2>6. <<e>>[1].message \in Message
    BY <2>1, <2>2
  <2> QED  BY <2>1, <2>5, <2>6
<1> QED  BY <1>4, <1>5

\* The messages that said what is inherited.
LEMMA SourcesAre ==
    ASSUME NEW sourced, AreKnown(sourced)
    PROVE  AreIds(Sources(sourced))
<1> DEFINE places == {i \in 1 .. 9 : Slot_Order[i] \in DOMAIN sourced}
           names == Picked(Slot_Order, places)
<1>1. Len(names) \in Nat /\ \A k \in 1 .. Len(names) : \E i \in places : names[k] = Slot_Order[i]
  <2>1. places \in SUBSET (1 .. 9) /\ 9 \in Nat
    OBVIOUS
  <2> HIDE DEF places
  <2> QED  BY <2>1, PickedMembers, Zenon
<1>2. Sources(sourced) = [i \in 1 .. Len(names) |-> sourced[names[i]].source]
  BY DEF Sources
<1>3. \A k \in 1 .. Len(names) : sourced[names[k]].source \in Nat
  <2>1. ASSUME NEW k \in 1 .. Len(names) PROVE names[k] \in DOMAIN sourced
    BY <1>1
  <2> QED  BY <2>1 DEF AreKnown, IsKnown
<1> HIDE DEF names
<1>4. Sources(sourced) \in [1 .. Len(names) -> Nat]
  BY <1>2, <1>3
<1> QED  BY <1>1, <1>4 DEF AreIds

\* The slots that still hold, and their values.
LEMMA ValidSlotsAre ==
    ASSUME NEW context, AreKnown(context.slots)
    PROVE  AreKnown(ValidContextSlots(context))
BY DEF AreKnown, ValidContextSlots

\* Values of known slots.
LEMMA ValuesAre ==
    ASSUME NEW sourced, AreKnown(sourced)
    PROVE  IsSlots(Values(sourced)) /\ Inherit(sourced) \subseteq SlotOperation
<1>1. IsSlots(Values(sourced))
  BY DEF AreKnown, IsKnown, Values, IsSlots
<1>2. ASSUME NEW n \in DOMAIN sourced
      PROVE  [operation |-> "inherit", slot_name |-> n, value |-> sourced[n].value] \in SlotOperation
  BY DEF AreKnown, IsKnown, SlotOperation
<1> QED  BY <1>1, <1>2 DEF Inherit

\* No slots.
LEMMA NoSlotsAre == IsSlots(NoSlots) /\ AreKnown(NoSlots) /\ NoSlots = Values(NoSlots)
BY DEF NoSlots, IsSlots, AreKnown, Values

\* Slots laid over slots.
LEMMA OverlaidSlots ==
    ASSUME NEW old, NEW new, IsSlots(old), IsSlots(new)
    PROVE  IsSlots(Overlay(old, new))
BY DEF IsSlots, Overlay

\* The slots a text names.
LEMMA ExplicitSlotsAre ==
    ASSUME NEW m, IsMessage(m)
    PROVE  IsSlots(ExplicitSlots(m))
<1>1. CASE m.correction = None
  BY <1>1 DEF ExplicitSlots, IsMessage
<1>2. CASE m.correction # None
  <2> DEFINE corrected == [n \in {m.correction.slot} |-> m.correction.new]
  <2>1. IsSlots(corrected)
    BY <1>2 DEF IsSlots, IsMessage
  <2>2. ExplicitSlots(m) = Overlay(m.slots, corrected) /\ IsSlots(m.slots)
    BY <1>2 DEF ExplicitSlots, IsMessage
  <2> HIDE DEF corrected
  <2> QED  BY <2>1, <2>2, OverlaidSlots
<1> QED  BY <1>1, <1>2

\* A value that is proposed and stands in the text.
LEMMA ProposedSlotsAre ==
    ASSUME NEW m, IsMessage(m), NEW slots
    PROVE  LET proposed == {n \in DOMAIN slots : SlotValueIsGrounded(m, n, slots[n])}
           IN  IsSlots([n \in proposed |-> slots[n]])
BY DEF SlotValueIsGrounded, IsMessage, IsSlots

\* What is done to the slots of the conversation.
LEMMA OperationsAre ==
    ASSUME NEW operations, \A o \in operations : o.operation \in {"set", "inherit", "correct", "clear"},
           NEW explicit, IsSlots(explicit), NEW known, AreKnown(known)
    PROVE  NormalizeOperations(operations, explicit, known) \subseteq SlotOperation
<1>1. ASSUME NEW o \in operations, o.operation \in {"set", "correct"} /\ o.slot_name \in DOMAIN explicit
      PROVE  [operation |-> o.operation, slot_name |-> o.slot_name, value |-> explicit[o.slot_name]] \in SlotOperation
  BY <1>1 DEF SlotOperation, IsSlots
<1>2. ASSUME NEW o \in operations, o.operation = "inherit" /\ o.slot_name \in DOMAIN known
      PROVE  [operation |-> "inherit", slot_name |-> o.slot_name, value |-> known[o.slot_name].value] \in SlotOperation
  BY <1>2 DEF SlotOperation, AreKnown, IsKnown
<1>3. ASSUME NEW o \in operations, o.operation = "clear" /\ o.slot_name \in Context_Slot_Names
      PROVE  [operation |-> "clear", slot_name |-> o.slot_name, value |-> None] \in SlotOperation
  BY <1>3 DEF SlotOperation
<1> QED  BY <1>1, <1>2, <1>3 DEF NormalizeOperations

UnderstandingFields ==
    {"interaction_mode", "primary_intent", "task_items", "knowledge_scope", "expected_output", "slot_operations",
     "explicit_slots", "inherited_slots", "context_message_ids", "cancel_scope", "clarification_relation",
     "suggested_route", "confidence"}

\* An understanding with every field that something is decided by.
IsFull(u) ==
    /\ UnderstandingFields \subseteq DOMAIN u
    /\ u.interaction_mode \in InteractionMode /\ u.primary_intent \in PrimaryIntent
    /\ AreItems(u.task_items)
    /\ u.knowledge_scope \in KnowledgeScope /\ u.expected_output \in ExpectedOutput
    /\ u.slot_operations \subseteq SlotOperation
    /\ IsSlots(u.explicit_slots) /\ IsSlots(u.inherited_slots)
    /\ AreIds(u.context_message_ids)
    /\ u.cancel_scope \in CancelScope \cup {None}
    /\ u.clarification_relation \in ClarificationTurnRelation \cup {None}
    /\ u.suggested_route \in AgentRoute
    /\ u.confidence \in 0 .. 100

\* It is an understanding.
LEMMA FullIsTyped ==
    ASSUME NEW u, IsFull(u)
    PROVE  IsUnderstanding(u)
<1>1. PICK n \in 0 .. 3 : DOMAIN u.task_items = 1 .. n /\ Len(u.task_items) = n
  BY ShortLength DEF IsFull, AreItems, IsTasks, IsShort
<1>2. Len(u.task_items) <= 3 /\ \A task \in Of(u.task_items) : IsIntentTaskItem(task)
  BY <1>1 DEF IsFull, AreItems, IsItem, Of
<1>3. Of(u.context_message_ids) \subseteq Nat
  BY DEF IsFull, AreIds, Of
<1> QED  BY <1>2, <1>3 DEF IsFull, IsUnderstanding

\* One that is made of typed parts.
LEMMA FullIs ==
    ASSUME NEW mode \in InteractionMode, NEW intent \in PrimaryIntent, NEW tasks, AreItems(tasks),
           NEW scope \in KnowledgeScope, NEW output \in ExpectedOutput, NEW operations \in SUBSET SlotOperation,
           NEW explicit, IsSlots(explicit), NEW inherited, IsSlots(inherited), NEW ids, AreIds(ids),
           NEW cancel \in CancelScope \cup {None}, NEW relation \in ClarificationTurnRelation \cup {None},
           NEW route \in AgentRoute, NEW confidence \in 0 .. 100
    PROVE  IsFull([interaction_mode |-> mode, primary_intent |-> intent, task_items |-> tasks,
                   knowledge_scope |-> scope, expected_output |-> output, slot_operations |-> operations,
                   explicit_slots |-> explicit, inherited_slots |-> inherited, context_message_ids |-> ids,
                   cancel_scope |-> cancel, clarification_relation |-> relation, suggested_route |-> route,
                   confidence |-> confidence])
BY DEF IsFull, UnderstandingFields

\* An empty list.
LEMMA NoIds == AreIds(<<>>)
BY DEF AreIds

\* What has a fixed form.
LEMMA DirectIs ==
    ASSUME NEW mode \in InteractionMode, NEW intent \in PrimaryIntent, NEW target \in IntentTarget,
           NEW action \in IntentTaskAction, NEW route \in AgentRoute, NEW ids, AreIds(ids)
    PROVE  IsFull(Direct(mode, intent, target, action, route, ids))
<1> DEFINE task == Item("task_1", intent, target, action, "unspecified", {}, "execute", {})
<1>1. IsItem(task)
  <2>1. "task_1" \in TaskId /\ "unspecified" \in TaskShape /\ "execute" \in TaskExecutionDecision
    BY DEF TaskId, TaskShape, TaskExecutionDecision
  <2> QED  BY <2>1, ItemIs
<1>2. task.depends_on = {}
  BY DEF Item
<1>3. Direct(mode, intent, target, action, route, ids) =
        [interaction_mode |-> mode, primary_intent |-> intent, task_items |-> <<task>>,
         knowledge_scope |-> "unspecified", expected_output |-> "unspecified",
         slot_operations |-> {}, explicit_slots |-> NoSlots, inherited_slots |-> NoSlots,
         context_message_ids |-> ids, cancel_scope |-> None, clarification_relation |-> None,
         suggested_route |-> route, confidence |-> 99]
  BY DEF Direct
<1> HIDE DEF task
<1>4. AreItems(<<task>>)
  BY <1>1, <1>2, OneItem
<1> DEFINE tasks == <<task>>
           unspecified == "unspecified"
           operations == {}
<1> HIDE DEF tasks
<1>5. /\ unspecified \in KnowledgeScope /\ unspecified \in ExpectedOutput /\ 99 \in 0 .. 100
      /\ operations \in SUBSET SlotOperation /\ None \in CancelScope \cup {None}
      /\ None \in ClarificationTurnRelation \cup {None}
  BY DEF KnowledgeScope, ExpectedOutput
<1>6. AreItems(tasks)
  BY <1>4 DEF tasks
<1> HIDE DEF unspecified, operations
<1>7. IsFull([interaction_mode |-> mode, primary_intent |-> intent, task_items |-> tasks,
              knowledge_scope |-> unspecified, expected_output |-> unspecified,
              slot_operations |-> operations, explicit_slots |-> NoSlots, inherited_slots |-> NoSlots,
              context_message_ids |-> ids, cancel_scope |-> None, clarification_relation |-> None,
              suggested_route |-> route, confidence |-> 99])
  BY <1>5, <1>6, NoSlotsAre DEF IsFull, UnderstandingFields
<1> QED  BY <1>3, <1>7 DEF tasks, unspecified, operations

\* A task that is not the server's.
LEMMA OutOfScopeIs ==
    ASSUME NEW action \in IntentTaskAction
    PROVE  AreItems(<<OutOfScope(action)>>)
<1>1. /\ "task_1" \in TaskId /\ "action_request" \in PrimaryIntent /\ "general" \in IntentTarget
      /\ "unspecified" \in TaskShape /\ "refuse" \in TaskExecutionDecision
  BY DEF TaskId, PrimaryIntent, IntentTarget, TaskShape, TaskExecutionDecision
<1>2. IsItem(OutOfScope(action))
  BY <1>1, ItemIs DEF OutOfScope
<1>3. OutOfScope(action).depends_on = {}
  BY DEF OutOfScope, Item
<1> QED  BY <1>2, <1>3, OneItem

\* Scope and output of an answer, and the route that is suggested.
LEMMA GroundedParts ==
    ASSUME NEW signs, NEW intent, NEW targets
    PROVE  /\ \A fallback \in KnowledgeScope : GroundedScope(signs, intent, targets, fallback) \in KnowledgeScope
           /\ \A fallback \in ExpectedOutput : GroundedOutput(signs, intent, fallback) \in ExpectedOutput
BY DEF GroundedScope, GroundedOutput, KnowledgeScope, ExpectedOutput

\* The suggestion of a route.
LEMMA SuggestedRoute ==
    ASSUME NEW primary, NEW m, NEW tasks
    PROVE  SuggestRoute(primary, m, tasks) \in AgentRoute
BY DEF SuggestRoute, AgentRoute

\* What the words alone tell.
LEMMA WordsTell ==
    ASSUME NEW signs, NEW pending, NEW outside
    PROVE  HeuristicIntent(signs) \in PrimaryIntent /\ HeuristicMode(signs, pending, outside) \in InteractionMode
BY DEF HeuristicIntent, HeuristicMode, PrimaryIntent, InteractionMode

\* The words of a text give an intent for an intent.
LEMMA IntentIsGrounded ==
    ASSUME NEW signs, NEW proposed \in PrimaryIntent
    PROVE  /\ GroundedIntent(signs, proposed) \in PrimaryIntent
           /\ NormalizePrimaryIntent(proposed, signs) \in PrimaryIntent
<1>1. GroundedIntent(signs, proposed) \in PrimaryIntent
  BY GroundedIntents DEF PrimaryIntent
<1>2. NormalizePrimaryIntent(proposed, signs) \in PrimaryIntent
  BY DEF NormalizePrimaryIntent, PrimaryIntent
<1> QED  BY <1>1, <1>2

\* Lists of ids joined.
LEMMA JoinedIds == ASSUME NEW a, NEW b, AreIds(a), AreIds(b) PROVE AreIds(a \o b)
BY DEF AreIds

\* What the heuristics make of typed tasks.
LEMMA GuessedIs ==
    ASSUME NEW m, IsMessage(m), NEW context, IsContext(context), NEW pending, NEW outside,
           NEW primary \in PrimaryIntent, NEW tasks, AreItems(tasks), NEW targets
    PROVE  IsFull(Guessed(m, context, pending, outside, primary, tasks, targets))
<1> DEFINE signs == m.signs
           inherited == IF "reference" \in signs THEN ValidContextSlots(context) ELSE NoSlots
           explicit == ExplicitSlots(m)
           asks(target) == \E t \in Of(tasks) : t.target_type = target
           answer == IF asks("previous_answer") THEN LastMessage(context, "assistant") ELSE <<>>
           asked == IF asks("previous_user_message") THEN Ids(LastSubstantive(context)) ELSE <<>>
           ids == answer \o asked \o Sources(inherited)
           told == {[operation |-> "set", slot_name |-> n, value |-> explicit[n]] : n \in DOMAIN explicit}
           operations == Inherit(inherited) \cup told
           scope == GroundedScope(signs, primary, targets, "unspecified")
           output == GroundedOutput(signs, primary, "unspecified")
           mode == HeuristicMode(signs, pending, outside)
           route == SuggestRoute(primary, m, tasks)
           u == [interaction_mode |-> mode, primary_intent |-> primary, task_items |-> tasks,
                 knowledge_scope |-> scope, expected_output |-> output, slot_operations |-> operations,
                 explicit_slots |-> explicit, inherited_slots |-> Values(inherited), context_message_ids |-> ids,
                 cancel_scope |-> None, clarification_relation |-> None, suggested_route |-> route,
                 confidence |-> 82]
<1>1. Guessed(m, context, pending, outside, primary, tasks, targets) = u
  BY DEF Guessed
<1>2. AreKnown(inherited)
  BY ValidSlotsAre, NoSlotsAre DEF IsContext
<1>3. AreIds(answer) /\ AreIds(asked)
  BY LastMessageIs, LastSubstantiveIs, NoIds
<1>4. scope \in KnowledgeScope /\ output \in ExpectedOutput
  <2>1. "unspecified" \in KnowledgeScope /\ "unspecified" \in ExpectedOutput
    BY DEF KnowledgeScope, ExpectedOutput
  <2> QED  BY <2>1, GroundedParts
<1>5. mode \in InteractionMode /\ route \in AgentRoute /\ 82 \in 0 .. 100
  BY WordsTell, SuggestedRoute
<1>6. IsSlots(explicit)
  BY ExplicitSlotsAre
<1> HIDE DEF inherited, answer, asked, scope, output, mode, route, explicit
<1>7. AreIds(ids)
  <2>1. AreIds(answer \o asked)
    BY <1>3, JoinedIds
  <2>2. AreIds(Sources(inherited))
    BY <1>2, SourcesAre
  <2> QED  BY <2>1, <2>2, JoinedIds
<1>8. operations \in SUBSET SlotOperation
  <2>1. told \subseteq SlotOperation
    BY <1>6 DEF IsSlots, SlotOperation
  <2> QED  BY <2>1, <1>2, ValuesAre
<1>9. IsSlots(Values(inherited))
  BY <1>2, ValuesAre
<1> HIDE DEF ids, operations
<1>10. IsFull(u)
  BY <1>4, <1>5, <1>6, <1>7, <1>8, <1>9, SMTT(60) DEF IsFull, UnderstandingFields
<1> QED  BY <1>1, <1>10

\* What the heuristics make of a message.
LEMMA HeuristicIs ==
    ASSUME NEW m, IsMessage(m), NEW context, IsContext(context), NEW pending
    PROVE  IsFull(Heuristic(m, context, pending))
<1> DEFINE read == HeuristicIntent(m.signs)
           outside == RequiresCapabilityBoundary(m, read, pending, FALSE)
           first == IF outside THEN "action_request" ELSE read
           primary == GroundedIntent(m.signs, first)
           tasks(intent) == IF outside THEN <<OutOfScope("execute")>> ELSE InferTasks(m, intent)
           targets == {t.target_type : t \in Of(tasks(first))}
<1>1. Heuristic(m, context, pending) = Guessed(m, context, pending, outside, primary, tasks(primary), targets)
  BY DEF Heuristic
<1>2. first \in PrimaryIntent
  BY WordsTell DEF PrimaryIntent
<1>3. primary \in PrimaryIntent
  BY <1>2, IntentIsGrounded
<1> HIDE DEF first, primary
<1>4. AreItems(tasks(primary))
  <2>1. "execute" \in IntentTaskAction
    BY DEF IntentTaskAction
  <2> QED  BY <2>1, <1>3, OutOfScopeIs, InferredAreItems
<1> DEFINE guessed == tasks(primary)
<1> HIDE DEF outside, guessed, targets
<1>5. IsFull(Guessed(m, context, pending, outside, primary, guessed, targets))
  BY <1>3, <1>4, GuessedIs DEF guessed
<1> QED  BY <1>1, <1>5 DEF guessed

\* A fixed form about the evidence.
LEMMA PlainReuse == ASSUME NEW prior, NEW known PROVE IsFull(Reused(prior, <<>>, known))
<1>1. /\ "task" \in InteractionMode /\ "knowledge_query" \in PrimaryIntent /\ "general" \in IntentTarget
      /\ "explain" \in IntentTaskAction /\ "reuse_evidence" \in AgentRoute
  BY DEF InteractionMode, PrimaryIntent, IntentTarget, IntentTaskAction, AgentRoute
<1>2. Reused(prior, <<>>, known) = Direct("task", "knowledge_query", "general", "explain", "reuse_evidence", <<>>)
  BY DEF Reused
<1> QED  BY <1>1, <1>2, DirectIs, NoIds

\* The lookups of the last request.
LEMMA ReusedIs ==
    ASSUME NEW prior, IsFull(prior), NEW tasks, AreItems(tasks), NEW known, AreKnown(known)
    PROVE  IsFull(Reused(prior, tasks, known))
<1>1. CASE tasks = <<>>
  BY <1>1, PlainReuse
<1>2. CASE tasks # <<>>
  <2> DEFINE operations == Inherit(known)
             values == Values(known)
             intent == tasks[1].primary_intent
             none == NoSlots
             empty == <<>>
             asked == [prior EXCEPT !.interaction_mode = "task", !.primary_intent = intent, !.task_items = tasks,
                                    !.slot_operations = operations, !.explicit_slots = none]
             u == [asked EXCEPT !.inherited_slots = values, !.context_message_ids = empty,
                                !.suggested_route = "reuse_evidence", !.confidence = 99]
  <2>1. Reused(prior, tasks, known) = u
    BY <1>2 DEF Reused
  <2>2. 1 \in DOMAIN tasks
    BY <1>2 DEF AreItems, IsTasks, IsShort
  <2>3. intent \in PrimaryIntent
    BY <2>2 DEF AreItems, IsItem, IsIntentTaskItem
  <2>4. operations \subseteq SlotOperation /\ IsSlots(values) /\ IsSlots(none) /\ AreIds(empty)
    BY ValuesAre, NoSlotsAre, NoIds
  <2> HIDE DEF operations, values, none, empty, intent
  <2>5. IsFull(asked)
    BY <2>3, <2>4 DEF IsFull, UnderstandingFields, InteractionMode
  <2> HIDE DEF asked
  <2>6. IsFull(u)
    BY <2>4, <2>5 DEF IsFull, UnderstandingFields, AgentRoute
  <2> QED  BY <2>1, <2>6
<1> QED  BY <1>1, <1>2

\* A question about the evidence.
LEMMA FollowupIs ==
    ASSUME NEW context, IsContext(context)
    PROVE  IsFull(EvidenceFollowup(context))
<1> DEFINE last == LastSubstantive(context)
           m == Said[last[1].message]
           prior == Heuristic(m, context, FALSE)
           tasks == prior.task_items
           places == {i \in 1 .. Len(tasks) : /\ tasks[i].execution_policy = "execute"
                                              /\ tasks[i].primary_intent \in
                                                   {"knowledge_query", "data_query", "investigation"}}
           known == ValidContextSlots(context)
<1>1. CASE last = <<>>
  <2>1. EvidenceFollowup(context) = Reused(None, <<>>, NoSlots)
    BY <1>1 DEF EvidenceFollowup
  <2> QED  BY <2>1, PlainReuse
<1>2. CASE last # <<>>
  <2>1. EvidenceFollowup(context) = Reused(prior, Reusable(tasks), known)
    BY <1>2 DEF EvidenceFollowup
  <2>2. IsMessage(m)
    BY <1>2, LastSubstantiveIs, SaidAssumption
  <2> HIDE DEF m
  <2>3. IsFull(prior)
    BY <2>2, HeuristicIs
  <2> HIDE DEF prior
  <2>4. AreItems(tasks)
    BY <2>3 DEF IsFull
  <2> HIDE DEF tasks
  <2>5. Reusable(tasks) = Picked(tasks, places)
    BY DEF Reusable
  <2>6. PICK n \in 0 .. 3 : DOMAIN tasks = 1 .. n /\ Len(tasks) = n
    BY <2>4, ShortLength DEF AreItems, IsTasks, IsShort
  <2>7. places \in SUBSET DOMAIN tasks
    BY <2>6
  <2> HIDE DEF places
  <2>8. AreItems(Reusable(tasks))
    BY <2>4, <2>5, <2>7, PickedItems
  <2>9. AreKnown(known)
    BY ValidSlotsAre DEF IsContext
  <2> HIDE DEF known
  <2> QED  BY <2>1, <2>3, <2>8, <2>9, ReusedIs
<1> QED  BY <1>1, <1>2

\* The fixed forms.
LEMMA FixedIs ==
    ASSUME NEW m, IsMessage(m), NEW context, IsContext(context)
    PROVE  IsFull(L0(m, context))
<1> DEFINE signs == m.signs
           control == Direct("control", "conversation", "general", "execute", "chat_direct", <<>>)
           answer == LastMessage(context, "assistant")
           ids == Ids(LastSubstantive(context))
           image == Direct("task", "knowledge_query", "wafer_map", "lookup", "internal_rag", <<>>)
           recall == Direct("conversation", "conversation", "previous_user_message", "recall", "chat_direct", ids)
           mode == IF "feedback" \in signs THEN "feedback" ELSE "conversation"
           rewrite == Direct(mode, "content_task", "previous_answer", Rewrite(signs), "chat_direct", answer)
           feedback == Direct("feedback", "conversation", "previous_answer", "explain", "chat_direct", answer)
           scope == IF "stop_generation" \in signs THEN "current_generation"
                    ELSE IF "drop_questions" \in signs THEN "clarification" ELSE "current_task"
           cancel == [control EXCEPT !.cancel_scope = scope]
           slots == [n \in {m.correction.slot} |-> m.correction.new]
           operations == {[operation |-> "correct", slot_name |-> m.correction.slot, value |-> m.correction.new]}
           corrected == [control EXCEPT !.explicit_slots = slots, !.slot_operations = operations]
           talk == Direct("conversation", "conversation", "general", "explain", "chat_direct", <<>>)
<1>1. /\ {"control", "task", "conversation", "feedback"} \subseteq InteractionMode
      /\ {"conversation", "knowledge_query", "content_task"} \subseteq PrimaryIntent
      /\ {"general", "wafer_map", "previous_user_message", "previous_answer"} \subseteq IntentTarget
      /\ {"execute", "lookup", "recall", "explain"} \subseteq IntentTaskAction
      /\ {"chat_direct", "internal_rag"} \subseteq AgentRoute
  BY DEF InteractionMode, PrimaryIntent, IntentTarget, IntentTaskAction, AgentRoute
<1>2. AreIds(answer) /\ AreIds(ids) /\ AreIds(<<>>)
  BY LastMessageIs, LastSubstantiveIs, NoIds
<1>3. mode \in InteractionMode /\ Rewrite(signs) \in IntentTaskAction
  BY DEF InteractionMode, Rewrite, IntentTaskAction
<1>4. L0(m, context) =
        IF IsEvidenceFollowup(m) /\ HasValidEvidence(context) THEN EvidenceFollowup(context)
        ELSE IF "image_asset" \in signs /\ ~Bears(signs, {"time", "image_live"}) THEN image
        ELSE IF "history_recall" \in signs THEN recall
        ELSE IF "previous_answer" \in signs /\ "contains_business" \notin signs THEN rewrite
        ELSE IF "feedback" \in signs THEN feedback
        ELSE IF "cancel" \in signs THEN cancel
        ELSE IF m.correction # None THEN corrected ELSE talk
  BY DEF L0
<1> HIDE DEF answer, ids, mode
<1>5. IsFull(control)
  BY <1>1, <1>2, DirectIs
<1>6. IsFull(image)
  BY <1>1, <1>2, DirectIs
<1>7. IsFull(recall)
  BY <1>1, <1>2, DirectIs
<1>8. IsFull(rewrite)
  BY <1>1, <1>2, <1>3, DirectIs
<1>9. IsFull(feedback)
  BY <1>1, <1>2, DirectIs
<1>10. IsFull(talk)
  BY <1>1, <1>2, DirectIs
<1>11. IsFull(EvidenceFollowup(context))
  BY FollowupIs
<1> HIDE DEF control, image, recall, rewrite, feedback, talk
<1>12. IsFull(cancel)
  <2>1. scope \in CancelScope
    BY DEF CancelScope
  <2> HIDE DEF scope
  <2> QED  BY <1>5, <2>1 DEF IsFull, UnderstandingFields
<1>13. m.correction # None => IsFull(corrected)
  <2> SUFFICES ASSUME m.correction # None PROVE IsFull(corrected)
    OBVIOUS
  <2>1. m.correction.slot \in Context_Slot_Names /\ m.correction.new \in Value
    BY DEF IsMessage
  <2>2. IsSlots(slots) /\ operations \subseteq SlotOperation
    BY <2>1 DEF IsSlots, SlotOperation
  <2> HIDE DEF slots, operations
  <2> QED  BY <1>5, <2>2 DEF IsFull, UnderstandingFields
<1> HIDE DEF cancel, corrected
<1> QED  BY <1>4, <1>6, <1>7, <1>8, <1>9, <1>10, <1>11, <1>12, <1>13

\* What is left of the ids that the model names.
LEMMA OwnIds ==
    ASSUME NEW told, AreIds(told), NEW places \in SUBSET (1 .. Len(told))
    PROVE  AreIds(Picked(told, places))
<1> DEFINE own == Picked(told, places)
<1>1. Len(told) \in Nat /\ \A i \in 1 .. Len(told) : told[i] \in Nat
  BY DEF AreIds
<1>2. /\ Len(own) \in Nat /\ \A k \in 1 .. Len(own) : \E i \in places : own[k] = told[i]
      /\ own = [k \in 1 .. Len(own) |-> own[k]]
  BY <1>1, PickedMembers
<1> HIDE DEF own
<1>3. \A k \in 1 .. Len(own) : own[k] \in Nat
  BY <1>1, <1>2
<1>4. own \in [1 .. Len(own) -> Nat]
  BY <1>2, <1>3
<1> QED  BY <1>2, <1>4, NumbersAreIds DEF own

\* The mode of an answer of the model.
LEMMA ModeIs ==
    ASSUME NEW proposed \in InteractionMode, NEW primary, NEW signs, NEW pending
    PROVE  NormalizeInteractionMode(proposed, primary, signs, pending) \in InteractionMode
BY DEF NormalizeInteractionMode, InteractionMode

\* What the model answers, after its tasks and the intent have been looked at.
LEMMA NormalizedIs ==
    ASSUME NEW raw, IsRawUnderstanding(raw), NEW m, IsMessage(m), NEW context, IsContext(context), NEW pending,
           NEW turn \in PrimaryIntent, NEW tasks, AreItems(tasks)
    PROVE  IsFull(Normalized(raw, m, context, pending, turn, tasks, Recalls(tasks)))
<1> DEFINE signs == m.signs
           recalls == Recalls(tasks)
           read == ExplicitSlots(m)
           proposed == {n \in DOMAIN raw.explicit_slots : SlotValueIsGrounded(m, n, raw.explicit_slots[n])}
           explicit == Overlay(read, [n \in proposed |-> raw.explicit_slots[n]])
           known == ValidContextSlots(context)
           inherited == [n \in raw.inherited_slot_names \cap DOMAIN known |-> known[n].value]
           targets == {t.target_type : t \in Of(NormalizeTasks(raw.task_items))}
           recallOnly == recalls # <<>> /\ Len(tasks) = 1
           rewrites == \E t \in Of(tasks) : t.target_type = "previous_answer" /\ t.action \in Rewriting \cup {"recall"}
           primary == IF recallOnly THEN "conversation" ELSE turn
           served == IF recallOnly THEN <<[recalls[1] EXCEPT !.primary_intent = "conversation"]>>
                     ELSE IF primary # raw.primary_intent \/ Writes(signs) \/ "make_report" \in signs
                     THEN InferTasks(m, primary)
                     ELSE tasks
           told == raw.context_message_ids
           own == Picked(told, {i \in 1 .. Len(told) : told[i] \in Of(Ids(context.recent))})
           answer == IF rewrites THEN LastMessage(context, "assistant") ELSE <<>>
           asked == IF recalls # <<>> THEN Ids(LastSubstantive(context)) ELSE <<>>
           kept == IF recallOnly THEN <<>> ELSE own
           ids == answer \o asked \o kept
           relation == IF raw.clarification_relation = "cancel_current" /\ "cancel" \notin signs
                       THEN "ambiguous" ELSE raw.clarification_relation
           answering == pending /\ relation \notin {"replace_with_new_request", "side_conversation", "cancel_current"}
           outside == RequiresCapabilityBoundary(m, primary, answering, ids # <<>>)
           final == IF outside THEN "action_request" ELSE primary
           mode == NormalizeInteractionMode(IF recallOnly THEN "conversation" ELSE raw.interaction_mode,
                                            final, signs, answering)
           items == IF outside THEN <<OutOfScope("explain")>> ELSE served
           scope == GroundedScope(signs, turn, targets, raw.knowledge_scope)
           output == GroundedOutput(signs, turn, raw.expected_output)
           operations == NormalizeOperations(raw.slot_operations, explicit, known)
           messages == IF outside THEN <<>> ELSE ids
           cancel == IF "cancel" \in signs THEN raw.cancel_scope ELSE None
           route == IF outside THEN "refuse"
                    ELSE IF recallOnly \/ raw.suggested_route = "history_direct" THEN "chat_direct"
                    ELSE raw.suggested_route
           confidence == raw.confidence
           u == [interaction_mode |-> mode, primary_intent |-> final, task_items |-> items,
                 knowledge_scope |-> scope, expected_output |-> output, slot_operations |-> operations,
                 explicit_slots |-> explicit, inherited_slots |-> inherited, context_message_ids |-> messages,
                 cancel_scope |-> cancel, clarification_relation |-> relation, suggested_route |-> route,
                 confidence |-> confidence]
<1>1. Normalized(raw, m, context, pending, turn, tasks, recalls) = u
  BY DEF Normalized
<1>2. IsSlots(explicit) /\ AreKnown(known)
  <2>1. IsSlots(read) /\ IsSlots([n \in proposed |-> raw.explicit_slots[n]])
    BY ExplicitSlotsAre, ProposedSlotsAre
  <2> QED  BY <2>1, OverlaidSlots, ValidSlotsAre DEF IsContext
<1> HIDE DEF explicit, known
<1>3. IsSlots(inherited)
  BY <1>2 DEF IsSlots, AreKnown, IsKnown
<1>4. operations \in SUBSET SlotOperation
  <2>1. \A o \in raw.slot_operations : o.operation \in {"set", "inherit", "correct", "clear"}
    BY DEF IsRawUnderstanding
  <2> QED  BY <1>2, <2>1, OperationsAre
<1>5. AreItems(served) /\ primary \in PrimaryIntent
  <2>1. primary \in PrimaryIntent
    BY DEF PrimaryIntent
  <2>2. recalls # <<>> => AreItems(<<[recalls[1] EXCEPT !.primary_intent = "conversation"]>>)
    BY RecallIsAnItem
  <2> HIDE DEF primary, recalls
  <2>3. AreItems(InferTasks(m, primary))
    BY <2>1, InferredAreItems
  <2> QED  BY <2>1, <2>2, <2>3
<1> HIDE DEF served
<1>6. AreIds(ids)
  <2>1. AreIds(told)
    BY DEF IsRawUnderstanding, AreIds
  <2> DEFINE places == {i \in 1 .. Len(told) : told[i] \in Of(Ids(context.recent))}
  <2>2. AreIds(own)
    <3>1. places \in SUBSET (1 .. Len(told)) /\ own = Picked(told, places)
      OBVIOUS
    <3> HIDE DEF places, told, own
    <3> QED  BY <2>1, <3>1, OwnIds
  <2>3. AreIds(answer) /\ AreIds(asked) /\ AreIds(kept)
    BY <2>2, LastMessageIs, LastSubstantiveIs, NoIds
  <2> HIDE DEF answer, asked, kept
  <2>4. AreIds(answer \o asked)
    BY <2>3, JoinedIds
  <2> QED  BY <2>3, <2>4, JoinedIds
<1> HIDE DEF ids
<1>7. scope \in KnowledgeScope /\ output \in ExpectedOutput
  BY GroundedParts DEF IsRawUnderstanding
<1>8. /\ relation \in ClarificationTurnRelation \cup {None}
      /\ cancel \in CancelScope \cup {None} /\ confidence \in 0 .. 100
  BY DEF IsRawUnderstanding, ClarificationTurnRelation
<1>9. AreIds(messages)
  BY <1>6, NoIds
<1>10. final \in PrimaryIntent /\ route \in AgentRoute
  BY <1>5 DEF IsRawUnderstanding, PrimaryIntent, AgentRoute
<1>11. AreItems(items)
  <2>1. "explain" \in IntentTaskAction
    BY DEF IntentTaskAction
  <2> QED  BY <1>5, <2>1, OutOfScopeIs
<1>12. mode \in InteractionMode
  <2> DEFINE meant == IF recallOnly THEN "conversation" ELSE raw.interaction_mode
  <2>1. meant \in InteractionMode
    BY DEF IsRawUnderstanding, InteractionMode
  <2> HIDE DEF meant, final, answering
  <2>2. mode = NormalizeInteractionMode(meant, final, signs, answering)
    BY DEF meant
  <2> QED  BY <2>1, <2>2, ModeIs
<1> HIDE DEF inherited, operations, scope, output, relation, cancel, confidence, messages, final, route, items, mode
<1>13. IsFull(u)
  BY <1>2, <1>3, <1>4, <1>7, <1>8, <1>9, <1>10, <1>11, <1>12 DEF IsFull, UnderstandingFields
<1> QED  BY <1>1, <1>13

\* What the model answers.
LEMMA NormalizedRawIs ==
    ASSUME NEW raw, IsRawUnderstanding(raw), NEW m, IsMessage(m), NEW context, IsContext(context), NEW pending
    PROVE  IsFull(NormalizeRaw(raw, m, context, pending))
<1> DEFINE turn == GroundedIntent(m.signs, NormalizePrimaryIntent(raw.primary_intent, m.signs))
           tasks == RawTasks(raw, m, turn)
<1>1. NormalizeRaw(raw, m, context, pending) = Normalized(raw, m, context, pending, turn, tasks, Recalls(tasks))
  BY DEF NormalizeRaw
<1>2. turn \in PrimaryIntent
  BY IntentIsGrounded DEF IsRawUnderstanding
<1> HIDE DEF turn
<1>3. AreItems(tasks)
  BY <1>2, RawItems
<1> HIDE DEF tasks
<1> QED  BY <1>1, <1>2, <1>3, NormalizedIs

\* A message is understood in full, whatever is made of it.
LEMMA UnderstoodInFull ==
    ASSUME NEW message \in Message, NEW context, IsContext(context), NEW raw \in RawUnderstandings(Raws(message)),
           NEW pending
    PROVE  IsFull(Understand(Said[message], context, raw, pending))
<1> DEFINE m == Said[message]
<1>1. IsMessage(m)
  BY SaidAssumption
<1>2. raw = None \/ raw \in Raws(message)
  BY DEF RawUnderstandings, Calls, Repaired
<1>3. raw # None => IsRawUnderstanding(raw)
  BY <1>2, RawsAssumption
<1> HIDE DEF m
<1>4. IsFull(L0(m, context)) /\ IsFull(Heuristic(m, context, pending))
  BY <1>1, FixedIs, HeuristicIs
<1>5. raw # None => IsFull(NormalizeRaw(raw, m, context, pending))
  BY <1>1, <1>3, NormalizedRawIs
<1>6. Understand(m, context, raw, pending) =
        IF IsL0(m, context) THEN L0(m, context)
        ELSE IF raw = None THEN Heuristic(m, context, pending) ELSE NormalizeRaw(raw, m, context, pending)
  BY DEF Understand, ReadRaw
<1> QED  BY <1>4, <1>5, <1>6 DEF m

-----------------------------------------------------------------------------
(* What is planned is typed *)

\* What is decided of a task, and for all of them.
RouteTaskDecision ==
    [task_id : TaskId, decision : TaskExecutionDecision, route : AgentRoute \cup {None}, reason_code : DecisionReason]

AreDecisions(ds) == IsShort(ds) /\ \A i \in DOMAIN ds : ds[i] \in RouteTaskDecision

\* A plan that asks for at most three keys.
IsPlanned(plan) == plan.route \in AgentRoute /\ AreDecisions(plan.task_decisions) /\ IsShort(plan.missing_slots)

\* It is a plan.
LEMMA PlannedIsTyped ==
    ASSUME NEW plan, IsPlanned(plan)
    PROVE  IsRoutePlan(plan)
<1> DEFINE ds == plan.task_decisions
<1>1. PICK n \in 0 .. 3 : DOMAIN ds = 1 .. n /\ Len(ds) = n
  BY ShortLength DEF IsPlanned, AreDecisions, IsShort
<1>2. Len(ds) <= 3 /\ \A d \in Of(ds) : IsRouteTaskDecision(d)
  BY <1>1 DEF IsPlanned, AreDecisions, RouteTaskDecision, IsRouteTaskDecision, Of
<1>3. Len(plan.missing_slots) <= 3
  BY ShortLength DEF IsPlanned, IsShort
<1> QED  BY <1>2, <1>3 DEF IsPlanned, IsRoutePlan

\* The decision on a task.
LEMMA DecisionIs ==
    ASSUME NEW task, IsItem(task), NEW u, NEW slots, NEW scope, NEW context, NEW m
    PROVE  TaskDecision(task, u, ScopeError(slots, scope), context, m) \in RouteTaskDecision
<1> DEFINE error == ScopeError(slots, scope)
           route == TaskRoute(task, u, context, m)
<1>1. error \in {None, "product_out_of_scope", "tool_out_of_scope"}
  BY DEF ScopeError
<1>2. route \in AgentRoute
  BY DEF TaskRoute, AgentRoute
<1>3. task.task_id \in TaskId /\ task.execution_policy \in TaskExecutionDecision
  BY DEF IsItem, IsIntentTaskItem
<1> HIDE DEF error, route
<1>4. error # None => error \in DecisionReason
  BY <1>1 DEF DecisionReason
<1>5. ASSUME NEW decision \in TaskExecutionDecision, NEW way \in AgentRoute \cup {None}, NEW reason \in DecisionReason
      PROVE  Decision(task, decision, way, reason) \in RouteTaskDecision
  BY <1>3 DEF Decision, RouteTaskDecision
<1>6. "refuse" \in TaskExecutionDecision /\ "defer" \in TaskExecutionDecision
  BY DEF TaskExecutionDecision
<1>7. /\ "controlled_write_not_allowed" \in DecisionReason /\ "report_generation_not_enabled" \in DecisionReason
      /\ "task_deferred_by_policy" \in DecisionReason /\ "outside_semikb_capability" \in DecisionReason
      /\ "model_flagged_unsafe" \in DecisionReason /\ "task_allowed" \in DecisionReason
  BY DEF DecisionReason
<1>8. /\ Decision(task, "refuse", None, "controlled_write_not_allowed") \in RouteTaskDecision
      /\ Decision(task, "defer", None, "report_generation_not_enabled") \in RouteTaskDecision
      /\ Decision(task, "defer", None, "task_deferred_by_policy") \in RouteTaskDecision
      /\ Decision(task, "refuse", None, "outside_semikb_capability") \in RouteTaskDecision
      /\ Decision(task, "refuse", None, "model_flagged_unsafe") \in RouteTaskDecision
      /\ Decision(task, task.execution_policy, route, "task_allowed") \in RouteTaskDecision
  BY <1>2, <1>3, <1>5, <1>6, <1>7
<1>9. error # None => Decision(task, "refuse", None, error) \in RouteTaskDecision
  BY <1>4, <1>5, <1>6
<1> QED  BY <1>8, <1>9 DEF TaskDecision, route, error

\* What is put off or asked for is still decided.
LEMMA StillDecisions ==
    ASSUME NEW ds, AreDecisions(ds)
    PROVE  /\ AreDecisions(EnforcePredefinedCombination(ds))
           /\ \A reason \in DecisionReason : AreDecisions(Clarifying(ds, reason))
<1>1. PICK n \in 0 .. 3 : DOMAIN ds = 1 .. n
  BY DEF AreDecisions, IsShort
<1>2. ASSUME NEW d \in RouteTaskDecision, NEW reason \in DecisionReason
      PROVE  /\ [d EXCEPT !.decision = "defer", !.route = None, !.reason_code = reason] \in RouteTaskDecision
             /\ [d EXCEPT !.decision = "clarify", !.reason_code = reason] \in RouteTaskDecision
  BY DEF RouteTaskDecision, TaskExecutionDecision
<1>3. ASSUME NEW changed, DOMAIN changed = DOMAIN ds, changed = [i \in DOMAIN ds |-> changed[i]],
             \A i \in DOMAIN ds : changed[i] \in RouteTaskDecision
      PROVE  AreDecisions(changed)
  BY <1>1, <1>3 DEF AreDecisions, IsShort
<1>4. ASSUME NEW reason \in DecisionReason PROVE AreDecisions(Clarifying(ds, reason))
  <2> DEFINE changed == Clarifying(ds, reason)
  <2>1. changed = [i \in DOMAIN ds |-> IF ds[i].decision = "execute"
                                       THEN [ds[i] EXCEPT !.decision = "clarify", !.reason_code = reason] ELSE ds[i]]
    BY DEF Clarifying
  <2> HIDE DEF changed
  <2>2. \A i \in DOMAIN ds : changed[i] \in RouteTaskDecision
    BY <1>2, <2>1 DEF AreDecisions
  <2>3. DOMAIN changed = DOMAIN ds /\ changed = [i \in DOMAIN ds |-> changed[i]]
    BY <2>1
  <2> QED  BY <1>3, <2>2, <2>3 DEF changed
<1>5. AreDecisions(EnforcePredefinedCombination(ds))
  <2> DEFINE carried == SelectSeq(Executable(ds), LAMBDA d : d.route # "chat_direct")
             first == carried[1].route
             fits(d) == \/ d.route \in {None, "chat_direct", first}
                        \/ {first, d.route} \subseteq Business
                        \/ {first, d.route} \subseteq Public
             reason == "unsupported_route_combination_deferred"
             deferred(d) == [d EXCEPT !.decision = "defer", !.route = None, !.reason_code = reason]
             left == [i \in DOMAIN ds |-> IF ds[i].decision = "execute" /\ ~fits(ds[i]) THEN deferred(ds[i]) ELSE ds[i]]
  <2>1. EnforcePredefinedCombination(ds) = IF Compatible(Of(Routes(carried))) THEN ds ELSE left
    BY DEF EnforcePredefinedCombination
  <2>2. reason \in DecisionReason
    BY DEF DecisionReason
  <2> HIDE DEF fits, carried, reason
  <2>3. \A i \in DOMAIN ds : left[i] \in RouteTaskDecision
    BY <1>2, <2>2 DEF AreDecisions
  <2>4. DOMAIN left = DOMAIN ds /\ left = [i \in DOMAIN ds |-> left[i]]
    OBVIOUS
  <2> HIDE DEF left
  <2>5. AreDecisions(left)
    BY <1>3, <2>3, <2>4
  <2> QED  BY <2>1, <2>5
<1> QED  BY <1>4, <1>5

\* The routes of what is carried out, combined.
LEMMA CombinedIs ==
    ASSUME NEW u, u.suggested_route \in AgentRoute, NEW ds, AreDecisions(ds)
    PROVE  Combined(u, ds) \in AgentRoute
<1> DEFINE places == {i \in 1 .. Len(ds) : ds[i].decision = "execute" /\ ds[i].route # None}
           executable == Executable(ds)
           routes == Routes(executable)
           others == {i \in 1 .. Len(routes) : routes[i] # "chat_direct"}
           carried == Picked(routes, others)
           suggested == IF u.suggested_route = "history_direct" THEN "chat_direct" ELSE u.suggested_route
<1>1. PICK n \in 0 .. 3 : DOMAIN ds = 1 .. n /\ Len(ds) = n
  BY ShortLength DEF AreDecisions, IsShort
<1>2. /\ Len(executable) \in Nat
      /\ \A k \in 1 .. Len(executable) : \E i \in places : executable[k] = ds[i]
  <2>1. places \in SUBSET (1 .. n) /\ executable = Picked(ds, places) /\ n \in Nat
    BY <1>1 DEF Executable
  <2> HIDE DEF places, executable
  <2> QED  BY <2>1, PickedMembers, ZenonT(60)
<1>3. \A i \in places : ds[i].route \in AgentRoute
  BY <1>1 DEF AreDecisions, RouteTaskDecision
<1> HIDE DEF places, executable
<1>4. \A k \in 1 .. Len(executable) : executable[k].route \in AgentRoute
  BY <1>2, <1>3
<1>5. routes \in [1 .. Len(executable) -> AgentRoute]
  BY <1>4 DEF Routes
<1> HIDE DEF routes
<1>6. routes \in Seq(AgentRoute) /\ Len(routes) = Len(executable)
  BY <1>2, <1>5
<1>7. /\ Len(carried) \in Nat /\ DOMAIN carried = 1 .. Len(carried)
      /\ \A k \in 1 .. Len(carried) : \E i \in others : carried[k] = routes[i]
      /\ carried # <<>> => Len(carried) \in 1 .. Len(carried)
  <2>1. others \in SUBSET (1 .. Len(routes)) /\ Len(routes) \in Nat
    BY <1>6
  <2> HIDE DEF others
  <2> QED  BY <2>1, PickedMembers
<1> HIDE DEF carried
<1>8. carried # <<>> => carried[1] \in AgentRoute
  BY <1>6, <1>7
<1>9. suggested \in AgentRoute
  BY DEF AgentRoute
<1>10. Of(routes) # {} => routes[1] \in AgentRoute
  BY <1>6 DEF Of
<1> HIDE DEF suggested, others
<1>11. Combined(u, ds) = CombineRoutes(routes, suggested)
  BY DEF Combined, routes, executable, suggested
<1>12. CombineRoutes(routes, suggested) \in
         {"rag_and_tool", "rag_and_web"} \cup (IF Of(routes) = {} THEN {suggested} ELSE {routes[1]})
            \cup (IF carried # <<>> THEN {carried[1]} ELSE {})
  BY DEF CombineRoutes, carried, others
<1> QED  BY <1>8, <1>9, <1>10, <1>11, <1>12 DEF AgentRoute

\* What is understood in full is planned.
LEMMA DecideIs ==
    ASSUME NEW u, IsFull(u), NEW scope, NEW context, NEW m
    PROVE  IsPlanned(Decide(u, scope, context, m))
<1> DEFINE slots == Overlay(u.inherited_slots, u.explicit_slots)
           error == ScopeError(slots, scope)
           first == [i \in DOMAIN u.task_items |-> TaskDecision(u.task_items[i], u, error, context, m)]
           ds == EnforcePredefinedCombination(first)
           route == Combined(u, ds)
           missing == RequiredMissing(u, slots, route)
           plan == Planned(u, ds, route, missing)
<1>1. Decide(u, scope, context, m) = plan
  BY DEF Decide, PlanOf, TaskDecisions
<1>2. PICK n \in 0 .. 3 : DOMAIN u.task_items = 1 .. n /\ \A i \in 1 .. n : IsItem(u.task_items[i])
  BY DEF IsFull, AreItems, IsTasks, IsShort
<1>3. \A i \in 1 .. n : first[i] \in RouteTaskDecision
  BY <1>2, DecisionIs
<1>4. DOMAIN first = 1 .. n /\ first = [i \in 1 .. n |-> first[i]]
  BY <1>2
<1>5. IsShort(missing)
  BY MissingIsUnanswered
<1> HIDE DEF first, slots, missing
<1>6. AreDecisions(first)
  BY <1>3, <1>4 DEF AreDecisions, IsShort
<1>7. AreDecisions(ds)
  BY <1>6, StillDecisions
<1> HIDE DEF ds
<1>8. route \in AgentRoute
  BY <1>7, CombinedIs DEF IsFull
<1> HIDE DEF route
<1>9. /\ AreDecisions(Clarifying(ds, "required_slots_missing"))
      /\ AreDecisions(Clarifying(ds, "semantic_confidence_too_low"))
  <2>1. "required_slots_missing" \in DecisionReason /\ "semantic_confidence_too_low" \in DecisionReason
    BY DEF DecisionReason
  <2> QED  BY <1>7, <2>1, StillDecisions
<1>10. IsShort(<<>>) /\ "refuse" \in AgentRoute /\ "clarify" \in AgentRoute
  BY DEF IsShort, AgentRoute
<1>11. /\ plan.route \in {"refuse", "clarify", route} /\ plan.missing_slots \in {<<>>, missing}
       /\ plan.task_decisions \in {ds, Clarifying(ds, "required_slots_missing"),
                                   Clarifying(ds, "semantic_confidence_too_low")}
  BY DEF Planned, Plan
<1> HIDE DEF plan
<1> QED  BY <1>1, <1>5, <1>7, <1>8, <1>9, <1>10, <1>11 DEF IsPlanned

-----------------------------------------------------------------------------
(* Frames and results are typed *)

\* A frame with every field that something is decided by.
FullFrame(frame) ==
    /\ {"frame_id", "kind", "request", "candidate_route", "pending", "round", "no_progress_count", "status", "base"}
         \subseteq DOMAIN frame
    /\ frame.kind \in ClarificationKind
    /\ IsShort(frame.pending)
    /\ frame.round \in 0 .. 3 /\ frame.no_progress_count \in 0 .. 3
    /\ frame.status \in ClarificationFrameStatus
    /\ IsFull(frame.base)

\* It is a frame.
LEMMA FullFrameIsTyped ==
    ASSUME NEW frame, FullFrame(frame)
    PROVE  IsClarificationFrame(frame)
<1>1. Len(frame.pending) <= 3
  BY ShortLength DEF FullFrame, IsShort
<1>2. IsUnderstanding(frame.base)
  BY FullIsTyped DEF FullFrame
<1> QED  BY <1>1, <1>2 DEF FullFrame, IsClarificationFrame

\* A frame that is named, or asked again.
LEMMA BuiltIs ==
    ASSUME NEW id, NEW request, NEW u, IsFull(u), NEW plan, NEW missing, IsShort(missing),
           NEW existing, existing = NoFrame \/ FullFrame(existing)
    PROVE  FullFrame(BuildClarificationFrame(id, request, u, plan, missing, existing))
<1> DEFINE keys == FirstThree(missing)
           again == IsOpen(existing)
           kept == again /\ existing.candidate_route # "clarify"
           named == IF again THEN existing.frame_id ELSE id
           kind == IF keys = <<"history_reference">> THEN "history_reference"
                   ELSE IF keys = <<>> THEN "intent_disambiguation" ELSE "slot_collection"
           asked == IF again THEN existing.request ELSE request
           route == IF kept THEN existing.candidate_route ELSE CandidateRoute(plan, u)
           pending == IF keys = <<>> THEN <<"intent_target">> ELSE keys
           round == IF again THEN existing.round ELSE 0
           count == IF again THEN existing.no_progress_count ELSE 0
           base == IF again THEN existing.base ELSE u
           frame == [frame_id |-> named, kind |-> kind, request |-> asked, candidate_route |-> route,
                     pending |-> pending, round |-> round, no_progress_count |-> count, status |-> "waiting",
                     base |-> base]
<1>1. BuildClarificationFrame(id, request, u, plan, missing, existing) = frame
  BY DEF BuildClarificationFrame
<1>2. again => FullFrame(existing)
  BY DEF IsOpen, NoFrame
<1>3. IsShort(keys)
  <2>1. PICK n \in 0 .. 3 : DOMAIN missing = 1 .. n /\ missing = [i \in 1 .. n |-> missing[i]]
    BY DEF IsShort
  <2> DEFINE S == {missing[i] : i \in 1 .. n}
  <2>2. [i \in 1 .. n |-> missing[i]] \in Seq(S)
    OBVIOUS
  <2>3. missing \in Seq(S)
    BY <2>1, <2>2
  <2> HIDE DEF S
  <2> QED  BY <2>3, FirstThreeIsShort
<1>4. kind \in ClarificationKind
  BY DEF ClarificationKind
<1> HIDE DEF keys, again, kind
<1>5. IsShort(pending)
  <2>1. IsShort(<<"intent_target">>)
    <3>1. DOMAIN <<"intent_target">> = 1 .. 1
      OBVIOUS
    <3> QED  BY <3>1 DEF IsShort
  <2> QED  BY <1>3, <2>1
<1>6. round \in 0 .. 3 /\ count \in 0 .. 3 /\ IsFull(base)
  BY <1>2 DEF FullFrame
<1>7. "waiting" \in ClarificationFrameStatus
  BY DEF ClarificationFrameStatus
<1> HIDE DEF pending, round, count, base, named, asked, route
<1>8. FullFrame(frame)
  BY <1>4, <1>5, <1>6, <1>7 DEF FullFrame
<1> QED  BY <1>1, <1>8

\* An answer is merged into what the frame holds.
LEMMA MergedIsFull ==
    ASSUME NEW frame, FullFrame(frame), NEW u, IsFull(u)
    PROVE  IsFull(MergeContinuation(frame, u))
<1> DEFINE base == frame.base
           retasked == frame.kind = "intent_disambiguation" /\ u.task_items # <<>>
           mode == "clarification_answer"
           intent == IF retasked THEN u.primary_intent ELSE base.primary_intent
           items == IF retasked THEN u.task_items ELSE base.task_items
           operations == base.slot_operations \cup u.slot_operations
           explicit == Overlay(base.explicit_slots, u.explicit_slots)
           inherited == Overlay(base.inherited_slots, u.inherited_slots)
           ids == IF u.context_message_ids # <<>> THEN u.context_message_ids ELSE base.context_message_ids
           route == IF retasked THEN u.suggested_route ELSE base.suggested_route
           confidence == IF u.confidence > base.confidence THEN u.confidence ELSE base.confidence
           first == [base EXCEPT !.interaction_mode = mode, !.primary_intent = intent, !.task_items = items,
                                 !.slot_operations = operations, !.explicit_slots = explicit]
           second == [first EXCEPT !.inherited_slots = inherited, !.context_message_ids = ids, !.cancel_scope = None,
                                   !.clarification_relation = "continue_current", !.suggested_route = route]
           merged == [second EXCEPT !.confidence = confidence]
<1>1. MergeContinuation(frame, u) = merged
  BY DEF MergeContinuation
<1>2. IsFull(base)
  BY DEF FullFrame
<1> HIDE DEF retasked, base
<1>3. /\ intent \in PrimaryIntent /\ AreItems(items) /\ operations \subseteq SlotOperation
      /\ mode \in InteractionMode
  BY <1>2 DEF IsFull, InteractionMode
<1>4. IsSlots(explicit) /\ IsSlots(inherited)
  BY <1>2, OverlaidSlots DEF IsFull
<1>5. AreIds(ids) /\ route \in AgentRoute /\ confidence \in 0 .. 100
  BY <1>2 DEF IsFull
<1> HIDE DEF intent, items, operations, explicit, inherited, ids, route, confidence, mode
<1>6. IsFull(first)
  BY <1>2, <1>3, <1>4 DEF IsFull, UnderstandingFields
<1> HIDE DEF first
<1>7. IsFull(second)
  BY <1>4, <1>5, <1>6 DEF IsFull, UnderstandingFields, ClarificationTurnRelation
<1> HIDE DEF second
<1>8. IsFull(merged)
  BY <1>5, <1>7 DEF IsFull, UnderstandingFields
<1> HIDE DEF merged
<1> QED  BY <1>1, <1>8

\* What a frame still asks after an answer.
LEMMA UpdatedFrameIs ==
    ASSUME NEW frame, FullFrame(frame), NEW u, IsFull(u), NEW pending
    PROVE  FullFrame(UpdateAfterAnswer(frame, u, pending))
<1> DEFINE places == {i \in 1 .. Len(frame.pending) : frame.pending[i] \in Of(pending)}
           left == Picked(frame.pending, places)
           resolved == Of(frame.pending) \ Of(pending)
           more == IF frame.no_progress_count < 3 THEN frame.no_progress_count + 1 ELSE 3
           count == IF resolved # {} THEN 0 ELSE more
           status == IF pending = <<>> THEN "resolved" ELSE "waiting"
           next == [frame EXCEPT !.pending = left, !.no_progress_count = count, !.status = status, !.base = u]
<1>1. UpdateAfterAnswer(frame, u, pending) = next
  BY DEF UpdateAfterAnswer
<1>2. PICK n \in 0 .. 3 : Len(frame.pending) = n
  BY ShortLength DEF FullFrame, IsShort
<1>3. IsShort(left)
  <2> DEFINE seq == frame.pending
             picked == Picked(seq, places)
  <2>1. places \in SUBSET (1 .. n) /\ n \in Nat
    BY <1>2
  <2> HIDE DEF places, seq
  <2>2. Len(picked) \in Nat /\ DOMAIN picked = 1 .. Len(picked)
    BY <2>1, PickedMembers
  <2>3. Len(picked) <= n
    BY <2>1, PickedMembers
  <2>4. picked = [k \in 1 .. Len(picked) |-> picked[k]]
    BY <2>1, PickedMembers
  <2> HIDE DEF picked
  <2>5. Len(picked) \in 0 .. 3
    BY <2>2, <2>3
  <2> QED  BY <2>2, <2>4, <2>5 DEF IsShort, picked, seq
<1>4. count \in 0 .. 3
  BY DEF FullFrame
<1>5. status \in ClarificationFrameStatus
  BY DEF ClarificationFrameStatus
<1> HIDE DEF left, count, status
<1>6. FullFrame(next)
  BY <1>3, <1>4, <1>5 DEF FullFrame
<1> HIDE DEF next
<1> QED  BY <1>1, <1>6

\* A frame of another status, or asked once more.
LEMMA StatusIsSet ==
    ASSUME NEW frame, FullFrame(frame)
    PROVE  /\ \A relation \in ClarificationTurnRelation \ {"continue_current"} :
                FullFrame(TerminalTransition(frame, relation))
           /\ FullFrame([frame EXCEPT !.status = "waiting"])
           /\ \A round \in 0 .. 3 : FullFrame([[frame EXCEPT !.round = round] EXCEPT !.status = "waiting"])
<1>1. ASSUME NEW status \in ClarificationFrameStatus PROVE FullFrame([frame EXCEPT !.status = status])
  BY DEF FullFrame
<1>2. /\ "waiting" \in ClarificationFrameStatus /\ "cancelled" \in ClarificationFrameStatus
      /\ "superseded" \in ClarificationFrameStatus /\ "paused" \in ClarificationFrameStatus
  BY DEF ClarificationFrameStatus
<1>3. ASSUME NEW relation \in ClarificationTurnRelation \ {"continue_current"}
      PROVE  FullFrame(TerminalTransition(frame, relation))
  <2>1. \E status \in ClarificationFrameStatus :
          TerminalTransition(frame, relation) = [frame EXCEPT !.status = status]
    BY <1>2 DEF TerminalTransition, ClarificationTurnRelation
  <2> QED  BY <1>1, <2>1
<1>4. ASSUME NEW round \in 0 .. 3 PROVE FullFrame([[frame EXCEPT !.round = round] EXCEPT !.status = "waiting"])
  BY <1>2 DEF FullFrame
<1> QED  BY <1>1, <1>2, <1>3, <1>4

\* The first of the errors of the scope is what a result says.
AreErrors(errors) == errors # <<>> => errors[1] \in DecisionReason

\* What is outside the scope of the actor.
LEMMA ErrorsAre ==
    ASSUME NEW slots
    PROVE  AreErrors(ScopeErrors(slots))
<1> DEFINE outside(name, allowed) == name \in DOMAIN slots /\ allowed # {} /\ slots[name] \notin allowed
           product == IF outside("product", Scope.products) THEN <<"product_out_of_scope">> ELSE <<>>
           tool == IF outside("tool_id", Scope.tool_ids) THEN <<"tool_out_of_scope">> ELSE <<>>
<1>1. ScopeErrors(slots) = product \o tool
  BY DEF ScopeErrors
<1>2. product \in {<<"product_out_of_scope">>, <<>>} /\ tool \in {<<"tool_out_of_scope">>, <<>>}
  OBVIOUS
<1> HIDE DEF product, tool
<1>3. product \in Seq(DecisionReason) /\ tool \in Seq(DecisionReason)
  <2>1. "product_out_of_scope" \in DecisionReason /\ "tool_out_of_scope" \in DecisionReason
    BY DEF DecisionReason
  <2>2. ASSUME NEW S, NEW code \in S PROVE <<code>> \in Seq(S) /\ <<>> \in Seq(S)
    OBVIOUS
  <2> QED  BY <1>2, <2>1, <2>2
<1>4. ScopeErrors(slots) \in Seq(DecisionReason)
  BY <1>1, <1>3, Joined
<1>5. ASSUME NEW errors \in Seq(DecisionReason), errors # <<>> PROVE errors[1] \in DecisionReason
  BY <1>5
<1> QED  BY <1>4, <1>5 DEF AreErrors

\* The result of a decision.
LEMMA ResultIs ==
    ASSUME NEW d \in RouteTaskDecision, NEW needs, NEW earlier, NEW actual \in AgentRoute, NEW cited, NEW errors,
           AreErrors(errors)
    PROVE  IsTaskExecutionResult(Finalized(d, needs, earlier, actual, cited, errors))
<1> DEFINE route == ActualTaskRoute(d.route, actual)
<1>1. /\ d.task_id \in TaskId /\ d.decision \in TaskExecutionDecision /\ d.route \in AgentRoute \cup {None}
      /\ d.reason_code \in ResultReason
  BY DEF RouteTaskDecision, ResultReason
<1>2. ASSUME NEW status \in TaskExecutionStatus, NEW way \in AgentRoute \cup {None}, NEW reason \in ResultReason
      PROVE  IsTaskExecutionResult(Result(d.task_id, status, way, reason))
  BY <1>1 DEF Result, IsTaskExecutionResult
<1>3. route \in AgentRoute
  BY <1>1 DEF ActualTaskRoute
<1> HIDE DEF route
<1>4. /\ {"dependency_not_completed", "route_contract_not_satisfied", "route_contract_satisfied",
          "completed_with_external_degradation"} \subseteq ResultReason
      /\ {"deferred", "refused", "clarify", "failed", "completed"} \subseteq TaskExecutionStatus
      /\ {"clarify", "refuse"} \subseteq AgentRoute
  BY DEF ResultReason, TaskExecutionStatus, AgentRoute
<1>5. IsTaskExecutionResult(ExecutedTask(d.task_id, route, cited))
  BY <1>2, <1>3, <1>4 DEF ExecutedTask
<1>6. errors # <<>> => errors[1] \in ResultReason
  BY DEF AreErrors, ResultReason
<1> QED  BY <1>1, <1>2, <1>4, <1>5, <1>6 DEF Finalized, route

\* The results of a plan.
LEMMA ResultsAreTyped ==
    ASSUME NEW plan, IsPlanned(plan), NEW tasks, NEW actual \in AgentRoute, NEW ledger, NEW citations, NEW errors,
           AreErrors(errors)
    PROVE  \A r \in Of(Finalize(plan, tasks, actual, ledger, citations, errors)) : IsTaskExecutionResult(r)
<1> DEFINE ds == plan.task_decisions
           results == Finalize(plan, tasks, actual, ledger, citations, errors)
<1>1. ResultsOf(results, ds, tasks, actual, Cited(ledger, citations), errors)
  BY EachIsFinalized DEF IsPlanned, AreDecisions
<1>2. \A i \in DOMAIN ds : ds[i] \in RouteTaskDecision
  BY DEF IsPlanned, AreDecisions
<1> HIDE DEF results, ds
<1>3. ASSUME NEW i \in DOMAIN ds PROVE IsTaskExecutionResult(results[i])
  <2>1. PICK needs, earlier, cited : results[i] = Finalized(ds[i], needs, earlier, actual, cited, errors)
    BY <1>1 DEF ResultsOf
  <2> QED  BY <1>2, <2>1, ResultIs
<1> QED  BY <1>1, <1>3 DEF ResultsOf, results

-----------------------------------------------------------------------------
(* What a thread holds is typed *)

\* The messages of a thread have their places as ids; one of the user can be read.
IsLog(messages) ==
    /\ Len(messages) \in Nat
    /\ \A i \in 1 .. Len(messages) :
         /\ messages[i].id = i /\ messages[i].role \in {"user", "assistant"}
         /\ messages[i].message \in Message \cup {None}
         /\ messages[i].role = "user" => messages[i].message \in Message

\* Slots that are known from messages at some places.
SourcedIn(slots, places) == AreKnown(slots) /\ \A n \in DOMAIN slots : slots[n].source \in places

\* The rest of a sequence.
LEMMA RestIs ==
    ASSUME NEW S, NEW seq \in Seq(S), NEW first \in Nat \ {0}, first <= Len(seq) + 1
    PROVE  SubSeq(seq, first, Len(seq)) \in Seq(S) /\ Len(SubSeq(seq, first, Len(seq))) \in Nat
OBVIOUS

\* The context that a graph is given.
LEMMA AssembledIs ==
    ASSUME NEW from, IsLog(from.messages), AreKnown(from.active_context.slots), NEW current
    PROVE  IsContext(Assemble(from, current))
<1> DEFINE messages == from.messages
           others == {i \in 1 .. Len(messages) : messages[i].id # current}
           history == Picked(messages, others)
           first == IF Len(history) > 2 * RecentTurns THEN Len(history) - 2 * RecentTurns + 1 ELSE 1
           recent == SubSeq(history, first, Len(history))
           context == Assemble(from, current)
           E == {messages[i] : i \in 1 .. Len(messages)}
<1>1. context.slots = from.active_context.slots /\ context.recent = recent
  BY DEF Assemble
<1>2. \A e \in E : IsEntry(e)
  BY DEF IsLog, IsEntry
<1>3. /\ Len(history) \in Nat /\ history = [k \in 1 .. Len(history) |-> history[k]]
      /\ \A k \in 1 .. Len(history) : history[k] \in E
  <2>1. others \in SUBSET (1 .. Len(messages)) /\ Len(messages) \in Nat
    BY DEF IsLog
  <2> HIDE DEF others, messages
  <2>2. Len(history) \in Nat
    BY <2>1, PickedMembers
  <2>4. history = [k \in 1 .. Len(history) |-> history[k]]
    BY <2>1, PickedMembers
  <2>3. \A k \in 1 .. Len(history) : \E i \in others : history[k] = messages[i]
    BY <2>1, PickedMembers
  <2> HIDE DEF history
  <2> QED  BY <2>1, <2>2, <2>3, <2>4
<1> HIDE DEF E, history
<1>4. history \in Seq(E)
  <2>1. ASSUME NEW n \in Nat, NEW f \in [1 .. n -> E] PROVE f \in Seq(E)
    OBVIOUS
  <2>2. history \in [1 .. Len(history) -> E]
    BY <1>3
  <2> QED  BY <1>3, <2>1, <2>2
<1>5. first \in Nat \ {0} /\ first <= Len(history) + 1
  <2>1. RecentTurns \in Nat /\ RecentTurns > 0
    BY TurnsAssumption
  <2> QED  BY <1>3, <2>1
<1> HIDE DEF first
<1>6. recent \in Seq(E) /\ Len(recent) \in Nat
  BY <1>4, <1>5, RestIs
<1> HIDE DEF recent, context
<1>7. \A i \in 1 .. Len(recent) : recent[i] \in E
  BY <1>6
<1> QED  BY <1>1, <1>2, <1>6, <1>7 DEF IsContext, context

\* The message that names a value is one of the user.
LEMMA FoundIsSaid ==
    ASSUME NEW messages, IsLog(messages), NEW name, NEW value, NEW fallback \in SaidByUser(messages)
    PROVE  FindSourceMessage(messages, name, value, fallback) \in SaidByUser(messages)
<1> DEFINE naming == {i \in 1 .. Len(messages) :
                        messages[i].role = "user" /\ <<name, value>> \in Said[messages[i].message].named}
           named == Picked(messages, naming)
<1>1. FindSourceMessage(messages, name, value, fallback) = IF named = <<>> THEN fallback ELSE named[Len(named)].id
  BY DEF FindSourceMessage
<1>2. naming \in SUBSET (1 .. Len(messages)) /\ Len(messages) \in Nat
  BY DEF IsLog
<1>3. \A i \in naming : i \in SaidByUser(messages) /\ messages[i].id = i
  BY DEF IsLog, SaidByUser
<1> HIDE DEF naming
<1>4. named # <<>> => Len(named) \in 1 .. Len(named)
  BY <1>2, PickedMembers
<1>5. \A k \in 1 .. Len(named) : \E i \in naming : named[k] = messages[i]
  BY <1>2, PickedMembers
<1> HIDE DEF named
<1> QED  BY <1>1, <1>3, <1>4, <1>5

\* Slots that do not hold any more are still known.
LEMMA InvalidAreKnown ==
    ASSUME NEW slots, NEW places, SourcedIn(slots, places), NEW out
    PROVE  SourcedIn([n \in DOMAIN slots |-> IF n \in out THEN [slots[n] EXCEPT !.valid = FALSE] ELSE slots[n]], places)
<1> DEFINE left == [n \in DOMAIN slots |-> IF n \in out THEN [slots[n] EXCEPT !.valid = FALSE] ELSE slots[n]]
<1>1. DOMAIN left = DOMAIN slots /\ DOMAIN slots \subseteq Context_Slot_Names
  BY DEF SourcedIn, AreKnown
<1>2. ASSUME NEW n \in DOMAIN slots PROVE IsKnown(left[n]) /\ left[n].source \in places
  <2>1. IsKnown(slots[n]) /\ slots[n].source \in places
    BY DEF SourcedIn, AreKnown
  <2>2. left[n] \in {slots[n], [slots[n] EXCEPT !.valid = FALSE]}
    OBVIOUS
  <2> HIDE DEF left
  <2> QED  BY <2>1, <2>2 DEF IsKnown
<1> HIDE DEF left
<1> QED  BY <1>1, <1>2 DEF SourcedIn, AreKnown, left

\* So are slots laid over others.
LEMMA OverlaidAreKnown ==
    ASSUME NEW old, NEW new, NEW places, SourcedIn(old, places), SourcedIn(new, places)
    PROVE  SourcedIn(Overlay(old, new), places)
BY DEF SourcedIn, AreKnown, Overlay

\* What a thread remembers after an answer.
LEMMA UpdatedIs ==
    ASSUME NEW before, IsLog(before.messages), IsRemembered(before.active_context),
           SourcedIn(before.active_context.slots, SaidByUser(before.messages)),
           NEW result, IsSlots(result.slots), NEW source \in SaidByUser(before.messages)
    PROVE  SourcedIn(UpdateActiveContext(before, result, source).slots, SaidByUser(before.messages))
<1> DEFINE V == SaidByUser(before.messages)
           refused == result.route = "refuse"
           asked == IF refused THEN NoSlots ELSE result.slots
           operations == IF refused THEN {} ELSE result.slot_operations
           active == before.active_context
           known(n) == n \in DOMAIN active.slots /\ active.slots[n].valid
           of(kinds) == {o.slot_name : o \in {o \in operations : o.operation \in kinds}}
           clears == of({"clear"})
           inherits == of({"inherit"})
           changed == of({"correct", "clear"})
                        \cup {n \in DOMAIN asked : known(n) /\ active.slots[n].value # asked[n]}
           left == IF changed = {} THEN active ELSE InvalidateDependents(active, changed)
           cleared == [n \in DOMAIN left.slots |->
                         IF n \in clears THEN [left.slots[n] EXCEPT !.valid = FALSE] ELSE left.slots[n]]
           stays(n) == n \in inherits /\ n \in DOMAIN cleared /\ cleared[n].valid
           sourceOf(n) == IF n \in inherits /\ n \in DOMAIN active.slots THEN active.slots[n].source
                          ELSE FindSourceMessage(before.messages, n, asked[n], source)
           taken == {n \in DOMAIN asked : ~stays(n)}
           set == [n \in taken |-> [value |-> asked[n], source |-> sourceOf(n), valid |-> TRUE]]
           slots == Overlay(cleared, set)
<1>1. UpdateActiveContext(before, result, source).slots = slots
  BY DEF UpdateActiveContext
<1>2. IsSlots(asked)
  BY NoSlotsAre
<1> HIDE DEF operations, clears, inherits, changed, asked
<1>3. SourcedIn(left.slots, V)
  <2>1. CASE changed = {}
    BY <2>1
  <2>2. CASE changed # {}
    <3> DEFINE out == {n \in DOMAIN active.slots : SlotDependencies(n) \cap changed # {}}
               rest == [n \in DOMAIN active.slots |->
                          IF n \in out THEN [active.slots[n] EXCEPT !.valid = FALSE] ELSE active.slots[n]]
    <3>1. left = [active EXCEPT !.slots = rest, !.evidence_refs = {[ref EXCEPT !.valid = FALSE] : ref \in @}]
      BY <2>2 DEF InvalidateDependents
    <3>2. SourcedIn(rest, V)
      BY InvalidAreKnown
    <3>3. left.slots = rest
      <4> HIDE DEF rest
      <4> QED  BY <3>1 DEF IsRemembered
    <3> QED  BY <3>2, <3>3
  <2> QED  BY <2>1, <2>2
<1> HIDE DEF left
<1>4. SourcedIn(cleared, V)
  BY <1>3, InvalidAreKnown
<1>5. SourcedIn(set, V)
  <2>1. V \subseteq Nat
    BY DEF SaidByUser
  <2>2. ASSUME NEW n \in taken PROVE sourceOf(n) \in V /\ asked[n] \in Value /\ n \in Context_Slot_Names
    <3>1. FindSourceMessage(before.messages, n, asked[n], source) \in V
      BY FoundIsSaid
    <3>2. n \in DOMAIN active.slots => active.slots[n].source \in V
      BY DEF SourcedIn
    <3> QED  BY <1>2, <3>1, <3>2 DEF IsSlots
  <2> HIDE DEF sourceOf, taken, V
  <2> QED  BY <2>1, <2>2 DEF SourcedIn, AreKnown, IsKnown
<1> HIDE DEF set, cleared, slots
<1>6. SourcedIn(slots, V)
  BY <1>4, <1>5, OverlaidAreKnown DEF slots
<1> QED  BY <1>1, <1>6

-----------------------------------------------------------------------------
(* What a node makes of the types *)

\* What the checkpoint holds at a node.
TypedState(at, s) ==
    /\ IsContext(s.conversation_context)
    /\ s.understanding = NoUnderstanding \/ IsFull(s.understanding)
    /\ at = "validate_required_fields" => IsFull(s.understanding)
    /\ IsPlanned(s.route_plan) /\ s.route_decision \in AgentRoute
    /\ s.clarification_frame = NoFrame \/ FullFrame(s.clarification_frame)
    /\ AreErrors(s.authorization_errors)
    /\ \A r \in Of(s.task_results) : IsTaskExecutionResult(r)

\* The context, the errors and the results of a state are another's.
Aside(s, t) ==
    /\ t.conversation_context = s.conversation_context /\ t.authorization_errors = s.authorization_errors
    /\ t.task_results = s.task_results

\* A step that plans nothing new.
LEMMA KeptTyped ==
    ASSUME NEW at, NEW s, TypedState(at, s), NEW t, Keeps(s, t), Aside(s, t), t.route_decision \in AgentRoute,
           t.clarification_frame = s.clarification_frame \/ FullFrame(t.clarification_frame),
           NEW next, next = "validate_required_fields" => at = "validate_required_fields"
    PROVE  TypedState(next, t)
BY DEF TypedState, Keeps, Aside

\* A state that nothing has been asked in.
LEMMA BlankIsTyped ==
    ASSUME NEW t, IsContext(t.conversation_context), t.understanding = NoUnderstanding, t.route_plan = NoPlan,
           t.route_decision = "clarify", t.clarification_frame = NoFrame, t.authorization_errors = <<>>,
           t.task_results = <<>>, NEW next, next # "validate_required_fields"
    PROVE  TypedState(next, t)
<1>1. IsPlanned(NoPlan)
  BY DEF IsPlanned, NoPlan, Plan, AgentRoute, AreDecisions, IsShort
<1>2. "clarify" \in AgentRoute /\ AreErrors(<<>>) /\ Of(<<>>) = {}
  BY DEF AgentRoute, AreErrors, Of
<1> QED  BY <1>1, <1>2 DEF TypedState

\* A new request.
LEMMA IngestIsTyped ==
    ASSUME NEW at, NEW s, IsState(s), TypedState(at, s)
    PROVE  TypedState("authorize_scope", IngestRequest(s))
<1> DEFINE t == IngestRequest(s)
<1>1. /\ t.understanding = NoUnderstanding /\ t.route_plan = NoPlan /\ t.clarification_frame = NoFrame
      /\ t.route_decision = "clarify" /\ t.authorization_errors = <<>> /\ t.task_results = <<>>
      /\ t.conversation_context = s.conversation_context
  BY FieldNames DEF IngestRequest, NoState
<1> HIDE DEF t
<1> QED  BY <1>1, BlankIsTyped DEF TypedState, t

\* A request that is understood.
LEMMA ClassifiedIsTyped ==
    ASSUME NEW at, NEW s, IsState(s), TypedState(at, s), NEW u, IsFull(u), NEW request, NEW next
    PROVE  TypedState(next, ClassificationUpdate(s, u, request))
<1> DEFINE plan == Decide(u, Scope, s.conversation_context, Said[request])
           t == WithPlan(s, u, plan)
<1>1. ClassificationUpdate(s, u, request) = t
  BY DEF ClassificationUpdate
<1>2. IsPlanned(plan)
  BY DecideIs
<1> HIDE DEF plan
<1>3. /\ t.understanding = u /\ t.route_plan = plan /\ t.route_decision = plan.route
      /\ t.clarification_frame = s.clarification_frame /\ Aside(s, t)
  BY FieldNames DEF IsState, WithPlan, Aside
<1> HIDE DEF t
<1>4. plan.route \in AgentRoute
  BY <1>2 DEF IsPlanned
<1>5. TypedState(next, t)
  BY <1>2, <1>3, <1>4 DEF TypedState, Aside
<1> QED  BY <1>1, <1>5

\* A message that is taken up beside the frame.
LEMMA ResetIsTyped ==
    ASSUME NEW at, NEW s, IsState(s), TypedState(at, s), NEW request
    PROVE  TypedState("resolve_clarification_turn", ResetTaskState(s, request))
<1> DEFINE t == ResetTaskState(s, request)
<1>1. t.understanding = NoUnderstanding /\ t.route_plan = NoPlan
  BY FieldNames DEF ResetTaskState, NoState
<1>2. t.authorization_errors = <<>> /\ t.task_results = <<>>
  BY FieldNames DEF ResetTaskState, NoState
<1>3. /\ t.conversation_context = s.conversation_context /\ t.clarification_frame = s.clarification_frame
      /\ t.route_decision = s.route_decision
  BY FieldNames DEF ResetTaskState, NoState
<1> HIDE DEF t
<1>4. IsPlanned(NoPlan)
  BY DEF IsPlanned, NoPlan, Plan, AgentRoute, AreDecisions, IsShort
<1>5. AreErrors(<<>>) /\ Of(<<>>) = {}
  BY DEF AreErrors, Of
<1> QED  BY <1>1, <1>2, <1>3, <1>4, <1>5 DEF TypedState, t

\* A frame that is named for a request, or asked again.
LEMMA ValidateIsTyped ==
    ASSUME NEW s, IsState(s), TypedState("validate_required_fields", s)
    PROVE  LET t == ValidatedFields(s) IN TypedState(RouteAfterValidation(t), t)
<1> DEFINE frame == BuildClarificationFrame(run.entry, s.request, s.understanding, s.route_plan,
                                            s.route_plan.missing_slots, s.clarification_frame)
           errors == ScopeErrors(Slots(s))
           set == IF Asks(s.route_plan) THEN frame ELSE s.clarification_frame
           missing == IF Asks(s.route_plan) THEN frame.pending ELSE <<>>
           t == [s EXCEPT !.authorization_errors = errors, !.clarification_frame = set,
                          !.missing_required_fields = missing]
<1>1. ValidatedFields(s) = t
  BY DEF ValidatedFields, WithFrame
<1>2. FullFrame(frame)
  <2>1. IsFull(s.understanding) /\ IsShort(s.route_plan.missing_slots)
    BY DEF TypedState, IsPlanned
  <2>2. s.clarification_frame = NoFrame \/ FullFrame(s.clarification_frame)
    BY DEF TypedState
  <2> QED  BY <2>1, <2>2, BuiltIs
<1>3. AreErrors(errors)
  BY ErrorsAre
<1>4. set = s.clarification_frame \/ set = frame
  OBVIOUS
<1> HIDE DEF frame, errors, set, missing
<1>5. /\ t.understanding = s.understanding /\ t.route_plan = s.route_plan /\ t.route_decision = s.route_decision
      /\ t.clarification_frame = set /\ t.authorization_errors = errors /\ t.task_results = s.task_results
      /\ t.conversation_context = s.conversation_context
  BY FieldNames DEF IsState
<1> HIDE DEF t
<1>6. \A next : TypedState(next, t)
  BY <1>2, <1>3, <1>4, <1>5 DEF TypedState
<1> QED  BY <1>1, <1>6

\* What becomes of the tasks.
LEMMA ResultsAreSet ==
    ASSUME NEW at, NEW s, IsState(s), TypedState(at, s), NEW next, next # "validate_required_fields"
    PROVE  TypedState(next, [s EXCEPT !.task_results = TaskResults(s)])
<1> DEFINE results == TaskResults(s)
           t == [s EXCEPT !.task_results = results]
<1>1. \A r \in Of(results) : IsTaskExecutionResult(r)
  BY ResultsAreTyped DEF TaskResults, TypedState
<1> HIDE DEF results
<1>2. /\ t.understanding = s.understanding /\ t.route_plan = s.route_plan /\ t.route_decision = s.route_decision
      /\ t.clarification_frame = s.clarification_frame /\ t.authorization_errors = s.authorization_errors
      /\ t.task_results = results /\ t.conversation_context = s.conversation_context
  BY FieldNames DEF IsState
<1> HIDE DEF t
<1>3. TypedState(next, t)
  BY <1>1, <1>2 DEF TypedState
<1> QED  BY <1>3 DEF t, results

-----------------------------------------------------------------------------
(* What an answer makes of the types *)

\* A question that is repeated.
LEMMA ResumeIsTyped ==
    ASSUME NEW at, NEW s, IsState(s), TypedState(at, s), s.clarification_frame.status = "waiting"
    PROVE  LET t == ResumeOnly(s) IN TypedState(RouteAfterResolution(t), t)
<1> DEFINE frame == [s.clarification_frame EXCEPT !.status = "waiting"]
           t == ResumeOnly(s)
<1>1. FullFrame(frame)
  <2>1. FullFrame(s.clarification_frame)
    BY DEF TypedState, NoFrame
  <2> QED  BY <2>1, StatusIsSet
<1>2. /\ t.understanding = s.understanding /\ t.route_plan = s.route_plan /\ t.route_decision = "clarify"
      /\ t.clarification_frame = frame /\ t.authorization_errors = s.authorization_errors
      /\ t.task_results = s.task_results /\ t.conversation_context = s.conversation_context
      /\ t.clarification_resume_only = TRUE
  BY FieldNames DEF ResumeOnly, IsState
<1> HIDE DEF t, frame
<1>3. RouteAfterResolution(t) = "resume_clarification" /\ "clarify" \in AgentRoute
  BY <1>2 DEF RouteAfterResolution, AgentRoute
<1>4. TypedState(RouteAfterResolution(t), t)
  BY <1>1, <1>2, <1>3 DEF TypedState
<1> QED  BY <1>4 DEF t

\* A message that may be either.
LEMMA AmbiguousIsTyped ==
    ASSUME NEW at, NEW s, IsState(s), TypedState(at, s), s.clarification_frame.status = "waiting"
    PROVE  LET t == Ambiguous(s) IN TypedState(RouteAfterResolution(t), t)
<1> DEFINE frame == TerminalTransition(s.clarification_frame, "ambiguous")
           pending == s.clarification_frame.pending
           round == s.clarification_frame.round
           t == [s EXCEPT !.clarification_frame = frame, !.clarification_relation = "ambiguous",
                          !.clarification_resume_only = FALSE, !.missing_required_fields = pending,
                          !.clarification_round = round]
<1>1. FullFrame(frame)
  <2>1. FullFrame(s.clarification_frame)
    BY DEF TypedState, NoFrame
  <2>2. "ambiguous" \in ClarificationTurnRelation \ {"continue_current"}
    BY DEF ClarificationTurnRelation
  <2> QED  BY <2>1, <2>2, StatusIsSet
<1>2. Ambiguous(s) = t
  BY FieldNames DEF Ambiguous, IsState
<1> HIDE DEF frame, pending, round
<1>3. /\ t.understanding = s.understanding /\ t.route_plan = s.route_plan /\ t.route_decision = s.route_decision
      /\ t.clarification_frame = frame /\ t.authorization_errors = s.authorization_errors
      /\ t.task_results = s.task_results /\ t.conversation_context = s.conversation_context
      /\ t.clarification_resume_only = FALSE /\ t.clarification_relation = "ambiguous"
  BY FieldNames DEF IsState
<1> HIDE DEF t
<1>4. RouteAfterResolution(t) = "prepare_relation_clarification"
  BY <1>3 DEF RouteAfterResolution
<1>5. TypedState(RouteAfterResolution(t), t)
  BY <1>1, <1>3, <1>4 DEF TypedState
<1> QED  BY <1>2, <1>5

\* An answer that is merged into what the frame holds.
LEMMA ContinuedIsTyped ==
    ASSUME NEW at, NEW s, IsState(s), TypedState(at, s), s.clarification_frame.status = "waiting", NEW u, IsFull(u)
    PROVE  LET t == ContinueCurrent(s, u) IN TypedState(RouteAfterResolution(t), t)
<1> DEFINE old == s.clarification_frame
           merged == MergeContinuation(old, u)
           c == ClassificationUpdate(s, merged, old.request)
           pending == StillPending(old, c.route_plan)
           frame == UpdateAfterAnswer(old, c.understanding, pending)
           t == Continued(c, old, pending)
<1>1. ContinueCurrent(s, u) = t
  BY DEF ContinueCurrent
<1>2. FullFrame(old)
  BY DEF TypedState, NoFrame
<1>3. IsFull(merged)
  BY <1>2, MergedIsFull
<1> HIDE DEF merged
<1>4. IsState(c) /\ c.understanding = merged
  BY Classified
<1>5. TypedState("validate_required_fields", c)
  BY <1>3, ClassifiedIsTyped
<1> HIDE DEF c, pending
<1>6. FullFrame(frame)
  BY <1>2, <1>3, <1>4, UpdatedFrameIs
<1>7. t = [c EXCEPT !.request = old.request, !.clarification_frame = frame,
                    !.clarification_relation = "continue_current", !.clarification_resume_only = FALSE,
                    !.missing_required_fields = pending, !.clarification_round = old.round]
  BY DEF Continued
<1> HIDE DEF frame, t
<1>8. /\ t.understanding = c.understanding /\ t.route_plan = c.route_plan /\ t.route_decision = c.route_decision
      /\ t.clarification_frame = frame /\ t.authorization_errors = c.authorization_errors
      /\ t.task_results = c.task_results /\ t.conversation_context = c.conversation_context
  BY <1>4, <1>7, FieldNames DEF IsState
<1>9. \A next : TypedState(next, t)
  BY <1>5, <1>6, <1>8 DEF TypedState
<1> QED  BY <1>1, <1>9

\* A request of its own, beside the frame or in its place.
LEMMA TakenUpIsTyped ==
    ASSUME NEW at, NEW s, IsState(s), TypedState(at, s), s.clarification_frame.status = "waiting", NEW u, IsFull(u),
           NEW relation \in {"replace_with_new_request", "cancel_current", "side_conversation"}
    PROVE  LET t == TakeUp(s, u, relation) IN TypedState(RouteAfterResolution(t), t)
<1> DEFINE old == s.clarification_frame
           reset == ResetTaskState(s, s.clarification_response)
           mode == IF relation # "replace_with_new_request" THEN u.interaction_mode
                   ELSE IF u.primary_intent = "conversation" THEN "conversation" ELSE "task"
           cancel == IF relation = "cancel_current" THEN "clarification" ELSE u.cancel_scope
           understood == [u EXCEPT !.clarification_relation = relation, !.interaction_mode = mode,
                                   !.cancel_scope = cancel]
           c == ClassificationUpdate(reset, understood, s.clarification_response)
           frame == TerminalTransition(old, relation)
           t == TakenUp(c, frame, relation)
<1>1. TakeUp(s, u, relation) = t
  BY DEF TakeUp, IsFull, UnderstandingFields
<1>2. IsState(reset) /\ TypedState("resolve_clarification_turn", reset)
  BY WasReset, ResetIsTyped
<1>3. IsFull(understood)
  <2>1. /\ mode \in InteractionMode /\ cancel \in CancelScope \cup {None}
        /\ relation \in ClarificationTurnRelation \cup {None}
    BY DEF IsFull, InteractionMode, CancelScope, ClarificationTurnRelation
  <2> HIDE DEF mode, cancel
  <2> QED  BY <2>1 DEF IsFull, UnderstandingFields
<1> HIDE DEF reset, understood
<1>4. IsState(c) /\ c.understanding = understood
  BY <1>2, Classified
<1>5. TypedState("validate_required_fields", c)
  BY <1>2, <1>3, ClassifiedIsTyped
<1> HIDE DEF c
<1>6. FullFrame(frame)
  <2>1. FullFrame(old)
    BY DEF TypedState, NoFrame
  <2>2. relation \in ClarificationTurnRelation \ {"continue_current"}
    BY DEF ClarificationTurnRelation
  <2> QED  BY <2>1, <2>2, StatusIsSet
<1> HIDE DEF frame
<1>7. /\ t.understanding = c.understanding /\ t.route_plan = c.route_plan /\ t.route_decision = c.route_decision
      /\ t.clarification_frame = frame /\ t.authorization_errors = c.authorization_errors
      /\ t.task_results = c.task_results /\ t.conversation_context = c.conversation_context
  <2> DEFINE missing == IF relation = "replace_with_new_request" THEN c.missing_required_fields ELSE frame.pending
             round == IF relation = "side_conversation" THEN frame.round ELSE 0
  <2>1. t = [c EXCEPT !.clarification_frame = frame, !.clarification_relation = relation,
                      !.missing_required_fields = missing, !.clarification_round = round]
    BY DEF TakenUp
  <2> HIDE DEF missing, round, t
  <2> QED  BY <1>4, <2>1, FieldNames DEF IsState
<1> HIDE DEF t
<1>8. \A next : TypedState(next, t)
  BY <1>5, <1>6, <1>7 DEF TypedState
<1> QED  BY <1>1, <1>8

\* Whatever is understood of the answer.
LEMMA ResolveIsTyped ==
    ASSUME NEW at, NEW s, IsState(s), TypedState(at, s), s.clarification_frame.status = "waiting", NEW u, IsFull(u)
    PROVE  LET t == Resolved(s, u) IN TypedState(RouteAfterResolution(t), t)
<1> DEFINE relation == DecideTurnRelation(s.clarification_frame, Said[s.clarification_response], u)
           t == ResolvedAs(relation, s, u)
<1>1. Resolved(s, u) = t
  BY DEF Resolved
<1>2. relation \in {"replace_with_new_request", "cancel_current", "ambiguous", "continue_current", "resume",
                    "side_conversation"}
  BY Relations
<1> HIDE DEF relation
<1>3. t \in {ResumeOnly(s), Ambiguous(s), ContinueCurrent(s, u)}
        \cup {TakeUp(s, u, r) : r \in {"replace_with_new_request", "cancel_current", "side_conversation"}}
  BY <1>2 DEF ResolvedAs
<1> HIDE DEF t
<1> QED  BY <1>1, <1>3, ResumeIsTyped, AmbiguousIsTyped, ContinuedIsTyped, TakenUpIsTyped

-----------------------------------------------------------------------------
(* Every step keeps the types *)

\* What the thread holds, and the message that runs.
Filed ==
    /\ thread.waiting \in BOOLEAN
    /\ IsLog(thread.messages) /\ SourcedIn(thread.active_context.slots, SaidByUser(thread.messages))
    /\ run.client \in Client \cup {None} /\ run.entry \in SaidByUser(thread.messages) \cup {0}

\* What clients send, and how often.
Counted ==
    /\ client \in [Client -> [pc : {"idle", "prepared"}, message : Message \cup {None}, resume_checkpoint : BOOLEAN]]
    /\ turns \in 0 .. MaxTurns /\ faults \in 0 .. MaxFaults

\* The inductive invariant, with GraphInv, ThreadInv, LifeInv and ResultInv.
TypeInv == TypedState(graph.at, graph.s) /\ Filed /\ Counted

\* A node that is left for the next.
LEMMA TypedMoves ==
    ASSUME LifeInv, TypeInv, NEW t, NEW next, graph' = [at |-> next, s |-> t], run' = Answered,
           UNCHANGED <<thread, client, turns, faults>>, TypedState(next, t)
    PROVE  TypeInv'
<1>1. graph'.at = next /\ graph'.s = t
  OBVIOUS
<1>2. run'.client = run.client /\ run'.entry = run.entry
  BY DEF LifeInv, Numbered, Answered
<1>3. TypedState(graph.at, graph.s)'
  BY <1>1
<1>4. Filed'
  BY <1>2 DEF TypeInv, Filed
<1>5. Counted'
  BY DEF TypeInv, Counted
<1> QED  BY <1>3, <1>4, <1>5 DEF TypeInv

\* A node that leaves the request, its plan and its frame as they are.
LEMMA KeptMoves ==
    ASSUME LifeInv, TypeInv, NEW at, NEW t, NEW next, Node(at, t, next), Keeps(graph.s, t), Aside(graph.s, t),
           t.clarification_frame = graph.s.clarification_frame,
           t.route_decision \in {graph.s.route_decision, "internal_rag", "rag_and_web"},
           next # "validate_required_fields"
    PROVE  TypeInv'
<1>1. t.route_decision \in AgentRoute
  BY DEF TypeInv, TypedState, AgentRoute
<1>2. TypedState(next, t)
  BY <1>1, KeptTyped DEF TypeInv
<1> QED  BY <1>2, TypedMoves DEF Node

\* The nodes that consult.
LEMMA EvidenceIsTyped ==
    ASSUME GraphInv, LifeInv, TypeInv, Evidence
    PROVE  TypeInv'
<1> DEFINE s == graph.s
           Plain(t) == /\ Keeps(s, t) /\ Aside(s, t) /\ t.clarification_frame = s.clarification_frame
                       /\ t.route_decision \in {s.route_decision, "internal_rag", "rag_and_web"}
<1>1. IsState(s)
  BY DEF GraphInv, Good
<1>2. CASE ExecuteCombinationPrelude
  <2>1. Plain(s)
    BY <1>1 DEF Keeps, Aside
  <2> QED  BY <1>2, <2>1, KeptMoves DEF ExecuteCombinationPrelude
<1>3. CASE RetrieveEvidence
  <2> DEFINE t(route, evidence, live, trace) ==
               [s EXCEPT !.initial_route_decision = s.route_decision, !.route_decision = route,
                         !.reranked_evidence = evidence, !.external_evidence = None,
                         !.live_data_refs = live, !.trace_id = trace]
  <2>a. PICK route \in {"internal_rag", s.route_decision} : \E evidence, live, trace :
               Node("retrieve_evidence", t(route, evidence, live, trace), "assess_evidence")
    BY <1>3, ZenonT(60) DEF RetrieveEvidence
  <2>1. PICK evidence, live, trace :
               Node("retrieve_evidence", t(route, evidence, live, trace), "assess_evidence")
    BY <2>a
  <2>2. Plain(t(route, evidence, live, trace))
    BY <1>1, FieldNames DEF IsState, Keeps, Aside
  <2> HIDE DEF t
  <2> QED  BY <2>1, <2>2, KeptMoves
<1>4. CASE AssessEvidence
  <2> DEFINE tools == s.route_decision = "tool_only"
             a(judged) == Assess(s.understanding, s.reranked_evidence, s.initial_route_decision, judged)
             t(evidence, allowed, mode) == [s EXCEPT !.reranked_evidence = evidence,
                                                     !.web_fallback_allowed = allowed, !.answer_mode = mode]
             next(allowed) == IF allowed THEN "search_external" ELSE "build_evidence_ledger"
  <2>1. PICK judged, evidence, mode :
               Node("assess_evidence", t(evidence, ~tools /\ a(judged).web_fallback_allowed, mode),
                    next(~tools /\ a(judged).web_fallback_allowed))
    BY <1>4 DEF AssessEvidence
  <2> DEFINE allowed == ~tools /\ a(judged).web_fallback_allowed
  <2> HIDE DEF allowed
  <2>2. Plain(t(evidence, allowed, mode))
    BY <1>1, FieldNames DEF IsState, Keeps, Aside
  <2>3. next(allowed) # "validate_required_fields"
    OBVIOUS
  <2> HIDE DEF t, next
  <2>4. Node("assess_evidence", t(evidence, allowed, mode), next(allowed))
    BY <2>1 DEF allowed
  <2> QED  BY <2>2, <2>3, <2>4, KeptMoves
<1>5. CASE SearchExternal
  <2> DEFINE t(value) == [s EXCEPT !.route_decision = "rag_and_web", !.external_evidence = value]
  <2>1. PICK value : Node("search_external", t(value), "build_evidence_ledger")
    BY <1>5 DEF SearchExternal
  <2>2. Plain(t(value))
    BY <1>1, FieldNames DEF IsState, Keeps, Aside
  <2> HIDE DEF t
  <2> QED  BY <2>1, <2>2, KeptMoves
<1>6. CASE BuildEvidenceLedger
  <2> DEFINE t(value) == [s EXCEPT !.evidence_ledger = value]
  <2>1. PICK value : Node("build_evidence_ledger", t(value), "generate_answer")
    BY <1>6 DEF BuildEvidenceLedger
  <2>2. Plain(t(value))
    BY <1>1, FieldNames DEF IsState, Keeps, Aside
  <2> HIDE DEF t
  <2> QED  BY <2>1, <2>2, KeptMoves
<1>7. CASE GenerateAnswer
  <2> DEFINE t(value) == [s EXCEPT !.answer = value]
  <2>1. PICK value : Node("generate_answer", t(value), "verify_answer")
    BY <1>7 DEF GenerateAnswer
  <2>2. Plain(t(value))
    BY <1>1, FieldNames DEF IsState, Keeps, Aside
  <2> HIDE DEF t
  <2> QED  BY <2>1, <2>2, KeptMoves
<1>8. CASE VerifyAnswer
  <2> DEFINE t(verified, cited) == [s EXCEPT !.answer = verified, !.citations = cited, !.status = "completed"]
  <2>1. PICK verified, cited : Node("verify_answer", t(verified, cited), "finalize_task_results")
    BY <1>8 DEF VerifyAnswer
  <2>2. Plain(t(verified, cited))
    BY <1>1, FieldNames DEF IsState, Keeps, Aside
  <2> HIDE DEF t
  <2> QED  BY <2>1, <2>2, KeptMoves
<1> QED  BY <1>2, <1>3, <1>4, <1>5, <1>6, <1>7, <1>8 DEF Evidence

\* The nodes that answer without evidence, and those that end a turn.
LEMMA AnsweringIsTyped ==
    ASSUME GraphInv, LifeInv, TypeInv,
           \/ AuthorizeScope \/ DirectAnswer \/ RefuseRequest \/ InsufficientInformation \/ AnswerSideConversation
           \/ PrepareRelationClarification \/ PrepareClarificationReply \/ FinalizeTaskResults \/ Audit
    PROVE  TypeInv'
<1> DEFINE s == graph.s
<1>1. IsState(s) /\ TypedState(graph.at, s)
  BY DEF GraphInv, Good, TypeInv
<1>2. CASE AuthorizeScope
  <2> DEFINE t == [s EXCEPT !.authorization_errors = <<>>]
  <2>1. Node("authorize_scope", t, "classify_and_extract")
    BY <1>2 DEF AuthorizeScope
  <2>2. /\ t.understanding = s.understanding /\ t.route_plan = s.route_plan /\ t.route_decision = s.route_decision
        /\ t.clarification_frame = s.clarification_frame /\ t.authorization_errors = <<>>
        /\ t.task_results = s.task_results /\ t.conversation_context = s.conversation_context
    BY <1>1, FieldNames DEF IsState
  <2> HIDE DEF t
  <2>3. TypedState("classify_and_extract", t)
    BY <1>1, <2>2 DEF TypedState, AreErrors
  <2> QED  BY <2>1, <2>3, TypedMoves DEF Node
<1>3. CASE DirectAnswer \/ RefuseRequest \/ InsufficientInformation \/ AnswerSideConversation
  <2> DEFINE t(status) == [s EXCEPT !.answer = {}, !.citations = {}, !.status = status]
  <2>1. PICK next \in {"finalize_task_results", "pause_clarification"} : \E at, status : Node(at, t(status), next)
    BY <1>3 DEF DirectAnswer, DirectlyAnswered, RefuseRequest, InsufficientInformation, AnswerSideConversation
  <2>2. PICK at, status : Node(at, t(status), next)
    BY <2>1
  <2>3. /\ Keeps(s, t(status)) /\ Aside(s, t(status)) /\ t(status).route_decision = s.route_decision
        /\ t(status).clarification_frame = s.clarification_frame
    BY <1>1, FieldNames DEF IsState, Keeps, Aside
  <2> HIDE DEF t
  <2> QED  BY <2>2, <2>3, KeptMoves
<1>4. CASE PrepareRelationClarification \/ Audit
  <2>1. PICK next \in {"pause_clarification", "end"} : \E at : Node(at, s, next)
    BY <1>4 DEF PrepareRelationClarification, Audit
  <2>2. Keeps(s, s) /\ Aside(s, s)
    BY <1>1 DEF Keeps, Aside
  <2> QED  BY <2>1, <2>2, KeptMoves
<1>5. CASE PrepareClarificationReply \/ FinalizeTaskResults
  <2> DEFINE t == [s EXCEPT !.task_results = TaskResults(s)]
  <2>1. PICK next \in {"clarify_missing_fields", "audit"} : \E at : Node(at, t, next)
    BY <1>5 DEF PrepareClarificationReply, FinalizeTaskResults
  <2>2. TypedState(next, t)
    BY <1>1, ResultsAreSet
  <2> HIDE DEF t
  <2> QED  BY <2>1, <2>2, TypedMoves DEF Node
<1> QED  BY <1>2, <1>3, <1>4, <1>5

\* The nodes that read a message.
LEMMA ReadingIsTyped ==
    ASSUME GraphInv, LifeInv, ResultInv, TypeInv,
           Ingest \/ ClassifyAndExtract \/ ValidateRequiredFields \/ ResolveClarificationTurn
    PROVE  TypeInv'
<1> DEFINE s == graph.s
<1>1. /\ IsState(s) /\ TypedState(graph.at, s) /\ Tasked(graph.at, s) /\ Placed(graph.at, s)
      /\ IsContext(s.conversation_context)
  BY DEF GraphInv, Good, LifeInv, ResultInv, TypeInv, TypedState
<1>2. ASSUME NEW at, NEW t, NEW next, Node(at, t, next), TypedState(next, t)
      PROVE  TypeInv'
  BY <1>2, TypedMoves DEF Node
<1>3. CASE Ingest
  <2>1. TypedState("authorize_scope", IngestRequest(s))
    BY <1>1, IngestIsTyped
  <2> QED  BY <1>2, <1>3, <2>1 DEF Ingest
<1>4. CASE ClassifyAndExtract
  <2>1. s.request \in Message
    BY <1>1, <1>4 DEF ClassifyAndExtract, Tasked, Reading
  <2>2. PICK raw \in RawUnderstandings(Raws(s.request)) :
               Node("classify_and_extract",
                    ClassificationUpdate(s, Understand(Said[s.request], s.conversation_context, raw, FALSE), s.request),
                    "validate_required_fields")
    BY <1>4 DEF ClassifyAndExtract
  <2> DEFINE u == Understand(Said[s.request], s.conversation_context, raw, FALSE)
  <2>3. IsFull(u)
    BY <1>1, <2>1, UnderstoodInFull
  <2> HIDE DEF u
  <2>4. TypedState("validate_required_fields", ClassificationUpdate(s, u, s.request))
    BY <1>1, <2>3, ClassifiedIsTyped
  <2> QED  BY <1>2, <2>2, <2>4 DEF u
<1>5. CASE ValidateRequiredFields
  <2> DEFINE t == ValidatedFields(s)
  <2>1. graph.at = "validate_required_fields" /\ Node("validate_required_fields", t, RouteAfterValidation(t))
    BY <1>5 DEF ValidateRequiredFields
  <2>2. TypedState(RouteAfterValidation(t), t)
    BY <1>1, <2>1, ValidateIsTyped
  <2> QED  BY <1>2, <2>1, <2>2
<1>6. CASE ResolveClarificationTurn
  <2> DEFINE response == s.clarification_response
  <2>1. response \in Message /\ s.clarification_frame.status = "waiting"
    BY <1>1, <1>6 DEF ResolveClarificationTurn, Tasked, Placed
  <2>2. PICK raw \in RawUnderstandings(Raws(response)) :
               LET t == Resolved(s, Understand(Said[response], s.conversation_context, raw, TRUE))
               IN  Node("resolve_clarification_turn", t, RouteAfterResolution(t))
    BY <1>6 DEF ResolveClarificationTurn
  <2> DEFINE u == Understand(Said[response], s.conversation_context, raw, TRUE)
             t == Resolved(s, u)
  <2>3. IsFull(u)
    BY <1>1, <2>1, UnderstoodInFull
  <2>4. Node("resolve_clarification_turn", t, RouteAfterResolution(t))
    BY <2>2
  <2> HIDE DEF u
  <2>5. TypedState(RouteAfterResolution(t), t)
    BY <1>1, <2>1, <2>3, ResolveIsTyped
  <2> QED  BY <1>2, <2>4, <2>5
<1> QED  BY <1>3, <1>4, <1>5, <1>6

\* The nodes that wait for the answer.
LEMMA AskingIsTyped ==
    ASSUME GraphInv, LifeInv, TypeInv, ClarifyMissingFields \/ ResumeClarification \/ PauseClarification
    PROVE  TypeInv'
<1> DEFINE s == graph.s
           old == s.clarification_frame
<1>1. IsState(s) /\ TypedState(graph.at, s) /\ Placed(graph.at, s) /\ Named(s)
  BY DEF GraphInv, Good, LifeInv, TypeInv
<1>2. FullFrame(old)
  <2>1. old.status \in {"waiting", "paused"}
    BY <1>1 DEF ClarifyMissingFields, ResumeClarification, PauseClarification, Interrupt, Placed, Asking, Interrupting
  <2> QED  BY <1>1, <2>1 DEF TypedState, NoFrame
<1>3. ASSUME NEW at, NEW t, Interrupt(at, t), IsState(t), Keeps(s, t), Aside(s, t),
             t.route_decision = s.route_decision, FullFrame(t.clarification_frame)
      PROVE  TypeInv'
  <2> DEFINE r == [t EXCEPT !.clarification_response = run.resume]
  <2>1. /\ Keeps(s, r) /\ Aside(s, r) /\ r.route_decision = s.route_decision
        /\ r.clarification_frame = t.clarification_frame
    BY <1>3, FieldNames DEF IsState, Keeps, Aside
  <2>2. /\ graph' = [at |-> "resolve_clarification_turn", s |-> r] /\ run' = Answered
        /\ UNCHANGED <<thread, client, turns, faults>>
    BY <1>3 DEF Interrupt
  <2> HIDE DEF r
  <2>3. s.route_decision \in AgentRoute
    BY <1>1 DEF TypedState
  <2>4. TypedState("resolve_clarification_turn", r)
    BY <1>1, <1>3, <2>1, <2>3, KeptTyped
  <2> QED  BY <2>2, <2>4, TypedMoves
<1>4. CASE ClarifyMissingFields
  <2> DEFINE asked == old.round + 1
             frame == [[old EXCEPT !.round = asked] EXCEPT !.status = "waiting"]
             t == [s EXCEPT !.clarification_frame.round = asked, !.clarification_frame.status = "waiting",
                            !.clarification_round = asked]
  <2>1. Interrupt("clarify_missing_fields", t)
    BY <1>4 DEF ClarifyMissingFields
  <2>2. t = [s EXCEPT !.clarification_frame = frame, !.clarification_round = asked]
    BY <1>1, FieldNames DEF IsState
  <2>3. asked \in 0 .. 3
    <3>1. graph.at \in Asking
      BY <2>1 DEF Interrupt, Asking
    <3>2. /\ old.round \in Nat /\ s.clarification_round \in Nat
          /\ old.round <= s.clarification_round /\ s.clarification_round < MaxRounds
      BY <1>1, <3>1 DEF Placed, Named
    <3> QED  BY <3>2, RoundsAssumption
  <2>4. "status" \in DOMAIN frame /\ FullFrame(frame)
    <3>1. FullFrame(frame)
      BY <1>2, <2>3, StatusIsSet
    <3> HIDE DEF frame
    <3> QED  BY <3>1 DEF FullFrame
  <2> HIDE DEF asked, frame, t
  <2>5. IsState(t) /\ Keeps(s, t) /\ t.clarification_frame = frame
    BY <1>1, <2>2, <2>4, FrameIsAsked
  <2>6. Aside(s, t) /\ t.route_decision = s.route_decision
    BY <1>1, <2>2, FieldNames DEF IsState, Aside
  <2> QED  BY <1>3, <2>1, <2>4, <2>5, <2>6
<1>5. CASE ResumeClarification
  <2> DEFINE t == [s EXCEPT !.clarification_resume_only = FALSE]
  <2>1. Interrupt("resume_clarification", t)
    BY <1>5 DEF ResumeClarification
  <2>2. /\ IsState(t) /\ Keeps(s, t) /\ Aside(s, t) /\ t.clarification_frame = old
        /\ t.route_decision = s.route_decision
    BY <1>1, FieldNames DEF IsState, Keeps, Aside
  <2> HIDE DEF t
  <2> QED  BY <1>2, <1>3, <2>1, <2>2
<1>6. CASE PauseClarification
  <2> DEFINE waiting == [old EXCEPT !.status = "waiting"]
             t == [s EXCEPT !.clarification_frame.status = "waiting"]
  <2>1. Interrupt("pause_clarification", t)
    BY <1>6 DEF PauseClarification
  <2>2. t = [s EXCEPT !.clarification_frame = waiting]
    BY <1>1, FieldNames DEF IsState
  <2>3. "status" \in DOMAIN waiting /\ FullFrame(waiting)
    <3>1. FullFrame(waiting)
      BY <1>2, StatusIsSet
    <3> HIDE DEF waiting
    <3> QED  BY <3>1 DEF FullFrame
  <2> HIDE DEF waiting, t
  <2>4. /\ IsState(t) /\ Keeps(s, t) /\ Aside(s, t) /\ t.clarification_frame = waiting
        /\ t.route_decision = s.route_decision
    BY <1>1, <2>2, <2>3, FieldNames DEF IsState, Keeps, Aside
  <2> QED  BY <1>3, <2>1, <2>3, <2>4
<1> QED  BY <1>4, <1>5, <1>6

\* A message is added to the thread.
LEMMA LogGrows ==
    ASSUME NEW S, NEW messages \in Seq(S), IsLog(messages), NEW role \in {"user", "assistant"},
           NEW message \in Message \cup {None}, role = "user" => message \in Message
    PROVE  LET entry == Len(messages) + 1
               new == Append(messages, [id |-> entry, role |-> role, message |-> message])
           IN  /\ IsLog(new) /\ SaidByUser(messages) \subseteq SaidByUser(new)
               /\ role = "user" => entry \in SaidByUser(new)
<1> DEFINE entry == Len(messages) + 1
           e == [id |-> entry, role |-> role, message |-> message]
           new == Append(messages, e)
<1>1. e.id = entry /\ e.role = role /\ e.message = message
  OBVIOUS
<1> HIDE DEF e
<1>2. Len(messages) \in Nat /\ Len(new) = entry
  <2>1. Len(messages) \in Nat
    OBVIOUS
  <2>2. Len(Append(messages, e)) = Len(messages) + 1
    BY Appended
  <2> QED  BY <2>1, <2>2
<1>3. new[entry] = e /\ \A i \in 1 .. Len(messages) : new[i] = messages[i]
  <2>1. messages \in Seq(S \cup {e}) /\ e \in S \cup {e}
    OBVIOUS
  <2>2. ASSUME NEW R, NEW seq \in Seq(R), NEW x \in R
        PROVE  Append(seq, x)[Len(seq) + 1] = x /\ \A i \in 1 .. Len(seq) : Append(seq, x)[i] = seq[i]
    OBVIOUS
  <2> QED  BY <2>1, <2>2
<1> HIDE DEF new
<1>4. \A i \in 1 .. entry : i = entry \/ i \in 1 .. Len(messages)
  BY <1>2
<1>5. IsLog(new)
  BY <1>1, <1>2, <1>3, <1>4 DEF IsLog
<1>6. SaidByUser(messages) \subseteq SaidByUser(new)
  BY <1>2, <1>3 DEF SaidByUser
<1>7. role = "user" => entry \in SaidByUser(new)
  BY <1>1, <1>2, <1>3 DEF SaidByUser
<1> QED  BY <1>5, <1>6, <1>7 DEF new, e

\* Slots that are known from messages are so from more.
LEMMA StillSourced ==
    ASSUME NEW slots, NEW places, SourcedIn(slots, places), NEW more, places \subseteq more
    PROVE  SourcedIn(slots, more)
BY DEF SourcedIn

\* The service starts a turn with a message, or goes on with one.
LEMMA StreamIsTyped ==
    ASSUME GraphInv, ThreadInv, LifeInv, ResultInv, TypeInv, NEW c \in Client, StreamMessage(c)
    PROVE  TypeInv'
<1> DEFINE s == graph.s
           m == client[c].message
           entry == Len(thread.messages) + 1
           said == [id |-> entry, role |-> "user", message |-> m]
           with == [thread EXCEPT !.messages = Append(@, said)]
           context == Assemble(with, entry)
           given == [s EXCEPT !.conversation_context = context]
           asked == [given EXCEPT !.request = m, !.clarification_round = 0]
           resume == IF client[c].resume_checkpoint THEN m ELSE None
<1>1. /\ IsState(s) /\ graph = [at |-> graph.at, s |-> s] /\ TypedState(graph.at, s)
  BY DEF GraphInv, Good, TypeInv
<1>2. m \in Message
  BY DEF StreamMessage, ResultInv, Sent
<1>3. /\ thread' = with /\ run' = [client |-> c, entry |-> entry, resume |-> resume]
      /\ client' = [client EXCEPT ![c] = Idle] /\ UNCHANGED <<turns, faults>>
      /\ \/ graph' = [graph EXCEPT !.s = given]
         \/ graph' = [at |-> "ingest_request", s |-> asked]
  BY DEF StreamMessage
<1>4. /\ with.waiting = thread.waiting /\ with.messages = Append(thread.messages, said)
      /\ with.active_context = thread.active_context
  BY DEF ThreadInv
<1>5. PICK S : thread.messages \in Seq(S)
  BY DEF LifeInv, Numbered
<1>6. /\ IsLog(with.messages) /\ SaidByUser(thread.messages) \subseteq SaidByUser(with.messages)
      /\ entry \in SaidByUser(with.messages)
  BY <1>2, <1>4, <1>5, LogGrows DEF TypeInv, Filed
<1> HIDE DEF with, m, resume
<1>7. SourcedIn(with.active_context.slots, SaidByUser(with.messages))
  BY <1>4, <1>6, StillSourced DEF TypeInv, Filed
<1>8. IsContext(context)
  <2>1. AreKnown(with.active_context.slots)
    BY <1>7 DEF SourcedIn
  <2> QED  BY <1>6, <2>1, AssembledIs
<1> HIDE DEF context, entry
<1>9. Filed'
  <2>1. run'.client = c /\ run'.entry = entry
    BY <1>3
  <2> QED  BY <1>3, <1>4, <1>6, <1>7, <2>1 DEF TypeInv, Filed
<1>10. Counted'
  BY <1>3 DEF TypeInv, Counted, Idle
<1>11. PICK t : /\ t \in {given, asked}
                /\ \/ graph'.at = graph.at /\ graph'.s = t
                   \/ graph'.at = "ingest_request" /\ graph'.s = t
  BY <1>1, <1>3
<1>12. /\ t.understanding = s.understanding /\ t.route_plan = s.route_plan /\ t.route_decision = s.route_decision
       /\ t.clarification_frame = s.clarification_frame /\ t.authorization_errors = s.authorization_errors
       /\ t.task_results = s.task_results /\ t.conversation_context = context
  BY <1>1, <1>11, FieldNames, ZenonT(60) DEF IsState
<1> HIDE DEF given, asked
<1>13. TypedState(graph.at, t) /\ TypedState("ingest_request", t)
  BY <1>1, <1>8, <1>12 DEF TypedState
<1> QED  BY <1>9, <1>10, <1>11, <1>13 DEF TypeInv

\* The response is recorded.
LEMMA FinalizedIsTyped ==
    ASSUME ThreadInv, LifeInv, TypeInv, FinalizeStreamResponse
    PROVE  TypeInv'
<1> DEFINE s == graph.s
           result == [route |-> s.route_decision, slots |-> Slots(s), ledger |-> s.evidence_ledger,
                      trace_id |-> s.trace_id, slot_operations |-> s.understanding.slot_operations]
           entry == Len(thread.messages) + 1
           said == [id |-> entry, role |-> "assistant", message |-> None]
           messages == Append(thread.messages, said)
           context == UpdateActiveContext(thread, result, run.entry)
<1>1. /\ thread' = [waiting |-> graph.at # "end", messages |-> messages, active_context |-> context]
      /\ run' = NoRun /\ UNCHANGED <<graph, client, turns, faults>>
  BY DEF FinalizeStreamResponse, BuildResponse
<1>2. IsSlots(result.slots)
  <2>1. s.understanding = NoUnderstanding \/ IsFull(s.understanding)
    BY DEF TypeInv, TypedState
  <2>2. IsSlots(s.understanding.inherited_slots) /\ IsSlots(s.understanding.explicit_slots)
    BY <2>1, NoSlotsAre DEF NoUnderstanding, IsFull
  <2> QED  BY <2>2, OverlaidSlots DEF Slots
<1> HIDE DEF result
<1>3. run.entry \in SaidByUser(thread.messages)
  BY DEF FinalizeStreamResponse, LifeInv, Numbered, TypeInv, Filed
<1>4. SourcedIn(context.slots, SaidByUser(thread.messages))
  BY <1>2, <1>3, UpdatedIs DEF TypeInv, Filed, ThreadInv
<1>5. PICK S : thread.messages \in Seq(S)
  BY DEF LifeInv, Numbered
<1>6. IsLog(messages) /\ SaidByUser(thread.messages) \subseteq SaidByUser(messages)
  BY <1>5, LogGrows DEF TypeInv, Filed
<1> HIDE DEF messages, context
<1>7. Filed'
  <2>1. thread'.waiting \in BOOLEAN /\ thread'.messages = messages /\ thread'.active_context = context
    BY <1>1
  <2>2. run'.client = None /\ run'.entry = 0
    BY <1>1 DEF NoRun
  <2> QED  BY <1>4, <1>6, <2>1, <2>2, StillSourced DEF Filed
<1>8. Counted' /\ TypedState(graph.at, graph.s)'
  BY <1>1 DEF TypeInv, Counted
<1> QED  BY <1>7, <1>8 DEF TypeInv

\* A new thread has nothing that is not typed.
LEMMA InitIsTyped == ASSUME Init PROVE TypeInv
<1>1. /\ thread = [waiting |-> FALSE, messages |-> <<>>, active_context |-> NewContext]
      /\ graph = [at |-> "end", s |-> NoState] /\ run = NoRun /\ client = [c \in Client |-> Idle]
      /\ turns = 0 /\ faults = 0
  BY DEF Init
<1>2. TypedState("end", NoState)
  <2>1. /\ NoState.conversation_context = NoContext /\ NoState.understanding = NoUnderstanding
        /\ NoState.route_plan = NoPlan /\ NoState.route_decision = "clarify" /\ NoState.clarification_frame = NoFrame
        /\ NoState.authorization_errors = <<>> /\ NoState.task_results = <<>>
    BY DEF NoState
  <2>2. IsContext(NoContext)
    BY DEF IsContext, AreKnown, NoContext
  <2> QED  BY <2>1, <2>2, BlankIsTyped
<1>3. Filed
  <2>1. DOMAIN NewContext.slots = {}
    BY DEF NewContext
  <2>2. Len(<<>>) = 0
    OBVIOUS
  <2> QED  BY <1>1, <2>1, <2>2 DEF Filed, IsLog, SourcedIn, AreKnown, NoRun
<1>4. Counted
  BY <1>1, BoundsAssumption DEF Counted, Idle
<1> QED  BY <1>1, <1>2, <1>3, <1>4 DEF TypeInv

\* Every step keeps the types.
LEMMA EveryStepIsTyped ==
    GraphInv /\ ThreadInv /\ LifeInv /\ ResultInv /\ TypeInv /\ [Next]_vars => TypeInv'
<1> SUFFICES ASSUME GraphInv, ThreadInv, LifeInv, ResultInv, TypeInv, [Next]_vars PROVE TypeInv'
  OBVIOUS
<1>1. CASE \E c \in Client : PrepareMessage(c) \/ StreamMessage(c)
  <2>1. PICK c \in Client : PrepareMessage(c) \/ StreamMessage(c)
    BY <1>1
  <2>2. CASE PrepareMessage(c)
    <3>1. /\ UNCHANGED <<thread, graph, run, faults>> /\ turns < MaxTurns /\ turns' = turns + 1
          /\ \E m \in Message :
               client' = [client EXCEPT ![c] = [pc |-> "prepared", message |-> m, resume_checkpoint |-> thread.waiting]]
      BY <2>2 DEF PrepareMessage
    <3>2. Counted'
      BY <3>1, BoundsAssumption DEF TypeInv, Filed, Counted
    <3> QED  BY <3>1, <3>2 DEF TypeInv, Filed
  <2> QED  BY <2>1, <2>2, StreamIsTyped
<1>2. CASE Step
  BY <1>2, EvidenceIsTyped, AnsweringIsTyped, ReadingIsTyped, AskingIsTyped, FinalizedIsTyped
     DEF Step, Clarification
<1>3. CASE Fail
  <2>1. UNCHANGED <<thread, graph, client, turns>> /\ run' = NoRun /\ faults < MaxFaults /\ faults' = faults + 1
    BY <1>3 DEF Fail
  <2>2. Counted'
    BY <2>1, BoundsAssumption DEF TypeInv, Counted
  <2>3. Filed'
    BY <2>1 DEF TypeInv, Filed, NoRun
  <2> QED  BY <2>1, <2>2, <2>3 DEF TypeInv
<1>4. CASE Rest \/ UNCHANGED vars
  <2>1. UNCHANGED <<thread, graph, run, client, turns, faults>>
    BY <1>4 DEF Rest, vars
  <2> QED  BY <2>1 DEF TypeInv, Filed, Counted
<1> QED  BY <1>1, <1>2, <1>3, <1>4 DEF Next

\* A typed state is what the contracts name.
LEMMA TypeInvIsTypeOK == TypeInv => TypeOK
<1> SUFFICES ASSUME TypeInv PROVE TypeOK
  OBVIOUS
<1>1. \A e \in Of(thread.messages) : e.role \in {"user", "assistant"} /\ e.message \in Message \cup {None}
  BY DEF TypeInv, Filed, IsLog, Of
<1>2. \A slots \in {thread.active_context.slots} :
        IsSlots(Values(slots)) /\ \A n \in DOMAIN slots : slots[n].source \in SaidByUser(thread.messages)
  BY ValuesAre DEF TypeInv, Filed, SourcedIn
<1>3. /\ graph.s.understanding = NoUnderstanding \/ IsUnderstanding(graph.s.understanding)
      /\ IsRoutePlan(graph.s.route_plan)
      /\ graph.s.clarification_frame = NoFrame \/ IsClarificationFrame(graph.s.clarification_frame)
      /\ \A r \in Of(graph.s.task_results) : IsTaskExecutionResult(r)
  BY FullIsTyped, PlannedIsTyped, FullFrameIsTyped DEF TypeInv, TypedState
<1>4. \A c \in Client : client[c].pc \in {"idle", "prepared"} /\ client[c].resume_checkpoint \in BOOLEAN
  BY DEF TypeInv, Counted
<1> QED  BY <1>1, <1>2, <1>3, <1>4 DEF TypeOK, TypeInv, Filed, Counted

-----------------------------------------------------------------------------
(* Theorem of the types *)

\* Threads, checkpoints and runs are made of what the contracts name; a slot that is known,
\* and a run, come from a message of the user (models.py, _assemble, update_active_context).
THEOREM TypesAlwaysOK == Spec => []TypeOK
<1>1. Init => ThreadInv
  BY ThreadStarts
<1>2. ThreadInv /\ GraphInv /\ [Next]_vars => ThreadInv'
  BY ThreadKept, ThreadFinalized
<1>3. Init => LifeInv
  BY InitLives
<1>4. GraphInv /\ ThreadInv /\ LifeInv /\ [Next]_vars => LifeInv'
  BY EveryStepLives
<1>5. Init => ResultInv
  BY InitIsTasked
<1>6. Init => TypeInv
  BY InitIsTyped
<1> QED  BY <1>1, <1>2, <1>3, <1>4, <1>5, <1>6, EveryStepIsTasked, EveryStepIsTyped, TypeInvIsTypeOK, GraphIsGood,
            PTL DEF Spec

=============================================================================
