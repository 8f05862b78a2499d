---------------------------- MODULE Understanding ----------------------------
(***************************************************************************)
(* From a message to its understanding (agent_runtime/understanding.py and *)
(* semantic_grounding.py): fixed forms of control and small talk first     *)
(* (L0), then what a language model answers, checked against the text and  *)
(* the conversation (NormalizeRaw), or the heuristics that stand in for it *)
(* (Heuristic).                                                            *)
(*                                                                         *)
(* The signs of a message are named for the patterns and term lists that   *)
(* its text is searched for.  Left out: the query handed to the retrieval, *)
(* the sentiment, the dimensions a ranking is grouped by, and the audit of *)
(* the calls made.                                                         *)
(***************************************************************************)
EXTENDS RoutePolicy

Bears(signs, any) == signs \cap any # {}

\* The slots a text names: one it corrects has its new value.
ExplicitSlots(m) ==
    IF m.correction = None THEN m.slots
    ELSE Overlay(m.slots, [n \in {m.correction.slot} |-> m.correction.new])

\* A value that somebody proposes for a slot has to stand in the text.
SlotValueIsGrounded(m, n, value) ==
    IF m.correction # None /\ m.correction.slot = n THEN value = m.correction.new
    ELSE <<n, value>> \in m.named

ValidContextSlots(context) ==
    [n \in {n \in DOMAIN context.slots : context.slots[n].valid} |-> context.slots[n]]

Values(sourced) == [n \in DOMAIN sourced |-> sourced[n].value]

\* The last message of a role, and the last of the user that is not a mere recall.
LastMessage(context, role) ==
    LET recent == context.recent
        own == Picked(recent, {i \in 1 .. Len(recent) : recent[i].role = role})
    IN  IF own = <<>> THEN <<>> ELSE <<own[Len(own)].id>>

LastSubstantive(context) ==
    LET recent == context.recent
        own == Picked(recent, {i \in 1 .. Len(recent) :
                                 recent[i].role = "user" /\ "history_recall" \notin Said[recent[i].message].signs})
    IN  IF own = <<>> THEN <<>> ELSE <<own[Len(own)]>>

Ids(entries) == [i \in 1 .. Len(entries) |-> entries[i].id]

\* The messages that said what is inherited.
Sources(sourced) ==
    LET names == Picked(Slot_Order, {i \in 1 .. 9 : Slot_Order[i] \in DOMAIN sourced})
    IN  [i \in 1 .. Len(names) |-> sourced[names[i]].source]

Inherit(sourced) ==
    {[operation |-> "inherit", slot_name |-> n, value |-> sourced[n].value] : n \in DOMAIN sourced}

-----------------------------------------------------------------------------
(* The grounding of an intent in the words of the text *)

IF01(test) == IF test THEN 1 ELSE 0

Protected == {"action_request", "content_task", "conversation"}

\* The scores of a dynamic question, of a general one and of an investigation.
DynamicScore(signs) ==
    2 * IF01(Bears(signs, {"relative_time", "explicit_time"})) + IF01("data_object" \in signs)
      + 2 * IF01("data_action" \in signs) + IF01({"aggregate", "data_object"} \subseteq signs)
      + IF01(Bears(signs, {"trend", "event"}))

ConceptScore(signs) ==
    2 * IF01("concept" \in signs) + IF01("general" \in signs)
      + IF01(~Bears(signs, {"relative_time", "explicit_time", "entity"}))

InvestigationScore(signs) ==
    3 * IF01("causal" \in signs) + 2 * IF01(Bears(signs, {"relative_time", "explicit_time", "entity"}))
      + IF01("data_object" \in signs)

GroundedIntent(signs, proposed) ==
    IF proposed \in Protected THEN proposed
    ELSE IF InvestigationScore(signs) >= 5 THEN "investigation"
    ELSE IF "data_object" \in signs /\ DynamicScore(signs) >= 4 THEN "data_query"
    ELSE IF ConceptScore(signs) >= 3 /\ DynamicScore(signs) < 4 THEN "knowledge_query"
    ELSE proposed

GroundedOutput(signs, intent, fallback) ==
    IF intent = "knowledge_query"
    THEN IF "aggregate" \in signs THEN "enumeration" ELSE "explanation"
    ELSE IF intent = "investigation" \/ "causal" \in signs THEN "diagnosis"
    ELSE IF "trend" \in signs THEN "trend"
    ELSE IF "aggregate" \in signs THEN "ranking"
    ELSE IF "event" \in signs /\ intent = "data_query" THEN "records"
    ELSE fallback

GroundedScope(signs, intent, targets, fallback) ==
    IF intent = "investigation" THEN "mixed"
    ELSE IF intent # "knowledge_query" THEN "not_applicable"
    ELSE IF Bears(targets, {"sop", "recipe"}) \/ "internal" \in signs THEN "internal_controlled"
    ELSE IF fallback = "mixed" THEN fallback
    ELSE "public_general"

GroundedShape(signs, intent) ==
    CASE intent = "knowledge_query" -> "concept_explanation"
      [] intent = "investigation" -> "causal_investigation"
      [] intent = "data_query" -> IF "aggregate" \in signs THEN "aggregate_ranking"
                                  ELSE IF "trend" \in signs THEN "trend_analysis"
                                  ELSE IF "event" \in signs THEN "event_list"
                                  ELSE "entity_lookup"
      [] intent \in {"conversation", "content_task"} -> "direct"
      [] OTHER -> "control"

\* The words of a text overrule the intent proposed for it.
StrongOverride(signs, proposed) == GroundedIntent(signs, proposed) # proposed

-----------------------------------------------------------------------------
(* Tasks read from a text *)

Writes(signs) == "mutation" \in signs
NamesRecipe(signs) == "recipe" \in signs
AsksTheMeaning(signs) == {"alarm", "meaning"} \subseteq signs

Rewrite(signs) ==
    IF "summarize" \in signs THEN "summarize" ELSE IF "translate" \in signs THEN "translate" ELSE "simplify"

Candidate(intent, target, action, policy) ==
    [intent |-> intent, target |-> target, action |-> action, policy |-> policy]

Offer(test, candidate) == IF test THEN <<candidate>> ELSE <<>>

Candidates(signs, primary) ==
    LET lookup(target) == Candidate("data_query", target, "lookup", "execute")
        data == \/ primary \in {"data_query", "investigation"}
                \/ primary = "action_request" /\ "look" \in signs
        looked == IF "fdc_data" \in signs THEN <<lookup("fdc")>>
                  ELSE IF "spc_data" \in signs THEN <<lookup("spc")>>
                  ELSE Offer("lot_data" \in signs, lookup("lot"))
        recipe == IF Writes(signs) THEN Candidate("action_request", "recipe", "execute", "refuse")
                  ELSE Candidate("knowledge_query", "recipe", "explain", "execute")
        known == primary = "knowledge_query"
        all == Offer("history_clause" \in signs,
                     Candidate("conversation", "previous_user_message", "recall", "execute"))
            \o Offer(known /\ AsksTheMeaning(signs), Candidate("knowledge_query", "alarm", "explain", "execute"))
            \o Offer(known /\ "external" \in signs, Candidate("knowledge_query", "general", "lookup", "execute"))
            \o (IF data THEN looked ELSE <<>>)
            \o Offer("sop_words" \in signs,
                     Candidate("knowledge_query", "sop", IF "compare" \in signs THEN "compare" ELSE "lookup", "execute"))
            \o Offer(NamesRecipe(signs), recipe)
            \o Offer("why" \in signs, Candidate("investigation", "case", "diagnose", "execute"))
            \o Offer("make_report" \in signs, Candidate("content_task", "report", "generate", "defer"))
            \o Offer(Writes(signs) /\ ~NamesRecipe(signs),
                     Candidate("action_request", "general", "execute", "refuse"))
            \o Offer("simpler" \in signs,
                     Candidate("content_task", "previous_answer", Rewrite(signs), "execute"))
        rest == Candidate(primary, "general", IF primary = "conversation" THEN "explain" ELSE "lookup", "execute")
    IN  IF all = <<>> THEN <<rest>> ELSE FirstThree(all)

DataTargets == {"fdc", "spc", "wafer_map", "lot", "alarm"}
ControlledTargets == {"sop", "recipe", "alarm"}

\* A task that the words of its text do not change.
Preserved(intent, target, policy) ==
    \/ policy \in {"refuse", "defer"}
    \/ intent \in Protected
    \/ intent = "knowledge_query" /\ target \in ControlledTargets

PreservedShape(intent) ==
    CASE intent = "knowledge_query" -> "concept_explanation"
      [] intent \in {"conversation", "content_task"} -> "direct"
      [] OTHER -> "control"

\* What becomes of a task whose text says something else than its intent.
Grounded(task, signs) ==
    LET intent == GroundedIntent(signs, task.primary_intent)
        override == intent # task.primary_intent
    IN  IF task.primary_intent = "data_query" /\ intent = "investigation" /\ task.target_type \in DataTargets
        THEN [task EXCEPT !.action = "lookup", !.task_shape = "entity_lookup"]
        ELSE [task EXCEPT
               !.primary_intent = intent,
               !.task_shape = GroundedShape(signs, intent),
               !.target_type =
                 IF override /\ intent = "knowledge_query" /\ @ \notin ControlledTargets THEN "general"
                 ELSE IF override /\ intent = "investigation" THEN "case" ELSE @,
               !.action =
                 IF ~override THEN @
                 ELSE CASE intent = "knowledge_query" -> "explain"
                        [] intent = "data_query" -> "lookup"
                        [] intent = "investigation" -> "diagnose"]

Item(id, intent, target, action, shape, needs, policy, spans) ==
    [task_id |-> id, primary_intent |-> intent, target_type |-> target, action |-> action,
     task_shape |-> shape, depends_on |-> needs, execution_policy |-> policy, spans |-> spans]

Nth == <<"task_1", "task_2", "task_3">>

\* An investigation waits for the lookups that stand before it.
WithNeeds(items, wanted) ==
    LET needs(i) == IF wanted[i].intent # "investigation" THEN {}
                    ELSE {items[j].task_id : j \in {j \in 1 .. i - 1 :
                                                    items[j].primary_intent \in {"data_query", "knowledge_query"}}}
    IN  [i \in DOMAIN items |-> [items[i] EXCEPT !.depends_on = needs(i)]]

InferredItem(id, c, signs) ==
    LET plain == Item(id, c.intent, c.target, c.action, PreservedShape(c.intent), {}, c.policy, signs)
    IN  IF Preserved(c.intent, c.target, c.policy) THEN plain ELSE Grounded(plain, signs)

Inferred(wanted, signs) == WithNeeds([i \in DOMAIN wanted |-> InferredItem(Nth[i], wanted[i], signs)], wanted)

InferTasks(m, primary) ==
    LET signs == m.signs
    IN  IF Writes(signs) /\ "several" \notin signs
        THEN <<Item("task_1", "action_request", IF NamesRecipe(signs) THEN "recipe" ELSE "general", "execute",
                    "unspecified", {}, "refuse", signs)>>
        ELSE Inferred(Candidates(signs, primary), signs)

-----------------------------------------------------------------------------
(* What the server does not do at all *)

IsSmallTalk(signs) ==
    \/ Bears(signs, {"history_recall", "greeting", "capability", "feedback", "cancel"})
    \/ {"rewrite", "earlier"} \subseteq signs

\* A request that is not about manufacturing, while nothing is asked of the user.
RequiresCapabilityBoundary(m, primary, pending, targeted) ==
    /\ ~pending
    /\ ~Bears(m.signs, {"scope", "governed_corpus"})
    /\ ~IsSmallTalk(m.signs)
    /\ IF primary = "conversation" THEN "generic_request" \in m.signs
       ELSE ~(primary = "content_task" /\ targeted)

OutOfScope(action) ==
    Item("task_1", "action_request", "general", action, "unspecified", {}, "refuse", {})

-----------------------------------------------------------------------------
(* Fixed forms *)

Direct(mode, intent, target, action, route, ids) ==
    [interaction_mode |-> mode, primary_intent |-> intent,
     task_items |-> <<Item("task_1", intent, target, action, "unspecified", {}, "execute", {})>>,
     knowledge_scope |-> "unspecified", expected_output |-> "unspecified",
     slot_operations |-> {}, explicit_slots |-> NoSlots, inherited_slots |-> NoSlots,
     context_message_ids |-> ids, cancel_scope |-> None, clarification_relation |-> None,
     suggested_route |-> route, confidence |-> 99]

SuggestRoute(primary, m, tasks) ==
    LET intents == {t.primary_intent : t \in Of(tasks)}
    IN  IF \A t \in Of(tasks) : t.execution_policy = "refuse" THEN "refuse"
        ELSE IF "investigation" \in intents \/ {"data_query", "knowledge_query"} \subseteq intents
        THEN "rag_and_tool"
        ELSE IF WebAsked(m) THEN "rag_and_web"
        ELSE IF primary = "data_query" THEN "tool_only"
        ELSE IF primary \in {"conversation", "content_task"} THEN "chat_direct"
        ELSE "internal_rag"

\* The words alone decide: no language model, or none that answers.
HeuristicIntent(signs) ==
    IF Writes(signs) THEN "action_request"
    ELSE IF Bears(signs, {"rewrite", "report"}) THEN "content_task"
    ELSE IF "external" \in signs \/ {"sop", "rule"} \subseteq signs THEN "knowledge_query"
    ELSE IF "cause" \in signs THEN "investigation"
    ELSE IF "explain" \in signs THEN "knowledge_query"
    ELSE IF "data_word" \in signs THEN "data_query"
    ELSE "knowledge_query"

HeuristicMode(signs, pending, outside) ==
    IF outside THEN "task"
    ELSE IF pending THEN "clarification_answer"
    ELSE IF Bears(signs, {"hello", "history_clause"}) /\ "has_business" \in signs THEN "mixed"
    ELSE IF "feedback" \in signs THEN "feedback"
    ELSE IF "control" \in signs THEN "control"
    ELSE "task"

Guessed(m, context, pending, outside, primary, tasks, targets) ==
    LET signs == m.signs
        inherited == IF "reference" \in signs THEN ValidContextSlots(context) ELSE NoSlots
        explicit == ExplicitSlots(m)
        asks(target) == \E t \in Of(tasks) : t.target_type = target
    IN  [interaction_mode |-> HeuristicMode(signs, pending, outside),
         primary_intent |-> primary,
         task_items |-> tasks,
         knowledge_scope |-> GroundedScope(signs, primary, targets, "unspecified"),
         expected_output |-> GroundedOutput(signs, primary, "unspecified"),
         slot_operations |-> Inherit(inherited) \cup
             {[operation |-> "set", slot_name |-> n, value |-> explicit[n]] : n \in DOMAIN explicit},
         explicit_slots |-> explicit,
         inherited_slots |-> Values(inherited),
         context_message_ids |->
             (IF asks("previous_answer") THEN LastMessage(context, "assistant") ELSE <<>>)
               \o (IF asks("previous_user_message") THEN Ids(LastSubstantive(context)) ELSE <<>>)
               \o Sources(inherited),
         cancel_scope |-> None, clarification_relation |-> None,
         suggested_route |-> SuggestRoute(primary, m, tasks),
         confidence |-> 82]

Heuristic(m, context, pending) ==
    LET read == HeuristicIntent(m.signs)
        outside == RequiresCapabilityBoundary(m, read, pending, FALSE)
        first == IF outside THEN "action_request" ELSE read
        primary == GroundedIntent(m.signs, first)
        tasks(intent) == IF outside THEN <<OutOfScope("execute")>> ELSE InferTasks(m, intent)
    IN  Guessed(m, context, pending, outside, primary, tasks(primary), {t.target_type : t \in Of(tasks(first))})

IsL0(m, context) ==
    LET signs == m.signs
    IN  \/ IsEvidenceFollowup(m) /\ HasValidEvidence(context)
        \/ "image_asset" \in signs /\ ~Bears(signs, {"time", "image_live"})
        \/ Bears(signs, {"history_recall", "feedback", "cancel", "greeting", "capability"})
        \/ "previous_answer" \in signs /\ "contains_business" \notin signs
        \/ m.correction # None

\* A question about the evidence takes up the lookups of the last request.
Reusable(tasks) ==
    LET business == {"knowledge_query", "data_query", "investigation"}
    IN  Picked(tasks, {i \in 1 .. Len(tasks) : /\ tasks[i].execution_policy = "execute"
                                              /\ tasks[i].primary_intent \in business})

Reused(prior, tasks, known) ==
    IF tasks = <<>> THEN Direct("task", "knowledge_query", "general", "explain", "reuse_evidence", <<>>)
    ELSE [prior EXCEPT
           !.interaction_mode = "task",
           !.primary_intent = tasks[1].primary_intent,
           !.task_items = tasks,
           !.slot_operations = Inherit(known),
           !.explicit_slots = NoSlots,
           !.inherited_slots = Values(known),
           !.context_message_ids = <<>>,
           !.suggested_route = "reuse_evidence",
           !.confidence = 99]

EvidenceFollowup(context) ==
    LET last == LastSubstantive(context)
        reused(prior) == Reused(prior, Reusable(prior.task_items), ValidContextSlots(context))
    IN  IF last # <<>> THEN reused(Heuristic(Said[last[1].message], context, FALSE)) ELSE Reused(None, <<>>, NoSlots)

L0(m, context) ==
    LET signs == m.signs
        control == Direct("control", "conversation", "general", "execute", "chat_direct", <<>>)
        answer == LastMessage(context, "assistant")
    IN  IF IsEvidenceFollowup(m) /\ HasValidEvidence(context) THEN EvidenceFollowup(context)
        ELSE IF "image_asset" \in signs /\ ~Bears(signs, {"time", "image_live"})
        THEN Direct("task", "knowledge_query", "wafer_map", "lookup", "internal_rag", <<>>)
        ELSE IF "history_recall" \in signs
        THEN Direct("conversation", "conversation", "previous_user_message", "recall", "chat_direct",
                    Ids(LastSubstantive(context)))
        ELSE IF "previous_answer" \in signs /\ "contains_business" \notin signs
        THEN Direct(IF "feedback" \in signs THEN "feedback" ELSE "conversation", "content_task",
                    "previous_answer", Rewrite(signs), "chat_direct", answer)
        ELSE IF "feedback" \in signs
        THEN Direct("feedback", "conversation", "previous_answer", "explain", "chat_direct", answer)
        ELSE IF "cancel" \in signs
        THEN [control EXCEPT !.cancel_scope =
                IF "stop_generation" \in signs THEN "current_generation"
                ELSE IF "drop_questions" \in signs THEN "clarification" ELSE "current_task"]
        ELSE IF m.correction # None
        THEN [control EXCEPT
                !.explicit_slots = [n \in {m.correction.slot} |-> m.correction.new],
                !.slot_operations = {[operation |-> "correct", slot_name |-> m.correction.slot,
                                      value |-> m.correction.new]}]
        ELSE Direct("conversation", "conversation", "general", "explain", "chat_direct", <<>>)

-----------------------------------------------------------------------------
(* What a language model answers, against the text *)

\* The first rule that the text meets; else what is proposed.
NormalizePrimaryIntent(proposed, signs) ==
    IF "history_recall" \in signs THEN "conversation"
    ELSE IF Writes(signs) THEN "action_request"
    ELSE IF {"rewrite", "answer_word"} \subseteq signs THEN "content_task"
    ELSE IF AsksTheMeaning(signs) \/ "external" \in signs THEN "knowledge_query"
    ELSE IF "cause" \in signs THEN "investigation"
    ELSE IF {"sop", "sop_question"} \subseteq signs THEN "knowledge_query"
    ELSE IF {"look", "data_word"} \subseteq signs THEN "data_query"
    ELSE proposed

NormalizeInteractionMode(proposed, primary, signs, pending) ==
    IF pending THEN "clarification_answer"
    ELSE IF {"hello", "has_business"} \subseteq signs THEN "mixed"
    ELSE IF proposed = "clarification_answer" THEN "task"
    ELSE IF primary \notin {"conversation", "content_task"} /\ proposed \in {"conversation", "feedback"}
    THEN "task"
    ELSE proposed

\* Tasks that quote the text, and only tasks before them to depend on.
NormalizeTasks(raws) ==
    LET quoted == {i \in 1 .. Len(raws) : raws[i].grounded}
        item(i) == Item(Nth[i], raws[i].primary_intent, raws[i].target_type, raws[i].action, raws[i].task_shape,
                        raws[i].depends_on \cap {Nth[j] : j \in {j \in quoted : j < i}},
                        raws[i].execution_policy, raws[i].spans)
    IN  Picked([i \in 1 .. Len(raws) |-> item(i)], quoted)

\* Two tasks that have become the same are one.
Became(t) ==
    IF Preserved(t.primary_intent, t.target_type, t.execution_policy)
    THEN [t EXCEPT !.task_shape = IF @ # "unspecified" THEN @ ELSE PreservedShape(t.primary_intent)]
    ELSE Grounded(t, t.spans)

Merged(tasks) ==
    LET key(i) == <<tasks[i].primary_intent, tasks[i].target_type, tasks[i].action, tasks[i].task_shape>>
        owner(i) == CHOOSE j \in 1 .. i : key(j) = key(i) /\ \A k \in 1 .. j - 1 : key(k) # key(i)
        firsts == {i \in DOMAIN tasks : owner(i) = i}
        rank(i) == Cardinality({j \in firsts : j <= i})
        renamed(ids) == {Nth[rank(owner(i))] : i \in {i \in DOMAIN tasks : tasks[i].task_id \in ids}}
        at(n) == CHOOSE i \in firsts : rank(i) = n
    IN  [n \in 1 .. Cardinality(firsts) |->
           [tasks[at(n)] EXCEPT !.task_id = Nth[n], !.depends_on = renamed(@)]]

ApplyGroundedTaskSemantics(tasks) == Merged([i \in DOMAIN tasks |-> Became(tasks[i])])

\* One task for a text that overrules the intent proposed for it.
CollapseTasks(tasks, m, intent) ==
    LET own == Picked(tasks, {i \in 1 .. Len(tasks) : tasks[i].target_type \in DataTargets})
        target == CASE intent = "data_query" -> IF own = <<>> THEN "general" ELSE own[1].target_type
                    [] intent = "investigation" -> "case"
                    [] OTHER -> "general"
        action == CASE intent = "data_query" -> "lookup"
                    [] intent = "investigation" -> "diagnose"
                    [] OTHER -> "explain"
    IN  <<Item("task_1", intent, target, action, GroundedShape(m.signs, intent), {}, "execute", m.signs)>>

\* A value is set or corrected only to what the text names, and inherited only from the context.
NormalizeOperations(operations, explicit, known) ==
    {[operation |-> o.operation, slot_name |-> o.slot_name, value |-> explicit[o.slot_name]] :
        o \in {o \in operations : o.operation \in {"set", "correct"} /\ o.slot_name \in DOMAIN explicit}}
    \cup {[operation |-> "inherit", slot_name |-> o.slot_name, value |-> known[o.slot_name].value] :
        o \in {o \in operations : o.operation = "inherit" /\ o.slot_name \in DOMAIN known}}
    \cup {[operation |-> "clear", slot_name |-> o.slot_name, value |-> None] :
        o \in {o \in operations : o.operation = "clear" /\ o.slot_name \in Context_Slot_Names}}

\* The tasks of an answer of the model, and the intent they serve.
RawTasks(raw, m, primary) ==
    LET quoted == NormalizeTasks(raw.task_items)
        collapsed(tasks) == IF StrongOverride(m.signs, NormalizePrimaryIntent(raw.primary_intent, m.signs))
                            THEN CollapseTasks(tasks, m, primary) ELSE tasks
    IN  collapsed(ApplyGroundedTaskSemantics(IF quoted = <<>> THEN InferTasks(m, primary) ELSE quoted))

Recalls(tasks) ==
    Picked(tasks, {i \in 1 .. Len(tasks) : tasks[i].target_type = "previous_user_message" /\ tasks[i].action = "recall"})

Normalized(raw, m, context, pending, turn, tasks, recalls) ==
    LET signs == m.signs
        read == ExplicitSlots(m)
        proposed == {n \in DOMAIN raw.explicit_slots : SlotValueIsGrounded(m, n, raw.explicit_slots[n])}
        explicit == Overlay(read, [n \in proposed |-> raw.explicit_slots[n]])
        known == ValidContextSlots(context)
        inherited == [n \in raw.inherited_slot_names \cap DOMAIN known |-> known[n].value]
        targets == {t.target_type : t \in Of(NormalizeTasks(raw.task_items))}
        recallOnly == recalls # <<>> /\ Len(tasks) = 1
        rewrites == \E t \in Of(tasks) : t.target_type = "previous_answer" /\ t.action \in Rewriting \cup {"recall"}
        primary == IF recallOnly THEN "conversation" ELSE turn
        served == IF recallOnly THEN <<[recalls[1] EXCEPT !.primary_intent = "conversation"]>>
                  ELSE IF primary # raw.primary_intent \/ Writes(signs) \/ "make_report" \in signs
                  THEN InferTasks(m, primary)
                  ELSE tasks
        told == raw.context_message_ids
        own == Picked(told, {i \in 1 .. Len(told) : told[i] \in Of(Ids(context.recent))})
        ids == (IF rewrites THEN LastMessage(context, "assistant") ELSE <<>>)
                 \o (IF recalls # <<>> THEN Ids(LastSubstantive(context)) ELSE <<>>)
                 \o (IF recallOnly THEN <<>> ELSE own)
        relation == IF raw.clarification_relation = "cancel_current" /\ "cancel" \notin signs
                    THEN "ambiguous" ELSE raw.clarification_relation
        answering == pending /\ relation \notin {"replace_with_new_request", "side_conversation", "cancel_current"}
        outside == RequiresCapabilityBoundary(m, primary, answering, ids # <<>>)
        final == IF outside THEN "action_request" ELSE primary
    IN  [interaction_mode |->
             NormalizeInteractionMode(IF recallOnly THEN "conversation" ELSE raw.interaction_mode,
                                      final, signs, answering),
         primary_intent |-> final,
         task_items |-> IF outside THEN <<OutOfScope("explain")>> ELSE served,
         knowledge_scope |-> GroundedScope(signs, turn, targets, raw.knowledge_scope),
         expected_output |-> GroundedOutput(signs, turn, raw.expected_output),
         slot_operations |-> NormalizeOperations(raw.slot_operations, explicit, known),
         explicit_slots |-> explicit,
         inherited_slots |-> inherited,
         context_message_ids |-> IF outside THEN <<>> ELSE ids,
         cancel_scope |-> IF "cancel" \in signs THEN raw.cancel_scope ELSE None,
         clarification_relation |-> relation,
         suggested_route |-> IF outside THEN "refuse"
                             ELSE IF recallOnly \/ raw.suggested_route = "history_direct" THEN "chat_direct"
                             ELSE raw.suggested_route,
         confidence |-> raw.confidence]

NormalizeRaw(raw, m, context, pending) ==
    LET turn == GroundedIntent(m.signs, NormalizePrimaryIntent(raw.primary_intent, m.signs))
        normalized(tasks) == Normalized(raw, m, context, pending, turn, tasks, Recalls(tasks))
    IN  normalized(RawTasks(raw, m, turn))

\* A call of the model: its answer is one of "readings", in the form of today or in an
\* older one that is completed, or breaks the schema; or no provider answers.
Calls(readings) ==
    [end : {"answered"}, raw : readings] \cup [end : {"invalid", "failed"}, raw : {None}]

\* A first answer that breaks the schema is sent back once, whatever becomes of it.
Repaired(first, repair) == IF first.end = "invalid" THEN repair.raw ELSE first.raw

RawUnderstandings(readings) ==
    {Repaired(first, repair) : first \in Calls(readings), repair \in Calls(readings)}

\* Without anything to go by (in demonstrations the model is not even asked), the
\* heuristics stand in.
ReadRaw(m, context, raw, pending) ==
    IF raw = None THEN Heuristic(m, context, pending) ELSE NormalizeRaw(raw, m, context, pending)

\* "raw" is one of the RawUnderstandings.
Understand(m, context, raw, pending) ==
    IF IsL0(m, context) THEN L0(m, context) ELSE ReadRaw(m, context, raw, pending)

=============================================================================
