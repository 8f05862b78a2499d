---------------------------- MODULE MCAgentTurns ----------------------------
(***************************************************************************)
(* Messages of an engineer to the thread, each with the signs that the     *)
(* patterns and term lists of the code find in the sentence above it.      *)
(***************************************************************************)
EXTENDS AgentTurns, TLC

\* P-7 在 ETCH-03 腔体 A 的良率下降是什么原因？
Cause ==
    [signs |-> {"causal", "cause", "concept", "contains_business", "data_object", "data_word",
                "entity", "has_business", "lot_data", "scope", "standalone", "why", "yield_words"},
     slots |-> [chamber |-> "A", product |-> "P-7", tool_id |-> "ETCH-03"]]

\* ETCH-03 最近 7 天的 FDC 报警有哪些？
Fdc ==
    [signs |-> {"aggregate", "alarm", "contains_business", "data_object", "data_word", "entity",
                "event", "explicit_time", "fdc_data", "fdc_words", "has_business", "image_live",
                "relative_time", "scope", "standalone", "time"},
     slots |-> [time_range |-> "7 days", tool_id |-> "ETCH-03"]]

\* ETCH-03 的刻蚀 SOP 要求是什么？
Sop ==
    [signs |-> {"concept", "contains_business", "entity", "has_business", "rule", "scope", "sop",
                "sop_question", "sop_words", "standalone"},
     slots |-> [tool_id |-> "ETCH-03"]]

\* 把 ETCH-03 的 recipe 压力调高一点
Raise ==
    [signs |-> {"change_words", "contains_business", "entity", "fdc_data", "has_business",
                "recipe", "scope", "standalone"},
     slots |-> [tool_id |-> "ETCH-03"]]

\* 互联网上公开的刻蚀 SOP 要求是什么？
Websop ==
    [signs |-> {"concept", "contains_business", "external", "has_business", "rule", "scope", "sop",
                "sop_question", "sop_words", "standalone"},
     slots |-> NoSlots]

\* 光刻的原理是什么？
Concept ==
    [signs |-> {"concept", "general", "scope", "standalone"},
     slots |-> NoSlots]

\* 互联网上关于光刻胶的公开资料
Web ==
    [signs |-> {"external", "scope"},
     slots |-> NoSlots]

\* 把 ETCH-03 的 recipe 压力修改一下，并且查 FDC 报警
Write ==
    [signs |-> {"alarm", "change_words", "contains_business", "data_object", "data_word", "entity",
                "event", "fdc_data", "fdc_words", "has_business", "look", "mutation", "recipe",
                "scope", "several", "sop_question", "standalone"},
     slots |-> [tool_id |-> "ETCH-03"]]

\* P-9 的 SOP 要求是什么？
Foreign ==
    [signs |-> {"concept", "contains_business", "entity", "has_business", "rule", "scope", "sop",
                "sop_question", "sop_words", "standalone"},
     slots |-> [product |-> "P-9"]]

\* 把刚才的回答总结一下，再查 SOP 的要求
Both ==
    [signs |-> {"answer_word", "contains_business", "earlier", "has_business", "look",
                "previous_answer", "reference", "rewrite", "rule", "scope", "several", "simpler",
                "sop", "sop_question", "sop_words", "standalone", "summarize"},
     slots |-> NoSlots]

\* 最近 7 天
Days ==
    [signs |-> {"explicit_time", "image_live", "relative_time", "time"},
     slots |-> [time_range |-> "7 days"]]

\* 不是 ETCH-03，是 ETCH-04
Corrected ==
    [signs |-> {"control", "entity", "scope"},
     slots |-> [tool_id |-> "ETCH-03"], named |-> {<<"tool_id", "ETCH-03">>, <<"tool_id", "ETCH-04">>},
     correction |-> [slot |-> "tool_id", old |-> "ETCH-03", new |-> "ETCH-04"]]

\* 谢谢
Thanks ==
    [signs |-> {"greeting"},
     slots |-> NoSlots]

\* 上面这些证据的来源是哪里？
Followup ==
    [signs |-> {"answer_word", "earlier", "evidence_followup", "reference", "scope", "standalone"},
     slots |-> NoSlots]

\* 我刚才问了什么？
Recall ==
    [signs |-> {"answer_word", "earlier", "history_clause", "history_recall", "reference",
                "standalone"},
     slots |-> NoSlots]

\* 取消这次查询
Cancel ==
    [signs |-> {"cancel", "control", "data_action", "has_business", "look", "several",
                "sop_question", "standalone"},
     slots |-> NoSlots]

\* 继续刚才的问题
Again ==
    [signs |-> {"answer_word", "continue", "earlier", "reference", "resume_terms"},
     slots |-> NoSlots]

\* 换个问题
Switch ==
    [signs |-> {"switch"},
     slots |-> NoSlots]

\* 不知道
Unknown ==
    [signs |-> {"unknown"},
     slots |-> NoSlots]

-----------------------------------------------------------------------------
(* Constants *)

Sentence ==
    "cause" :> Cause @@ "fdc" :> Fdc @@ "sop" :> Sop @@ "websop" :> Websop @@
    "concept" :> Concept @@ "raise" :> Raise @@ "web" :> Web @@ "write" :> Write @@ "foreign" :> Foreign @@
    "both" :> Both @@ "days" :> Days @@ "corrected" :> Corrected @@ "thanks" :> Thanks @@
    "followup" :> Followup @@ "recall" :> Recall @@ "cancel" :> Cancel @@ "again" :> Again @@
    "switch" :> Switch @@ "unknown" :> Unknown

\* A sentence names the slots it is read for, and corrects nothing, unless it says so.
MCSaid ==
    [m \in DOMAIN Sentence |->
       LET s == Sentence[m]
       IN  [id |-> m, signs |-> s.signs, slots |-> s.slots,
            named |-> IF "named" \in DOMAIN s THEN s.named ELSE {<<n, s.slots[n]>> : n \in DOMAIN s.slots},
            correction |-> IF "correction" \in DOMAIN s THEN s.correction ELSE None]]

MCMessage == DOMAIN Sentence

MCValue == {"P-7", "P-9", "ETCH-03", "ETCH-04", "A", "7 days"}

\* What a model may answer: one task that quotes the whole text.
Proposed(m, intent, target, action, shape, route) ==
    [interaction_mode |-> "task", primary_intent |-> intent,
     task_items |-> <<[primary_intent |-> intent, target_type |-> target, action |-> action, task_shape |-> shape,
                       depends_on |-> {}, execution_policy |-> "execute", spans |-> Sentence[m].signs,
                       grounded |-> TRUE]>>,
     knowledge_scope |-> "public_general", expected_output |-> "unspecified", slot_operations |-> {},
     explicit_slots |-> Sentence[m].slots, inherited_slot_names |-> {}, context_message_ids |-> <<>>,
     cancel_scope |-> None, clarification_relation |-> None, suggested_route |-> route, confidence |-> 90]

\* It misreads, is unsure, names what nobody said, or proposes what is not allowed.
Misread(m) ==
    CASE m = "sop" -> {Proposed(m, "data_query", "general", "explain", "unspecified", "rag_and_web")}
      [] m = "websop" -> {Proposed(m, "knowledge_query", "sop", "lookup", "entity_lookup", "rag_and_web")}
      [] m = "raise" -> {Proposed(m, "action_request", "recipe", "execute", "direct", "tool_only")}
      [] m = "concept" -> {[Proposed(m, "knowledge_query", "general", "explain", "concept_explanation",
                                     "internal_rag") EXCEPT !.confidence = 40]}
      [] m = "fdc" -> {[Proposed(m, "data_query", "fdc", "lookup", "unspecified", "tool_only") EXCEPT
                          !.explicit_slots = Overlay(@, [product |-> "P-9"]), !.inherited_slot_names = {"product"}]}
      [] m = "days" -> {[Proposed(m, "conversation", "general", "explain", "direct", "chat_direct") EXCEPT
                          !.clarification_relation = "side_conversation"],
                        Proposed(m, "data_query", "fdc", "lookup", "entity_lookup", "tool_only")}
      [] OTHER -> {}

MCRaws(m) == Misread(m)

MCScope == [products |-> {"P-7"}, tool_ids |-> {}]

MCTerms == {"t1", "t2", "t3"}

Chunk(id, terms, score) == [id |-> id, terms |-> terms, selected |-> TRUE, protected |-> FALSE, score |-> score]

\* Nothing, or something that answers a public question by half.
MCFound == {{}, {Chunk("chunk", {"t1"}, 80)}}

MCJudged == {None, "sufficient"}

\* The answer cites all there is, or one of it.
MCClaims(ledger) ==
    LET ids == {e.evidence_id : e \in ledger}
    IN  {{[kind |-> "fact", citations |-> cited]} : cited \in {ids} \cup {{id} : id \in ids}}

-----------------------------------------------------------------------------
(* Bounds *)

Followups == {"corrected", "followup", "again"}

\* Requests that stand for themselves, whatever waits for an answer.
Afresh == {"concept", "foreign", "raise", "sop", "web", "websop", "write"}

\* A first question of the agent is followed by any message, a second one by any that is
\* not a request of this kind.  Else a second message is one that refers to what has been
\* said or a task of its own, and a third one that refers to it.
Scenes ==
    \A c \in Client :
      LET m == client[c].message
      IN  client[c].pc = "prepared" =>
            \/ turns = 1
            \/ turns = 2 /\ client[c].resume_checkpoint
            \/ turns = 3 /\ client[c].resume_checkpoint /\ m \notin Afresh
            \/ turns = 2 /\ m \in Followups \cup {"recall", "both", "sop", "cause", "foreign"}
            \/ turns = 3 /\ m \in Followups

=============================================================================
