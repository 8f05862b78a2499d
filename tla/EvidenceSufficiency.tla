------------------------- MODULE EvidenceSufficiency -------------------------
(***************************************************************************)
(* May the evidence of a retrieval answer the request, and may the web be  *)
(* asked (agent_runtime/evidence_sufficiency.py).  A chunk is a record of  *)
(* its id, of the terms of the query it holds and of its candidate in the  *)
(* trace: selected, protected, and its score, a percentage as the settings *)
(* are.                                                                    *)
(***************************************************************************)
EXTENDS AgentContracts

CONSTANTS
    Terms,                      \* the terms of the query
    PublicAnswerMinScore, RerankMinScore, AnswerRelativeFloor,
    AnswerMinTermCoverage, AnswerSufficientCoverage, MinEvidence

\* Mutant of AssessedScope: the scope the model has proposed.
AssessedScopeProposed(u) ==
    IF u.knowledge_scope = "unspecified" THEN "public_general" ELSE u.knowledge_scope

\* An SOP or a recipe is controlled, whatever the scope of the question.
AssessedScope(u) ==
    IF \E t \in Of(u.task_items) : t.target_type \in {"sop", "recipe"} THEN "internal_controlled"
    ELSE IF u.knowledge_scope = "unspecified" THEN "public_general"
    ELSE u.knowledge_scope

TermCoverage(chunks) ==
    IF Terms = {} THEN 0 ELSE (100 * Cardinality(UNION {c.terms : c \in chunks} \cap Terms)) \div Cardinality(Terms)

ScoreThreshold(scope) == IF scope = "public_general" THEN PublicAnswerMinScore ELSE RerankMinScore

\* A public question takes only chunks that are good by themselves.
AnswerEligible(evidence, scope) ==
    LET selected == {c \in evidence : c.selected}
        best(c) == \A d \in selected : d.score <= c.score
        passes(c) ==
            /\ c.score >= PublicAnswerMinScore
            /\ \A d \in selected : best(d) /\ d.score > 0 => 100 * c.score >= AnswerRelativeFloor * d.score
            /\ TermCoverage({c}) >= AnswerMinTermCoverage
    IN  {c \in selected : scope = "public_general" /\ ~c.protected => passes(c)}

DeterministicAssessment(u, eligible, scope) ==
    LET weak == \A c \in eligible : c.score < ScoreThreshold(scope)
        covered == /\ TermCoverage(eligible) >= AnswerSufficientCoverage
                   /\ Cardinality(eligible) >= MinEvidence
        narrow == u.expected_output \in {"enumeration", "ranking"} /\ Cardinality(eligible) < 2
    IN  IF eligible = {} THEN "insufficient"
        ELSE IF scope = "internal_controlled" THEN "sufficient"
        ELSE IF weak THEN "insufficient"
        ELSE IF covered /\ ~narrow THEN "sufficient"
        ELSE "partial"

\* "judged" is what the model says of a borderline case, or None when it says nothing.
Assess(u, evidence, initial, judged) ==
    LET scope == AssessedScope(u)
        eligible == AnswerEligible(evidence, scope)
        found == DeterministicAssessment(u, eligible, scope)
        status == IF found = "partial" /\ judged # None THEN judged ELSE found
    IN  [status |-> status, knowledge_scope |-> scope, eligible |-> eligible,
         web_fallback_allowed |-> /\ scope = "public_general"
                                  /\ initial = "rag_and_web" \/ status \in {"partial", "insufficient"}]

=============================================================================
