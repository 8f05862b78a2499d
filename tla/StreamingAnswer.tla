--------------------------- MODULE StreamingAnswer ---------------------------
(***************************************************************************)
(* An answer from evidence as it is streamed (streaming_answer.py), and    *)
(* its verification when it is whole (_verify_answer of graph.py).  An     *)
(* evidence of the ledger is its id, its source and whether it is only a   *)
(* bounded preview; a fact may claim a total.                              *)
(***************************************************************************)
EXTENDS DirectReply

Order == [fact |-> 1, hypothesis |-> 2, unknown |-> 3, next_action |-> 4, confidence |-> 5]

Ids(ledger) == {e.id : e \in ledger}

Of(ledger, source) == {e.id : e \in {e \in ledger : e.source = source}}

NewAnswer ==
    [facts |-> <<>>, hypotheses |-> <<>>, unknowns |-> <<>>, next_actions |-> <<>>, confidence |-> FALSE,
     last_order |-> 0, processed |-> FALSE]

\* The text of an answer: natural answers do not say how sure they are.
Rendered(a, natural) ==
    a.facts \o a.hypotheses \o a.unknowns \o a.next_actions
      \o IF a.confidence /\ ~natural THEN <<Part("confidence", {})>> ELSE <<>>

\* The evidence that speaks for itself when no fact of the model may: the controlled
\* one before others, the web last.
DeterministicSources(ledger) ==
    IF Of(ledger, "internal") # {} THEN Of(ledger, "internal")
    ELSE IF Of(ledger, "live") # {} THEN Of(ledger, "live")
    ELSE Ids(ledger)

WithDeterministicFact(a, ledger) ==
    IF a.facts # <<>> \/ ledger = {} THEN a
    ELSE [a EXCEPT !.facts = <<Part("fact", {CHOOSE id \in DeterministicSources(ledger) : TRUE})>>]

\* Mutant of ValidFact: a citation needs no evidence.
ValidFactUncited(u, ledger, enforced) == u.text

ValidFact(u, ledger, enforced) ==
    LET cited == u.of \cap Ids(ledger)
    IN  /\ u.text /\ cited # {}
        /\ ~(enforced /\ Of(ledger, "internal") # {} /\ cited \subseteq Of(ledger, "external"))
        /\ ~(u.total /\ \E e \in ledger : e.id \in cited /\ e.preview)

TakesUnit(a, u) ==
    /\ u.type \in DOMAIN Order
    /\ Order[u.type] >= a.last_order
    /\ ~a.confidence

AddUnit(a, u, ledger, enforced) ==
    LET claim == Part(u.type, u.of \cap Ids(ledger))
    IN  CASE u.type = "fact" -> IF ValidFact(u, ledger, enforced) THEN [a EXCEPT !.facts = Append(@, claim)] ELSE a
          [] u.type = "hypothesis" -> IF u.text THEN [a EXCEPT !.hypotheses = Append(@, claim)] ELSE a
          [] u.type = "unknown" -> IF u.text THEN [a EXCEPT !.unknowns = Append(@, Part("unknown", {}))] ELSE a
          [] u.type = "next_action" -> IF u.text THEN [a EXCEPT !.next_actions = Append(@, Part("next_action", {}))] ELSE a
          [] u.type = "confidence" -> [a EXCEPT !.confidence = TRUE]

\* A unit that is not taken leaves a warning; one that is taken ends the facts when it is
\* none, and what it adds may be removed.
ProcessUnit(a, u, ledger, enforced) ==
    IF ~TakesUnit(a, u) THEN a
    ELSE LET b == IF u.type = "fact" THEN a ELSE WithDeterministicFact(a, ledger)
             c == AddUnit(b, u, ledger, enforced)
         IN  [c EXCEPT !.last_order = Order[u.type], !.processed = TRUE]

FinishAnswer(a, ledger) == [WithDeterministicFact(a, ledger) EXCEPT !.confidence = TRUE]

\* The answer of the server: without evidence, and without a model.
NoEvidenceAnswer ==
    [NewAnswer EXCEPT !.unknowns = <<Part("unknown", {})>>, !.next_actions = <<Part("next_action", {})>>,
                      !.confidence = TRUE]

DeterministicAnswer(ledger) ==
    LET facts == {Part("fact", {id}) : id \in Ids(ledger)}
        both == {Of(ledger, "internal"), Of(ledger, "live")}
    IN  [NewAnswer EXCEPT !.facts = SetToSeq(facts),
                          !.hypotheses = IF {} \in both THEN <<>> ELSE <<Part("hypothesis", UNION both)>>,
                          !.unknowns = IF Of(ledger, "live") = {} THEN <<>> ELSE <<Part("unknown", {})>>,
                          !.next_actions = <<Part("next_action", {})>>,
                          !.confidence = TRUE]

\* Mutant of VerifiedAnswer: evidence of the web is refused wherever there is internal one.
VerifiedAnswerInternal(a, ledger, governed) ==
    LET holds(c) == c.of # {} /\ ~(Of(ledger, "internal") # {} /\ c.of \subseteq Of(ledger, "external"))
    IN  IF \A i \in DOMAIN a.facts : holds(a.facts[i]) THEN a
        ELSE [a EXCEPT !.facts = SelectSeq(@, holds)]

\* The facts that hold are kept; an answer of which all do stays as it is.
VerifiedAnswer(a, ledger, governed) ==
    LET holds(c) == /\ c.of \cap Ids(ledger) # {}
                    /\ ~(governed /\ Of(ledger, "internal") # {} /\ c.of \subseteq Of(ledger, "external"))
    IN  IF \A i \in DOMAIN a.facts : holds(a.facts[i]) THEN a
        ELSE [a EXCEPT !.facts = SelectSeq(@, holds)]

=============================================================================
