----------------------------- MODULE DirectReply -----------------------------
(***************************************************************************)
(* What a reply without retrieval may say (agent_runtime/direct_reply.py): *)
(* the units a model streams are checked one by one against what the       *)
(* server has decided, and each that passes is shown at once.              *)
(*                                                                         *)
(* A part of a text is a record of what it is and of what it is about: the *)
(* slots a question asks for, the evidence a fact cites.                   *)
(***************************************************************************)
EXTENDS Naturals, Sequences, SequencesExt

CONSTANTS
    Missing,     \* the slots a clarification asks for
    UnitLimit    \* units of one reply

TextKinds == {"general_chat", "feedback", "history_transform"}
DirectKinds == TextKinds \cup {"history_recall", "control_ack", "clarification", "refusal"}

Part(part, of) == [part |-> part, of |-> of]

\* What a model may stream; "invalid" stands for every unit of a wrong type, empty, too
\* long, unsafe, or not grounded in what was selected for it.
DirectUnits(kind) ==
    {Part("invalid", {}), Part("done", {})}
      \cup (IF kind \in TextKinds THEN {Part("text", {})} ELSE {})
      \cup (IF kind = "history_recall" THEN {Part("lead", {})} ELSE {})
      \cup (IF kind = "control_ack" THEN {Part("ack", {})} ELSE {})
      \cup (IF kind = "clarification" THEN {Part("question", {s}) : s \in Missing} ELSE {})
      \cup (IF kind = "refusal" THEN {Part("boundary", {}), Part("alternative", {})} ELSE {})

NewDirect == [parts |-> <<>>, done |-> FALSE]

Has(d, part) == \E i \in DOMAIN d.parts : d.parts[i].part = part

AnsweredSlots(d) == UNION {d.parts[i].of : i \in DOMAIN d.parts}

AcceptsUnit(kind, d, u) ==
    /\ ~d.done /\ Len(d.parts) < UnitLimit
    /\ \/ kind \in TextKinds /\ u.part = "text"
       \/ kind = "history_recall" /\ u.part = "lead" /\ d.parts = <<>>
       \/ kind = "control_ack" /\ u.part = "ack" /\ d.parts = <<>>
       \/ kind = "clarification" /\ u.part = "question" /\ u.of \cap AnsweredSlots(d) = {}
       \/ kind = "refusal" /\ u.part = "boundary" /\ ~Has(d, "boundary")
       \/ kind = "refusal" /\ u.part = "alternative" /\ Has(d, "boundary") /\ ~Has(d, "alternative")

EndsReply(d, u) == u.part = "done" /\ ~d.done

\* May the stream end here?
FinishedReply(kind, d) ==
    /\ d.done /\ d.parts # <<>>
    /\ kind = "clarification" => AnsweredSlots(d) = Missing
    /\ kind = "refusal" => Has(d, "boundary") /\ Has(d, "alternative")

\* Mutant of SafePartialSuffix: all the questions are asked once more.
SafePartialSuffixOfAll(kind, d) ==
    IF kind = "clarification" THEN <<Part("questions", Missing)>> ELSE <<Part("stopped", {})>>

\* What follows units that were shown when the reply does not end as it should.
SafePartialSuffix(kind, d) ==
    IF kind = "history_recall" THEN <<>>
    ELSE IF kind = "clarification"
    THEN IF AnsweredSlots(d) = Missing THEN <<>> ELSE <<Part("questions", Missing \ AnsweredSlots(d))>>
    ELSE IF kind = "refusal" /\ ~Has(d, "alternative") THEN <<Part("alternative", {})>>
    ELSE <<Part("stopped", {})>>

\* The reply the server has for every kind.
DeterministicFallback(kind) ==
    <<IF kind = "clarification" THEN Part("questions", Missing) ELSE Part("fallback", {})>>

\* What is added to the shown parts when a reply is given up.
GivenUp(kind, d) == IF d.parts = <<>> THEN DeterministicFallback(kind) ELSE SafePartialSuffix(kind, d)

=============================================================================
