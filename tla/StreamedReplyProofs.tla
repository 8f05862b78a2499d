-------------------------- MODULE StreamedReplyProofs --------------------------
(***************************************************************************)
(* What holds of the streamed reply for all requests, all things a model   *)
(* may stream, any number of runs, providers and attempts, and of the      *)
(* other clients of providers for any number of callers: Missing,          *)
(* UnitLimit, Requests, AnswerUnits, MaxUnits, MaxRuns, Callers, Failures  *)
(* and MaxPolls stay parameters.                                           *)
(***************************************************************************)
EXTENDS StreamedReply, ProviderClients, FiniteSetTheorems, SequenceTheorems, TLAPS

-----------------------------------------------------------------------------
(* One reply, one voice                                                   *)

\* What a node holds.
NodeFields == DOMAIN NoNode

\* A stream of a provider, or none.
IsCall(c) == c \in [provider : Nat, attempt : Nat, content : BOOLEAN]

\* A node has all of its fields.
IsNode(n) ==
    /\ n = [f \in NodeFields |-> n[f]]
    /\ IsCall(n.call)
    /\ n.refused \in BOOLEAN

\* Units come from the stream that is listened to and that has brought content, for
\* such a stream is not followed by another unless a unit was refused; a node that has
\* opened no stream has none.
HasVoice(n) ==
    /\ "none" \in DOMAIN n.units => n.voices = {} /\ n.call = NoCall
    /\ ~n.refused /\ n.voices # {} =>
         /\ n.call.content
         /\ n.voices = {[provider |-> n.call.provider, attempt |-> n.call.attempt]}

\* The inductive invariant.
VoiceInv == IsNode(node) /\ HasVoice(node)

\* A node that starts behind replies it has put out.
LEMMA NoNodeHasVoice ==
    ASSUME NEW m, NEW joined, node' = [NoNode EXCEPT !.replies = m, !.joined = joined]
    PROVE  VoiceInv'
  <1>1. /\ node' = [f \in NodeFields |-> node'[f]]
        /\ node'.call = NoCall /\ node'.voices = {} /\ node'.refused = FALSE
    BY DEF NoNode, NodeFields
  <1>2. IsCall(NoCall)
    BY DEF IsCall, NoCall
  <1> QED
    BY <1>1, <1>2 DEF VoiceInv, IsNode, HasVoice

\* A node that starts.
LEMMA NoNodeVoiceless == IsNode(NoNode) /\ HasVoice(NoNode)
  BY DEF IsNode, IsCall, HasVoice, NoNode, NodeFields, NoCall, NoUnits

\* A reply that is whole leaves its node.
LEMMA GeneratedVoice ==
    ASSUME NEW text, Generated(text)
    PROVE  VoiceInv'
  <1>1. node' = NoNode \/ \E m, joined : node' = [NoNode EXCEPT !.replies = m, !.joined = joined]
    BY DEF Generated
  <1>2. CASE node' = NoNode
    BY <1>2, NoNodeVoiceless DEF VoiceInv
  <1> QED
    BY <1>1, <1>2, NoNodeHasVoice

\* A run that ends leaves its node.
LEMMA EndsVoice ==
    ASSUME NEW status, NEW code, Ends(status, code)
    PROVE  VoiceInv'
  BY NoNodeVoiceless DEF Ends, VoiceInv

\* A stream is followed by another one.
LEMMA NextCall ==
    ASSUME NEW c, IsCall(c), NEW kind, AfterFailure(c, kind) # NoCall
    PROVE  IsCall(AfterFailure(c, kind)) /\ ~AfterFailure(c, kind).content
  <1>0. c.provider \in Nat /\ c.attempt \in Nat
    BY DEF IsCall
  <1>1. CASE AfterFailure(c, kind) = [c EXCEPT !.attempt = @ + 1, !.content = FALSE]
    <2>1. AfterFailure(c, kind) =
              [provider |-> c.provider, attempt |-> c.attempt + 1, content |-> FALSE]
      BY <1>1 DEF IsCall
    <2> QED
      BY <1>0, <2>1 DEF IsCall
  <1>2. CASE AfterFailure(c, kind) = Open(c.provider + 1)
    BY <1>2 DEF IsCall, Open
  <1> QED
    BY <1>1, <1>2 DEF AfterFailure

\* A stream that has brought content is followed by none when it breaks off.
LEMMA BrokenOff ==
    ASSUME NEW c, IsCall(c), NEW trouble, trouble # "callback_error", c.content
    PROVE  AfterFailure(c, FailureKind(c, trouble)) = NoCall
  <1>1. FailureKind(c, trouble) = "stream_interrupted"
    BY DEF FailureKind
  <1> QED
    BY <1>1 DEF AfterFailure, Retryable

\* The next stream keeps the invariant.
LEMMA RetryVoice ==
    ASSUME VoiceInv, NEW trouble, NEW left, Streaming, Retry(trouble, left)
    PROVE  VoiceInv'
  <1> DEFINE next == AfterFailure(node.call, FailureKind(node.call, trouble))
  <1>1. next # NoCall
    BY DEF Retry
  <1>2. IsCall(next) /\ ~next.content
    BY <1>1, NextCall DEF VoiceInv, IsNode
  <1>3. trouble # "callback_error" => ~node.call.content
    BY <1>1, BrokenOff DEF VoiceInv, IsNode
  <1> HIDE DEF next
  <1>4. node' = [node EXCEPT !.call = next, !.dangling = left,
                             !.refused = @ \/ trouble = "callback_error"]
    BY DEF Retry, next
  <1>5. IsNode(node')
    BY <1>2, <1>4 DEF VoiceInv, IsNode, NodeFields, NoNode
  <1>6. /\ node'.refused = (node.refused \/ trouble = "callback_error")
        /\ node'.voices = node.voices
        /\ node'.units = node.units
    BY <1>4 DEF VoiceInv, IsNode, NodeFields, NoNode
  <1>7. HasVoice(node')
    BY <1>3, <1>6 DEF VoiceInv, HasVoice, Streaming
  <1> QED
    BY <1>5, <1>7 DEF VoiceInv

\* So does a unit, or a part of one, of the stream that is listened to.
LEMMA UnitVoice ==
    ASSUME VoiceInv, node'.call = [node.call EXCEPT !.content = TRUE],
           node' = [f \in NodeFields |-> node'[f]], node'.refused = node.refused,
           node'.voices \in {node.voices, node.voices \cup {Voice}},
           DOMAIN node'.units = DOMAIN node.units, Streaming
    PROVE  VoiceInv'
  <1>1. /\ IsCall(node'.call) /\ node'.call.content
        /\ node'.call.provider = node.call.provider /\ node'.call.attempt = node.call.attempt
    BY DEF VoiceInv, IsNode, IsCall
  <1>2. IsNode(node')
    BY <1>1 DEF VoiceInv, IsNode
  <1>3. HasVoice(node')
    BY <1>1 DEF VoiceInv, HasVoice, Voice, Streaming
  <1> QED
    BY <1>2, <1>3 DEF VoiceInv


\* The fields of an answer stay the same.
LEMMA AnswerFields ==
    ASSUME NEW a, NEW u, NEW ledger, NEW enforced
    PROVE  DOMAIN ProcessUnit(a, u, ledger, enforced) = DOMAIN a
  <1>1. CASE ~TakesUnit(a, u)
    BY <1>1 DEF ProcessUnit
  <1>2. CASE TakesUnit(a, u)
    <2>1. \A b : DOMAIN AddUnit(b, u, ledger, enforced) = DOMAIN b
      <3>1. u.type \in {"fact", "hypothesis", "unknown", "next_action", "confidence"}
        BY <1>2 DEF TakesUnit, Order
      <3> QED
        BY <3>1 DEF AddUnit
    <2>2. DOMAIN WithDeterministicFact(a, ledger) = DOMAIN a
      BY DEF WithDeterministicFact
    <2> QED
      BY <1>2, <2>1, <2>2 DEF ProcessUnit
  <1> QED
    BY <1>1, <1>2

\* Every step keeps the invariant.
LEMMA VoiceStep ==
    ASSUME VoiceInv, [Next]_vars
    PROVE  VoiceInv'
  <1>0. node = [f \in NodeFields |-> node[f]] /\ IsCall(node.call) /\ node.refused \in BOOLEAN
    BY DEF VoiceInv, IsNode
  <1>1. CASE UNCHANGED node
    BY <1>1 DEF VoiceInv, IsNode, HasVoice
  <1>2. CASE \E status, code : Ends(status, code)
    BY <1>2, EndsVoice
  <1>3. CASE \E text : Generated(text)
    BY <1>3, GeneratedVoice
  <1>4. CASE Streaming /\ \E trouble, left : Retry(trouble, left)
    BY <1>4, RetryVoice
  <1>5. CASE node' = NoNode
    BY <1>5, NoNodeVoiceless DEF VoiceInv
  <1>6. CASE StreamFragment
    <2>1. node' = [node EXCEPT !.call.content = TRUE, !.dangling = TRUE]
      BY <1>6 DEF StreamFragment
    <2> QED
      BY <1>0, <1>6, <2>1, UnitVoice DEF StreamFragment, NodeFields, NoNode
  <1>7. CASE /\ node.units = NoUnits
             /\ \E units \in {NewDirect, NewAnswer} :
                   node' = [node EXCEPT !.call = Open(1), !.units = units]
    <2>1. node.voices = {}
      BY <1>7 DEF NoUnits, VoiceInv, HasVoice
    <2>2. PICK units \in {NewDirect, NewAnswer} :
              node' = [node EXCEPT !.call = Open(1), !.units = units]
      BY <1>7
    <2>3. IsCall(Open(1))
      BY DEF IsCall, Open
    <2>4. /\ node' = [f \in NodeFields |-> node'[f]] /\ node'.call = Open(1)
          /\ node'.refused = node.refused /\ node'.voices = {} /\ node'.units = units
      BY <1>0, <2>1, <2>2 DEF NodeFields, NoNode
    <2>5. "none" \notin DOMAIN units
      BY DEF NewDirect, NewAnswer
    <2> HIDE DEF NodeFields
    <2> QED
      BY <1>0, <2>3, <2>4, <2>5 DEF VoiceInv, IsNode, HasVoice
  <1>8. CASE Streaming /\ \E u : ReplyUnit(u) \/ ReplyDone(u)
    <2>1. PICK u : ReplyUnit(u) \/ ReplyDone(u)
      BY <1>8
    <2>2. CASE ReplyUnit(u)
      <3>1. /\ node'.call = [node.call EXCEPT !.content = TRUE]
            /\ node'.units = [node.units EXCEPT !.parts = Append(@, u)]
            /\ node' = [f \in NodeFields |-> node'[f]]
            /\ node'.refused = node.refused /\ node'.voices = node.voices \cup {Voice}
        BY <1>0, <2>2 DEF ReplyUnit, NodeFields, NoNode
      <3> QED
        BY <1>8, <3>1, UnitVoice
    <2>3. CASE ReplyDone(u)
      BY <1>0, <1>8, <2>3, UnitVoice DEF ReplyDone, NodeFields, NoNode
    <2> QED
      BY <2>1, <2>2, <2>3
  <1>9. CASE StreamAnswer
    <2>0. Streaming
      BY <1>9 DEF StreamAnswer
    <2>1. PICK u \in AnswerUnits :
              LET a == ProcessUnit(node.units, u, request.ledger, ~request.natural)
              IN  AnswerUnit(a) \/ AnswerUnitError(a)
      BY <1>9 DEF StreamAnswer
    <2> DEFINE a == ProcessUnit(node.units, u, request.ledger, ~request.natural)
    <2>2. DOMAIN a = DOMAIN node.units
      BY AnswerFields
    <2> HIDE DEF a
    <2>3. CASE AnswerUnit(a)
      <3>1. /\ node'.call = [node.call EXCEPT !.content = TRUE]
            /\ node'.units = a
            /\ node' = [f \in NodeFields |-> node'[f]]
            /\ node'.refused = node.refused /\ node'.voices = node.voices \cup {Voice}
        BY <1>0, <2>3 DEF AnswerUnit, NodeFields, NoNode
      <3> QED
        BY <2>0, <2>2, <3>1, UnitVoice
    <2>4. CASE AnswerUnitError(a)
      <3>1. CASE Exhausted("callback_error")
        BY <2>4, <3>1, EndsVoice DEF AnswerUnitError
      <3>2. CASE ~Exhausted("callback_error")
        <4> DEFINE next == AfterFailure(node.call, "transport")
        <4>1. IsCall(next)
          BY <1>0, <3>2, NextCall DEF Exhausted, FailureKind
        <4> HIDE DEF next
        <4>2. node' = [node EXCEPT !.call = next, !.units = a, !.taken = @ + 1, !.refused = TRUE]
          BY <2>4, <3>2 DEF AnswerUnitError, next
        <4>3. /\ node' = [f \in NodeFields |-> node'[f]]
              /\ node'.call = next /\ node'.refused = TRUE
              /\ node'.units = a /\ node'.voices = node.voices
          BY <1>0, <4>2 DEF NodeFields, NoNode
        <4> QED
          BY <2>0, <2>2, <4>1, <4>3 DEF VoiceInv, IsNode, HasVoice, Streaming
      <3> QED
        BY <3>1, <3>2
    <2> QED
      BY <2>1, <2>3, <2>4 DEF a
  <1> QED
    BY <1>1, <1>2, <1>3, <1>4, <1>5, <1>6, <1>7, <1>8, <1>9
       DEF Next, vars, Send, Cancel, Step, Rest, BeginReply, StreamReply, ReplyUnitError, GiveUp,
           ReplyTrouble, EndReply, BeginAnswer, Answered, AnswerTrouble, EndAnswer,
           VerifyAnswer, Finalize

\* The units of a reply come from one stream of one provider, through any number of
\* providers, attempts and runs, unless one of them was refused (OneVoice; the
\* fallback of llm_gateway.py opens another stream only before content has come).
THEOREM ReplyHasOneVoice == Spec => []OneVoice
  <1>1. Init => VoiceInv
    BY NoNodeVoiceless DEF Init, VoiceInv
  <1>2. VoiceInv /\ [Next]_vars => VoiceInv'
    BY VoiceStep
  <1>3. VoiceInv => OneVoice
    <2> SUFFICES ASSUME VoiceInv, ~node.refused PROVE Cardinality(node.voices) <= 1
      BY DEF OneVoice
    <2>1. node.voices = {} \/ \E v : node.voices = {v}
      BY DEF VoiceInv, HasVoice
    <2> QED
      BY <2>1, FS_EmptySet, FS_Singleton, SMTT(60)
  <1> QED
    BY <1>1, <1>2, <1>3, PTL DEF Spec

-----------------------------------------------------------------------------
(* A clarification asks for every slot once                               *)

\* A text of questions.
Asking(s) == s \in Seq([part : {"question", "questions"}, of : SUBSET Missing])

\* The slots a text asks for.
Slots(s) == UNION {s[i].of : i \in DOMAIN s}

\* No slot is asked for by two parts.
Apart(s) == \A i, j \in DOMAIN s : i # j => s[i].of \cap s[j].of = {}

\* Every missing slot is asked for, by one part each.
AsksAll(s) == Asking(s) /\ Apart(s) /\ Slots(s) = Missing

\* Questions are about missing slots.
LEMMA AskedParts ==
    ASSUME NEW s, Asking(s)
    PROVE  \A i \in DOMAIN s : s[i].of \subseteq Missing
  <1> DEFINE R == [part : {"question", "questions"}, of : SUBSET Missing]
  <1>1. \A q \in R : q.of \subseteq Missing
    OBVIOUS
  <1>2. s \in Seq(R)
    BY DEF Asking
  <1> HIDE DEF R
  <1>3. \A i \in DOMAIN s : s[i] \in R
    BY <1>2
  <1> QED
    BY <1>1, <1>3

\* A slot is asked for at most once, and once when it is among those asked for.
LEMMA AskedApart ==
    ASSUME NEW s, Asking(s), Apart(s), NEW slot
    PROVE  /\ Cardinality({i \in DOMAIN s : slot \in s[i].of}) <= 1
           /\ slot \in Slots(s) => Cardinality({i \in DOMAIN s : slot \in s[i].of}) = 1
  <1> DEFINE at == {i \in DOMAIN s : slot \in s[i].of}
  <1>1. CASE at = {}
    BY <1>1, FS_EmptySet DEF Slots
  <1>2. CASE at # {}
    <2>1. PICK i : i \in at
      BY <1>2
    <2>2. at = {i}
      BY <2>1 DEF Apart
    <2> HIDE DEF at
    <2>3. Cardinality(at) = 1
      BY <2>2, FS_Singleton
    <2> QED
      BY <2>3 DEF at
  <1> QED
    BY <1>1, <1>2

\* One more question, about slots that were not asked for.
LEMMA AskingMore ==
    ASSUME NEW s, Asking(s), Apart(s),
           NEW q \in [part : {"question", "questions"}, of : SUBSET Missing], q.of \cap Slots(s) = {}
    PROVE  /\ Asking(Append(s, q)) /\ Apart(Append(s, q))
           /\ Slots(Append(s, q)) = Slots(s) \cup q.of
           /\ s \o <<q>> = Append(s, q) /\ s \o <<>> = s
  <1>1. /\ Asking(Append(s, q)) /\ DOMAIN Append(s, q) = 1 .. Len(s) + 1 /\ DOMAIN s = 1 .. Len(s)
        /\ Len(s) \in Nat
        /\ \A i \in 1 .. Len(s) : Append(s, q)[i] = s[i]
        /\ Append(s, q)[Len(s) + 1] = q
    BY DEF Asking
  <1>2. \A i \in 1 .. Len(s) : s[i].of \cap q.of = {}
    BY <1>1 DEF Slots
  <1>3. Apart(Append(s, q))
    <2> SUFFICES ASSUME NEW i \in 1 .. Len(s) + 1, NEW j \in 1 .. Len(s) + 1, i # j
                 PROVE  Append(s, q)[i].of \cap Append(s, q)[j].of = {}
      BY <1>1 DEF Apart
    <2>1. CASE i \in 1 .. Len(s) /\ j \in 1 .. Len(s)
      BY <1>1, <2>1 DEF Apart
    <2>2. CASE i = Len(s) + 1 /\ j \in 1 .. Len(s)
      BY <1>1, <1>2, <2>2
    <2>3. CASE j = Len(s) + 1 /\ i \in 1 .. Len(s)
      BY <1>1, <1>2, <2>3
    <2> QED
      BY <1>1, <2>1, <2>2, <2>3
  <1>4. Slots(Append(s, q)) = Slots(s) \cup q.of
    <2>1. Slots(Append(s, q)) \subseteq Slots(s) \cup q.of
      <3> SUFFICES ASSUME NEW i \in 1 .. Len(s) + 1, NEW x \in Append(s, q)[i].of
                   PROVE  x \in Slots(s) \cup q.of
        BY <1>1 DEF Slots
      <3> QED
        BY <1>1 DEF Slots
    <2>2. Slots(s) \subseteq Slots(Append(s, q))
      <3> SUFFICES ASSUME NEW i \in 1 .. Len(s), NEW x \in s[i].of
                   PROVE  x \in Slots(Append(s, q))
        BY <1>1 DEF Slots
      <3>1. i \in DOMAIN Append(s, q) /\ Append(s, q)[i] = s[i]
        BY <1>1
      <3> QED
        BY <3>1 DEF Slots
    <2>3. q.of \subseteq Slots(Append(s, q))
      <3>1. Len(s) + 1 \in DOMAIN Append(s, q)
        BY <1>1
      <3> QED
        BY <1>1, <3>1 DEF Slots
    <2> QED
      BY <2>1, <2>2, <2>3
  <1>5. s \o <<q>> = Append(s, q) /\ s \o <<>> = s
    BY DEF Asking
  <1> QED
    BY <1>1, <1>3, <1>4, <1>5

\* What follows the questions that passed asks for the rest.
LEMMA GivenUpAsksAll ==
    ASSUME NEW d, Asking(d.parts), Apart(d.parts)
    PROVE  AsksAll(d.parts \o GivenUp("clarification", d))
  <1> DEFINE rest == Part("questions", Missing \ Slots(d.parts))
  <1>0. AnsweredSlots(d) = Slots(d.parts) /\ Slots(d.parts) \subseteq Missing
    <2>1. \A i \in DOMAIN d.parts : d.parts[i].of \subseteq Missing
      BY AskedParts
    <2> QED
      BY <2>1 DEF AnsweredSlots, Slots
  <1>1. /\ rest \in [part : {"question", "questions"}, of : SUBSET Missing]
        /\ rest.of = Missing \ Slots(d.parts)
    BY DEF Part
  <1>2. \/ GivenUp("clarification", d) = <<rest>>
        \/ GivenUp("clarification", d) = <<>> /\ Slots(d.parts) = Missing
    <2>1. d.parts = <<>> => Slots(d.parts) = {}
      BY DEF Slots
    <2> QED
      BY <1>0, <2>1 DEF GivenUp, DeterministicFallback, SafePartialSuffix, Part
  <1>3. rest.of \cap Slots(d.parts) = {} /\ Slots(d.parts) \cup rest.of = Missing
    BY <1>0, <1>1
  <1> HIDE DEF rest
  <1> QED
    <2>1. d.parts \o <<>> = d.parts
      BY DEF Asking
    <2>2. /\ Asking(Append(d.parts, rest)) /\ Apart(Append(d.parts, rest))
          /\ Slots(Append(d.parts, rest)) = Missing
          /\ d.parts \o <<rest>> = Append(d.parts, rest)
      BY <1>1, <1>3, AskingMore
    <2> QED
      BY <1>2, <2>1, <2>2 DEF AsksAll

\* The fields of the checkpoint.
GraphFields == {"at", "combined", "answer", "text"}
\* The fields of the ledger's entry.
RecordFields == {"status", "code", "runs", "stored"}

\* The three records have their fields.
Shapes ==
    /\ node = [f \in NodeFields |-> node[f]]
    /\ graph = [f \in GraphFields |-> graph[f]]
    /\ record = [f \in RecordFields |-> record[f]]
    /\ record.status \in {"accepted", "running", "completed", "failed", "cancelled"}

\* The request that asks for the missing slots, from its start to its message.
AskInv ==
    /\ Shapes
    /\ record.status \in {"accepted", "failed", "cancelled"} => node = NoNode /\ shown = <<>>
    /\ Running => graph.at \in {"direct", "end"}
    /\ Running /\ graph.at = "direct" =>
         /\ node.joined = <<>>
         /\ IF "none" \in DOMAIN node.units
              THEN node.call = NoCall /\ shown = <<>>
              ELSE /\ node.units = [parts |-> shown, done |-> node.units.done]
                   /\ Asking(shown) /\ Apart(shown)
    /\ Running /\ graph.at = "end" => graph.text = shown /\ AsksAll(shown)
    /\ record.status = "completed" => AsksAll(shown)

\* The request asks for the missing slots.
Clarifies == request \in Requests /\ request.kind = "clarification"

\* An empty text asks for nothing.
LEMMA NothingAsked == Asking(<<>>) /\ Apart(<<>>) /\ Slots(<<>>) = {}
  BY DEF Asking, Apart, Slots

\* One part may ask for all slots.
LEMMA AskingAtOnce ==
    ASSUME NEW q \in [part : {"question", "questions"}, of : SUBSET Missing], q.of = Missing
    PROVE  AsksAll(<<q>>)
  <1>1. PICK s : s = <<>>
    OBVIOUS
  <1>2. Asking(s) /\ Apart(s) /\ q.of \cap Slots(s) = {} /\ Slots(s) \cup q.of = Missing
    BY <1>1, NothingAsked
  <1>3. AsksAll(Append(s, q))
    BY <1>2, AskingMore DEF AsksAll
  <1> QED
    BY <1>1, <1>3

\* A clarification starts, and starts again, at the direct reply.
LEMMA ClarifiesDirectly ==
    ASSUME Clarifies
    PROVE  /\ StartAt = "direct" /\ ~request.resumed
           /\ Fresh.at = "direct" /\ Fresh = [f \in GraphFields |-> Fresh[f]]
  <1>1. request.kind # "answer" /\ ~request.resumed
    BY RequestsAssumption DEF Clarifies, RequestType
  <1> QED
    BY <1>1 DEF StartAt, Fresh, GraphFields

\* A run that ends shows nothing.
LEMMA EndsAsks ==
    ASSUME AskInv, NEW status \in {"failed", "cancelled"}, NEW code, Ends(status, code)
    PROVE  AskInv'
  <1>1. NoNode = [f \in NodeFields |-> NoNode[f]]
    BY DEF NodeFields, NoNode
  <1>2. record'.status = status /\ record' = [f \in RecordFields |-> record'[f]]
    BY DEF Ends, AskInv, Shapes, RecordFields
  <1> QED
    BY <1>1, <1>2 DEF Ends, AskInv, Shapes, Running

\* The reply is whole.
LEMMA GeneratedAsks ==
    ASSUME Clarifies, AskInv, Running, graph.at = "direct", NEW text, Generated(text),
           AsksAll(text), shown' = text, UNCHANGED record
    PROVE  AskInv'
  <1>1. graph' = [graph EXCEPT !.at = "end", !.text = text] /\ node' = NoNode
    BY DEF Generated
  <1>2. graph'.at = "end" /\ graph'.text = text /\ graph' = [f \in GraphFields |-> graph'[f]]
    BY <1>1 DEF AskInv, Shapes, GraphFields
  <1>3. NoNode = [f \in NodeFields |-> NoNode[f]]
    BY DEF NodeFields, NoNode
  <1> QED
    BY <1>1, <1>2, <1>3 DEF AskInv, Shapes, Running

\* The reply goes on.
LEMMA ReplyingAsks ==
    ASSUME AskInv, Running, graph.at = "direct", UNCHANGED <<graph, record>>,
           node' = [f \in NodeFields |-> node'[f]], node'.joined = <<>>,
           node'.units = [parts |-> shown', done |-> node'.units.done],
           Asking(shown'), Apart(shown')
    PROVE  AskInv'
  <1>1. "none" \notin DOMAIN node'.units
    <2>1. \A p, d : "none" \notin DOMAIN [parts |-> p, done |-> d]
      OBVIOUS
    <2> QED
      BY <2>1
  <1> QED
    BY <1>1 DEF AskInv, Shapes, Running

\* A reply that is given up asks for what is left.
LEMMA GiveUpAsks ==
    ASSUME Clarifies, AskInv, Streaming, graph.at = "direct", GiveUp
    PROVE  AskInv'
  <1>1. Running /\ Kind = "clarification"
    BY DEF Clarifies, Streaming, Kind
  <1>2. node.units.parts = shown /\ Asking(shown) /\ Apart(shown)
    BY <1>1 DEF AskInv, Streaming
  <1> DEFINE text == node.units.parts \o GivenUp(Kind, node.units)
  <1>3. AsksAll(text) /\ Generated(text) /\ shown' = text /\ UNCHANGED record
    BY <1>1, <1>2, GivenUpAsksAll DEF GiveUp
  <1> HIDE DEF text
  <1> QED
    BY <1>1, <1>3, GeneratedAsks

\* The next stream goes on with the same questions.
LEMMA RetryAsks ==
    ASSUME AskInv, Streaming, graph.at = "direct", NEW trouble, NEW left, Retry(trouble, left)
    PROVE  AskInv'
  <1>1. PICK next : node' = [node EXCEPT !.call = next, !.dangling = left,
                                         !.refused = @ \/ trouble = "callback_error"]
    BY DEF Retry
  <1>2. /\ node' = [f \in NodeFields |-> node'[f]] /\ node'.joined = node.joined
        /\ node'.units = node.units
    BY <1>1 DEF AskInv, Shapes, NodeFields, NoNode
  <1>3. UNCHANGED <<graph, shown, record>>
    BY DEF Retry
  <1> QED
    BY <1>2, <1>3, ReplyingAsks DEF AskInv, Streaming

\* A reply begins with nothing shown, or is the server's own.
LEMMA BeginReplyAsks ==
    ASSUME Clarifies, AskInv, BeginReply
    PROVE  AskInv'
  <1>1. Running /\ graph.at = "direct" /\ Kind = "clarification"
    BY DEF BeginReply, Direct, AskInv, Clarifies, Kind
  <1>2. node.joined = <<>> /\ shown = <<>> /\ UNCHANGED record
    BY <1>1 DEF BeginReply, AskInv, NoUnits
  <1>3. shown \o Before(node.joined) = <<>>
    BY <1>2 DEF Before
  <1>4. CASE request.demo
    <2> DEFINE text == DeterministicFallback(Kind)
    <2>1. text = <<Part("questions", Missing)>>
      BY <1>1 DEF DeterministicFallback
    <2>2. Part("questions", Missing) \in [part : {"question", "questions"}, of : SUBSET Missing]
      BY DEF Part
    <2>3. AsksAll(text)
      <3>1. Part("questions", Missing).of = Missing
        BY DEF Part
      <3> QED
        BY <2>1, <2>2, <3>1, AskingAtOnce
    <2>4. Generated(text) /\ shown' = text
      BY <1>3, <1>4, <2>1 DEF BeginReply
    <2> HIDE DEF text
    <2> QED
      BY <1>1, <1>2, <2>3, <2>4, GeneratedAsks
  <1>5. CASE ~request.demo
    <2>1. /\ node' = [node EXCEPT !.call = Open(1), !.units = NewDirect]
          /\ shown' = <<>> /\ UNCHANGED <<graph, record>>
      BY <1>3, <1>5 DEF BeginReply
    <2>2. /\ node' = [f \in NodeFields |-> node'[f]] /\ node'.joined = node.joined
          /\ node'.units = NewDirect
      BY <2>1 DEF AskInv, Shapes, NodeFields, NoNode
    <2> QED
      BY <1>1, <1>2, <2>1, <2>2, NothingAsked, ReplyingAsks DEF NewDirect
  <1> QED
    BY <1>4, <1>5

\* A unit is added to a reply, or ends it.
LEMMA RecordUpdates ==
    ASSUME NEW r, NEW p, NEW d, r = [parts |-> p, done |-> d], NEW x
    PROVE  /\ [r EXCEPT !.parts = Append(@, x)] = [parts |-> Append(p, x), done |-> d]
           /\ [r EXCEPT !.done = x] = [parts |-> p, done |-> x]
  OBVIOUS

\* A unit that passes asks for another slot.
LEMMA StreamReplyAsks ==
    ASSUME Clarifies, AskInv, StreamReply
    PROVE  AskInv'
  <1>1. Streaming /\ Running /\ graph.at = "direct" /\ Kind = "clarification"
    BY DEF StreamReply, Direct, Streaming, AskInv, Clarifies, Kind
  <1>2. /\ node.units = [parts |-> shown, done |-> node.units.done]
        /\ Asking(shown) /\ Apart(shown) /\ node.joined = <<>>
        /\ node = [f \in NodeFields |-> node[f]]
    BY <1>1 DEF AskInv, Streaming, Shapes
  <1>3. PICK u \in DirectUnits(Kind) : ReplyUnit(u) \/ ReplyDone(u) \/ ReplyUnitError(u)
    BY DEF StreamReply
  <1>4. CASE ReplyUnit(u)
    <2>1. /\ AcceptsUnit("clarification", node.units, u)
          /\ shown' = Append(shown, u) /\ UNCHANGED <<graph, record>>
          /\ node' = [node EXCEPT !.call.content = TRUE, !.dangling = FALSE,
                            !.units.parts = Append(@, u), !.voices = @ \cup {Voice}]
      BY <1>1, <1>4 DEF ReplyUnit
    <2>2. /\ node' = [f \in NodeFields |-> node'[f]] /\ node'.joined = node.joined
          /\ node'.units = [node.units EXCEPT !.parts = Append(@, u)]
      BY <1>2, <2>1 DEF NodeFields, NoNode
    <2>3. node'.units = [parts |-> shown', done |-> node'.units.done]
      <3>1. PICK d : node.units = [parts |-> shown, done |-> d]
        BY <1>2
      <3>2. node'.units = [parts |-> Append(shown, u), done |-> d]
        <4>1. \A x : [node.units EXCEPT !.parts = Append(@, x)]
                        = [parts |-> Append(shown, x), done |-> d]
          BY <3>1, RecordUpdates
        <4> QED
          BY <2>2, <4>1, Zenon
      <3>3. node'.units.done = d /\ shown' = Append(shown, u)
        BY <2>1, <3>2
      <3> QED
        BY <3>2, <3>3
    <2>4. u.part = "question" /\ u.of \cap AnsweredSlots(node.units) = {}
      BY <2>1 DEF AcceptsUnit, TextKinds
    <2>5. u \in [part : {"question", "questions"}, of : SUBSET Missing]
      BY <1>1, <2>4 DEF DirectUnits, TextKinds, Part
    <2>6. AnsweredSlots(node.units) = Slots(shown)
      BY <1>2 DEF AnsweredSlots, Slots
    <2>7. Asking(shown') /\ Apart(shown')
      BY <1>2, <2>1, <2>4, <2>5, <2>6, AskingMore
    <2> QED
      BY <1>1, <1>2, <2>1, <2>2, <2>3, <2>7, ReplyingAsks
  <1>5. CASE ReplyDone(u)
    <2>1. /\ UNCHANGED <<graph, shown, record>>
          /\ node' = [node EXCEPT !.call.content = TRUE, !.dangling = FALSE, !.units.done = TRUE]
      BY <1>5 DEF ReplyDone
    <2>2. /\ node' = [f \in NodeFields |-> node'[f]] /\ node'.joined = node.joined
          /\ node'.units = [node.units EXCEPT !.done = TRUE]
      BY <1>2, <2>1 DEF NodeFields, NoNode
    <2>3. node'.units = [parts |-> shown', done |-> node'.units.done]
      <3>1. PICK d : node.units = [parts |-> shown, done |-> d]
        BY <1>2
      <3>2. node'.units = [parts |-> shown, done |-> TRUE]
        <4>1. \A x : [node.units EXCEPT !.done = x] = [parts |-> shown, done |-> x]
          BY <3>1, RecordUpdates
        <4>2. [node.units EXCEPT !.done = TRUE] = [parts |-> shown, done |-> TRUE]
          BY <4>1, Zenon
        <4> QED
          BY <2>2, <4>2
      <3>3. node'.units.done = TRUE /\ shown' = shown
        BY <2>1, <3>2
      <3> QED
        BY <3>2, <3>3
    <2> QED
      BY <1>1, <1>2, <2>1, <2>2, <2>3, ReplyingAsks
  <1>6. CASE ReplyUnitError(u)
    BY <1>1, <1>6, RetryAsks, GiveUpAsks DEF ReplyUnitError
  <1> QED
    BY <1>3, <1>4, <1>5, <1>6

\* The stream ends.
LEMMA EndReplyAsks ==
    ASSUME Clarifies, AskInv, EndReply
    PROVE  AskInv'
  <1>1. Streaming /\ Running /\ graph.at = "direct" /\ Kind = "clarification"
    BY DEF EndReply, Ended, Direct, Streaming, AskInv, Clarifies, Kind
  <1>2. node.units.parts = shown /\ Asking(shown) /\ Apart(shown)
    BY <1>1 DEF AskInv, Streaming
  <1>3. CASE GiveUp
    BY <1>1, <1>3, GiveUpAsks
  <1>4. CASE FinishedReply(Kind, node.units) /\ Generated(node.units.parts)
             /\ UNCHANGED <<request, shown, record>>
    <2>1. AnsweredSlots(node.units) = Missing
      BY <1>1, <1>4 DEF FinishedReply
    <2>2. AsksAll(shown)
      BY <1>2, <2>1 DEF AnsweredSlots, Slots, AsksAll
    <2> QED
      BY <1>1, <1>2, <1>4, <2>2, GeneratedAsks
  <1> QED
    BY <1>3, <1>4 DEF EndReply

\* Every step keeps the invariant.
LEMMA AskStep ==
    ASSUME Clarifies, AskInv, [Next]_vars
    PROVE  AskInv'
  <1>1. CASE UNCHANGED vars
    BY <1>1 DEF vars, AskInv, Shapes, Running
  <1>2. CASE Send
    <2>1. record' = [f \in RecordFields |-> record'[f]] /\ record'.status = "running"
      BY <1>2 DEF Send, AskInv, Shapes, RecordFields
    <2>2. graph' = Fresh /\ UNCHANGED <<node, shown>>
      BY <1>2, ClarifiesDirectly DEF Send
    <2>3. node = NoNode /\ shown = <<>>
      BY <1>2 DEF Send, AskInv
    <2>4. "none" \in DOMAIN NoNode.units /\ NoNode.call = NoCall /\ NoNode.joined = <<>>
      BY DEF NoNode, NoUnits
    <2> QED
      BY <2>1, <2>2, <2>3, <2>4, ClarifiesDirectly DEF AskInv, Shapes, Running
  <1>3. CASE Cancel
    BY <1>3, EndsAsks DEF Cancel
  <1>4. CASE StreamFragment
    <2>1. /\ node' = [node EXCEPT !.call.content = TRUE, !.dangling = TRUE]
          /\ Streaming /\ Running /\ UNCHANGED <<graph, shown, record>>
      BY <1>4 DEF StreamFragment, Streaming
    <2>2. /\ node' = [f \in NodeFields |-> node'[f]] /\ node'.joined = node.joined
          /\ node'.units = node.units
      BY <2>1 DEF AskInv, Shapes, NodeFields, NoNode
    <2>3. CASE graph.at = "direct"
      BY <2>1, <2>2, <2>3, ReplyingAsks DEF AskInv, Streaming
    <2>4. CASE graph.at # "direct"
      BY <2>1, <2>2, <2>4 DEF AskInv, Shapes, Running
    <2> QED
      BY <2>3, <2>4
  <1>5. CASE ReplyTrouble
    <2>1. Streaming /\ graph.at = "direct"
      BY <1>5 DEF ReplyTrouble, Direct, Streaming, AskInv
    <2> QED
      BY <1>5, <2>1, RetryAsks, GiveUpAsks DEF ReplyTrouble
  <1>6. CASE Finalize
    <2>1. Running /\ graph.at = "end"
      BY <1>6 DEF Finalize
    <2>2. CASE Ends("failed", "verification_failed")
      BY <2>2, EndsAsks
    <2>3. CASE /\ shown' = graph.text
               /\ record' = [record EXCEPT !.status = "completed", !.stored = graph.text]
               /\ UNCHANGED <<request, graph, node>>
      <3>1. record' = [f \in RecordFields |-> record'[f]] /\ record'.status = "completed"
        BY <2>3 DEF AskInv, Shapes, RecordFields
      <3> QED
        BY <2>1, <2>3, <3>1 DEF AskInv, Shapes, Running
    <2> QED
      BY <1>6, <2>2, <2>3 DEF Finalize
  <1>7. CASE BeginAnswer \/ StreamAnswer \/ AnswerTrouble \/ EndAnswer \/ VerifyAnswer
    <2>1. Running /\ graph.at \in {"generate", "verify"}
      BY <1>7 DEF BeginAnswer, StreamAnswer, AnswerTrouble, EndAnswer, VerifyAnswer,
             Ended, Streaming
    <2> QED
      BY <2>1 DEF AskInv
  <1> QED
    BY <1>1, <1>2, <1>3, <1>4, <1>5, <1>6, <1>7, BeginReplyAsks, StreamReplyAsks, EndReplyAsks
       DEF Next, Step, Rest

\* What is asked stays the same.
LEMMA RequestStays ==
    [Next]_vars => request' = request
  BY DEF Next, vars, Send, Cancel, Step, Rest, StreamFragment, BeginReply, StreamReply, ReplyUnit,
         ReplyDone, ReplyUnitError, Retry, GiveUp, ReplyTrouble, EndReply, BeginAnswer, Answered,
         StreamAnswer, AnswerUnit, AnswerUnitError, Ends, AnswerTrouble, EndAnswer,
         VerifyAnswer, Finalize

\* The invariant, of whatever request.
AskedInv == request \in Requests /\ (request.kind = "clarification" => AskInv)

\* A clarification asks for no slot twice, and a stored one for every missing slot
\* once, for any slots, limits, streams, fallbacks and runs (AsksEachOnce).
THEOREM SlotsAreAskedOnce == Spec => []AsksEachOnce
  <1>1. Init => AskedInv
    <2> SUFFICES ASSUME Init, Clarifies PROVE AskInv
      BY DEF Init, AskedInv, Clarifies
    <2>1. NoNode = [f \in NodeFields |-> NoNode[f]]
      BY DEF NodeFields, NoNode
    <2> QED
      BY <2>1, ClarifiesDirectly DEF Init, AskInv, Shapes, Running, RecordFields
  <1>2. AskedInv /\ [Next]_vars => AskedInv'
    BY RequestStays, AskStep DEF AskedInv, Clarifies
  <1>3. AskedInv => AsksEachOnce
    <2> SUFFICES ASSUME Clarifies, AskInv, NEW slot \in Missing
                 PROVE  IF record.status = "completed" THEN Times(slot) = 1 ELSE Times(slot) <= 1
      BY DEF AskedInv, AsksEachOnce, Clarifies
    <2>1. Asking(shown) /\ Apart(shown) /\ (record.status = "completed" => Slots(shown) = Missing)
      BY NothingAsked DEF AskInv, Shapes, AsksAll, Running
    <2> QED
      BY <2>1, AskedApart DEF Times
  <1> QED
    BY <1>1, <1>2, <1>3, PTL DEF Spec

-----------------------------------------------------------------------------
(* What is shown is what is stored, and is grounded                       *)

\* Parts that are not told about the evidence.
Others ==
    {"separator", "fallback", "text", "lead", "ack", "question", "questions", "boundary", "alternative",
     "stopped", "unknown", "next_action", "confidence", "done", "invalid"}
OtherParts == [part : Others, of : SUBSET Missing]

\* Facts and hypotheses that rest on a ledger.
FactParts(ledger) == [part : {"fact"}, of : (SUBSET Ids(ledger)) \ {{}}]
HypothesisParts(ledger) == [part : {"hypothesis"}, of : SUBSET Ids(ledger)]

\* What may be told of a ledger.
Told(ledger) == OtherParts \cup FactParts(ledger) \cup HypothesisParts(ledger)

\* A text begins with itself, and what it has more is what was added.
LEMMA TextGrows ==
    ASSUME NEW S, NEW s \in Seq(S), NEW g \in Seq(S)
    PROVE  /\ s \o g \in Seq(S)
           /\ IsPrefix(s, s \o g)
           /\ SubSeq(s \o g, Len(s) + 1, Len(s \o g)) = g
  <1>1. /\ s \o g \in Seq(S) /\ Len(s) \in Nat /\ Len(g) \in Nat
        /\ Len(s \o g) = Len(s) + Len(g)
        /\ \A i \in 1 .. Len(s) + Len(g) : (s \o g)[i] = IF i <= Len(s) THEN s[i] ELSE g[i - Len(s)]
    BY ConcatProperties, LenProperties
  <1> DEFINE t == s \o g
             head == SubSeq(t, 1, Len(s))
             tail == SubSeq(t, Len(s) + 1, Len(t))
  <1>2. head = s
    <2>1. CASE Len(s) = 0
      BY <1>1, <2>1, SubSeqEmpty, EmptySeq
    <2>2. CASE Len(s) # 0
      <3>1. /\ head \in Seq(S) /\ Len(head) = Len(s) - 1 + 1
            /\ \A i \in 1 .. Len(s) - 1 + 1 : head[i] = t[1 + i - 1]
        BY <1>1, <2>2, SubSeqProperties
      <3> HIDE DEF head, t
      <3>2. \A i \in 1 .. Len(s) : head[i] = s[i]
        BY <1>1, <3>1 DEF t
      <3> QED
        BY <1>1, <3>1, <3>2, SeqEqual
    <2> QED
      BY <2>1, <2>2
  <1>3. SubSeq(s, 1, Len(s)) = s
    BY SubSeqFull
  <1>4. tail = g
    <2>1. CASE Len(g) = 0
      BY <1>1, <2>1, SubSeqEmpty, EmptySeq
    <2>2. CASE Len(g) # 0
      <3>1. /\ tail \in Seq(S) /\ Len(tail) = Len(t) - (Len(s) + 1) + 1
            /\ \A i \in 1 .. Len(t) - (Len(s) + 1) + 1 : tail[i] = t[(Len(s) + 1) + i - 1]
        BY <1>1, <2>2, SubSeqProperties
      <3> HIDE DEF tail
      <3>2. Len(tail) = Len(g)
        BY <1>1, <3>1
      <3>3. \A i \in 1 .. Len(g) : tail[i] = g[i]
        <4> SUFFICES ASSUME NEW i \in 1 .. Len(g) PROVE tail[i] = g[i]
          OBVIOUS
        <4>1. tail[i] = t[Len(s) + i]
          BY <1>1, <3>1
        <4>2. Len(s) + i \in 1 .. Len(s) + Len(g) /\ ~(Len(s) + i <= Len(s)) /\ (Len(s) + i) - Len(s) = i
          BY <1>1
        <4> QED
          BY <1>1, <4>1, <4>2
      <3> QED
        BY <3>1, <3>2, <3>3, SeqEqual
    <2> QED
      BY <2>1, <2>2
  <1> QED
    BY <1>1, <1>2, <1>3, <1>4 DEF IsPrefix

\* The parts of a text, one after another.
LEMMA PartsInARow ==
    ASSUME NEW S, NEW f \in Seq(S), NEW h \in Seq(S), NEW u \in Seq(S), NEW n \in Seq(S), NEW c \in Seq(S)
    PROVE  f \o h \o u \o n \o c \in Seq(S)
  BY ConcatProperties

\* An answer of a model or of the server about a ledger.
IsAnswer(a, ledger) ==
    /\ a = [f \in DOMAIN NewAnswer |-> a[f]]
    /\ a.facts \in Seq(FactParts(ledger)) /\ a.hypotheses \in Seq(HypothesisParts(ledger))
    /\ a.unknowns \in Seq(OtherParts) /\ a.next_actions \in Seq(OtherParts)
    /\ a.confidence \in BOOLEAN

\* The parts of an answer come in their order, and no other part before a fact.
InOrder(a) ==
    /\ a.last_order \in 0 .. 5
    /\ a.last_order > 1 => a.facts # <<>>
    /\ a.last_order < 2 => a.hypotheses = <<>>
    /\ a.last_order < 3 => a.unknowns = <<>>
    /\ a.last_order < 4 => a.next_actions = <<>>
    /\ a.last_order < 5 => ~a.confidence

\* One text is the other with something added.
Grows(a, b, ledger, natural) ==
    \E g \in Seq(Told(ledger)) : Rendered(b, natural) = Rendered(a, natural) \o g

\* The parts of an answer may be told.
LEMMA AnswerParts ==
    ASSUME NEW a, NEW ledger, IsAnswer(a, ledger)
    PROVE  /\ a.facts \in Seq(Told(ledger)) /\ a.hypotheses \in Seq(Told(ledger))
           /\ a.unknowns \in Seq(Told(ledger)) /\ a.next_actions \in Seq(Told(ledger))
  <1>1. \A S, T : S \subseteq T => \A s \in Seq(S) : s \in Seq(T)
    OBVIOUS
  <1> QED
    BY <1>1 DEF IsAnswer, Told

\* A part that tells nothing of the evidence may be told.
LEMMA OneTold ==
    ASSUME NEW ledger, NEW name \in Others
    PROVE  <<Part(name, {})>> \in Seq(OtherParts) /\ <<Part(name, {})>> \in Seq(Told(ledger))
  <1>1. Part(name, {}) \in OtherParts
    BY DEF Part, OtherParts
  <1> HIDE DEF OtherParts
  <1>2. Part(name, {}) \in Told(ledger)
    BY <1>1 DEF Told
  <1> HIDE DEF Told
  <1> QED
    BY <1>1, <1>2

\* The last part of an answer.
Sureness(a, natural) == IF a.confidence /\ ~natural THEN <<Part("confidence", {})>> ELSE <<>>

\* So may the part that says how sure an answer is.
LEMMA SurenessTold ==
    ASSUME NEW a, NEW ledger, NEW natural
    PROVE  Sureness(a, natural) \in Seq(Told(ledger)) /\ (~a.confidence => Sureness(a, natural) = <<>>)
  <1>1. "confidence" \in Others
    BY DEF Others
  <1> QED
    BY <1>1, OneTold, EmptySeq DEF Sureness

\* The text of an answer, as a row of its parts.
LEMMA RenderedTold ==
    ASSUME NEW a, NEW ledger, IsAnswer(a, ledger), NEW natural
    PROVE  /\ Rendered(a, natural) \in Seq(Told(ledger))
           /\ Rendered(a, natural) = a.facts \o a.hypotheses \o a.unknowns \o a.next_actions \o Sureness(a, natural)
  <1>1. Rendered(a, natural) = a.facts \o a.hypotheses \o a.unknowns \o a.next_actions \o Sureness(a, natural)
    BY Zenon DEF Rendered, Sureness
  <1> QED
    BY <1>1, AnswerParts, SurenessTold, PartsInARow

\* The fields of an answer.
LEMMA AnswerFieldNames ==
    DOMAIN NewAnswer = {"facts", "hypotheses", "unknowns", "next_actions", "confidence", "last_order", "processed"}
  BY DEF NewAnswer

\* The fact that the server adds rests on the ledger.
LEMMA DeterministicTold ==
    ASSUME NEW ledger, ledger # {}
    PROVE  Part("fact", {CHOOSE id \in DeterministicSources(ledger) : TRUE}) \in FactParts(ledger)
  <1>1. Ids(ledger) # {}
    BY DEF Ids
  <1>2. DeterministicSources(ledger) # {} /\ DeterministicSources(ledger) \subseteq Ids(ledger)
    BY <1>1 DEF DeterministicSources, Of, Ids
  <1> DEFINE id == CHOOSE id \in DeterministicSources(ledger) : TRUE
  <1>3. id \in Ids(ledger)
    BY <1>2
  <1> HIDE DEF id
  <1>4. Part("fact", {id}) \in FactParts(ledger)
    BY <1>3 DEF Part, FactParts
  <1> QED
    BY <1>4 DEF id

\* Nothing behind a text leaves it as it is.
LEMMA NothingBehind ==
    ASSUME NEW S, NEW f \in Seq(S)
    PROVE  f \o <<>> \o <<>> \o <<>> \o <<>> = f
  BY ConcatEmptySeq

\* The fact that the server adds comes before all other parts.
LEMMA WithFactGrows ==
    ASSUME NEW ledger, ledger # {}, NEW a, IsAnswer(a, ledger), InOrder(a), NEW natural,
           NEW b, b = WithDeterministicFact(a, ledger)
    PROVE  /\ IsAnswer(b, ledger) /\ InOrder(b) /\ Grows(a, b, ledger, natural)
           /\ b.facts # <<>> /\ b.last_order = a.last_order
  <1>1. CASE a.facts # <<>>
    <2>1. b = a
      BY <1>1 DEF WithDeterministicFact
    <2>2. Rendered(a, natural) = Rendered(a, natural) \o <<>> /\ <<>> \in Seq(Told(ledger))
      BY RenderedTold, ConcatEmptySeq, EmptySeq
    <2> QED
      BY <1>1, <2>1, <2>2 DEF Grows
  <1>2. CASE a.facts = <<>>
    <2> DEFINE claim == Part("fact", {CHOOSE id \in DeterministicSources(ledger) : TRUE})
    <2>1. b = [a EXCEPT !.facts = <<claim>>]
      BY <1>2 DEF WithDeterministicFact
    <2>2. claim \in FactParts(ledger)
      BY DeterministicTold
    <2> HIDE DEF claim
    <2>3. <<claim>> \in Seq(FactParts(ledger)) /\ <<claim>> # <<>> /\ <<claim>> \in Seq(Told(ledger))
      <3>1. claim \in Told(ledger)
        BY <2>2 DEF Told
      <3> HIDE DEF Told, FactParts
      <3> QED
        BY <2>2, <3>1
    <2>4. /\ b.facts = <<claim>> /\ b.hypotheses = a.hypotheses /\ b.unknowns = a.unknowns
          /\ b.next_actions = a.next_actions /\ b.confidence = a.confidence /\ b.last_order = a.last_order
          /\ b = [f \in DOMAIN NewAnswer |-> b[f]]
      BY <2>1, AnswerFieldNames DEF IsAnswer
    <2>5. IsAnswer(b, ledger) /\ InOrder(b)
      BY <2>3, <2>4 DEF IsAnswer, InOrder
    <2>6. a.hypotheses = <<>> /\ a.unknowns = <<>> /\ a.next_actions = <<>> /\ ~a.confidence
      BY <1>2 DEF InOrder
    <2>7. Sureness(a, natural) = <<>> /\ Sureness(b, natural) = <<>>
      BY <2>4, <2>6 DEF Sureness
    <2>8. /\ Rendered(a, natural) = a.facts \o a.hypotheses \o a.unknowns \o a.next_actions \o Sureness(a, natural)
          /\ Rendered(b, natural) = b.facts \o b.hypotheses \o b.unknowns \o b.next_actions \o Sureness(b, natural)
      BY <2>5, RenderedTold
    <2>9. Rendered(a, natural) = <<>> /\ Rendered(b, natural) = <<claim>>
      <3>1. Rendered(a, natural) = <<>> \o <<>> \o <<>> \o <<>> \o <<>>
        BY <1>2, <2>6, <2>7, <2>8, Zenon
      <3>2. Rendered(b, natural) = <<claim>> \o <<>> \o <<>> \o <<>> \o <<>>
        BY <2>4, <2>6, <2>7, <2>8, Zenon
      <3>3. <<>> \in Seq(Told(ledger))
        BY EmptySeq
      <3> QED
        BY <2>3, <3>1, <3>2, <3>3, NothingBehind
    <2>10. Rendered(b, natural) = Rendered(a, natural) \o <<claim>>
      BY <2>3, <2>9, ConcatEmptySeq
    <2> QED
      BY <2>3, <2>4, <2>5, <2>10 DEF Grows
  <1> QED
    BY <1>1, <1>2

\* A text that stays the same grows, too.
LEMMA GrowsNot ==
    ASSUME NEW ledger, NEW a, IsAnswer(a, ledger), NEW natural, NEW b, Rendered(b, natural) = Rendered(a, natural)
    PROVE  Grows(a, b, ledger, natural)
  <1>1. Rendered(b, natural) = Rendered(a, natural) \o <<>> /\ <<>> \in Seq(Told(ledger))
    BY RenderedTold, ConcatEmptySeq, EmptySeq
  <1> QED
    BY <1>1 DEF Grows

\* A text may grow twice.
LEMMA GrowsTwice ==
    ASSUME NEW ledger, NEW natural, NEW a, IsAnswer(a, ledger), NEW b, NEW c,
           Grows(a, b, ledger, natural), Grows(b, c, ledger, natural)
    PROVE  Grows(a, c, ledger, natural)
  <1>1. PICK g \in Seq(Told(ledger)) : Rendered(b, natural) = Rendered(a, natural) \o g
    BY DEF Grows
  <1>2. PICK h \in Seq(Told(ledger)) : Rendered(c, natural) = Rendered(b, natural) \o h
    BY DEF Grows
  <1>3. Rendered(a, natural) \in Seq(Told(ledger))
    BY RenderedTold
  <1>4. Rendered(c, natural) = Rendered(a, natural) \o (g \o h)
    BY <1>1, <1>2, <1>3, ConcatAssociative, SMTT(60)
  <1>5. g \o h \in Seq(Told(ledger))
    BY ConcatProperties
  <1> QED
    BY <1>4, <1>5 DEF Grows

\* Texts grow behind what is empty.
LEMMA Behind ==
    ASSUME NEW S, NEW p \in Seq(S), NEW x \in Seq(S), NEW g \in Seq(S)
    PROVE  /\ (x \o g) \o <<>> \o <<>> \o <<>> \o <<>> = (x \o <<>> \o <<>> \o <<>> \o <<>>) \o g
           /\ p \o (x \o g) \o <<>> \o <<>> \o <<>> = (p \o x \o <<>> \o <<>> \o <<>>) \o g
           /\ p \o (x \o g) \o <<>> \o <<>> = (p \o x \o <<>> \o <<>>) \o g
           /\ p \o (x \o g) \o <<>> = (p \o x \o <<>>) \o g
           /\ p \o g = (p \o <<>>) \o g
  <1>1. \A s \in Seq(S) : s \o <<>> = s
    BY ConcatEmptySeq
  <1>2. p \o (x \o g) = (p \o x) \o g
    BY ConcatAssociative
  <1>3. p \o (x \o g) \in Seq(S) /\ p \o x \in Seq(S) /\ x \o g \in Seq(S)
    BY ConcatProperties
  <1> QED
    BY <1>1, <1>2, <1>3

\* A part is added behind a text.
LEMMA AppendIsBehind ==
    ASSUME NEW S, NEW s \in Seq(S), NEW p \in S
    PROVE  Append(s, p) = s \o <<p>> /\ <<p>> \in Seq(S) /\ Append(s, p) \in Seq(S)
  BY AppendIsConcat, AppendProperties

\* What an answer has more than another, in one of its fields, when the fields behind it are empty.
GrowsIn(a, b, g) ==
    \/ /\ b.facts = a.facts \o g /\ b.hypotheses = <<>> /\ b.unknowns = <<>> /\ b.next_actions = <<>>
       /\ a.hypotheses = <<>> /\ a.unknowns = <<>> /\ a.next_actions = <<>>
    \/ /\ b.facts = a.facts /\ b.hypotheses = a.hypotheses \o g /\ b.unknowns = <<>> /\ b.next_actions = <<>>
       /\ a.unknowns = <<>> /\ a.next_actions = <<>>
    \/ /\ b.facts = a.facts /\ b.hypotheses = a.hypotheses /\ b.unknowns = a.unknowns \o g
       /\ b.next_actions = <<>> /\ a.next_actions = <<>>
    \/ /\ b.facts = a.facts /\ b.hypotheses = a.hypotheses /\ b.unknowns = a.unknowns
       /\ b.next_actions = a.next_actions \o g

\* An answer with more in one of its fields has a longer text.
LEMMA GrowsInOne ==
    ASSUME NEW ledger, NEW natural, NEW a, IsAnswer(a, ledger), NEW b, IsAnswer(b, ledger),
           ~a.confidence, ~b.confidence, NEW g \in Seq(Told(ledger)), GrowsIn(a, b, g)
    PROVE  Grows(a, b, ledger, natural)
  <1>1. /\ Rendered(a, natural) = a.facts \o a.hypotheses \o a.unknowns \o a.next_actions \o Sureness(a, natural)
        /\ Rendered(b, natural) = b.facts \o b.hypotheses \o b.unknowns \o b.next_actions \o Sureness(b, natural)
    BY RenderedTold
  <1>2. Sureness(a, natural) = <<>> /\ Sureness(b, natural) = <<>>
    BY DEF Sureness
  <1>3. /\ a.facts \in Seq(Told(ledger)) /\ a.hypotheses \in Seq(Told(ledger))
        /\ a.unknowns \in Seq(Told(ledger)) /\ a.next_actions \in Seq(Told(ledger))
    BY AnswerParts
  <1>4. /\ a.facts \o a.hypotheses \in Seq(Told(ledger))
        /\ a.facts \o a.hypotheses \o a.unknowns \in Seq(Told(ledger))
    BY <1>3, ConcatProperties
  <1>5. CASE /\ b.facts = a.facts \o g /\ b.hypotheses = <<>> /\ b.unknowns = <<>> /\ b.next_actions = <<>>
             /\ a.hypotheses = <<>> /\ a.unknowns = <<>> /\ a.next_actions = <<>>
    <2>1. Rendered(a, natural) = a.facts \o <<>> \o <<>> \o <<>> \o <<>>
      BY <1>1, <1>2, <1>5, Zenon
    <2>2. Rendered(b, natural) = (a.facts \o g) \o <<>> \o <<>> \o <<>> \o <<>>
      BY <1>1, <1>2, <1>5, Zenon
    <2>3. (a.facts \o g) \o <<>> \o <<>> \o <<>> \o <<>> = (a.facts \o <<>> \o <<>> \o <<>> \o <<>>) \o g
      BY <1>3, Behind
    <2> QED
      BY <2>1, <2>2, <2>3 DEF Grows
  <1>6. CASE /\ b.facts = a.facts /\ b.hypotheses = a.hypotheses \o g /\ b.unknowns = <<>> /\ b.next_actions = <<>>
             /\ a.unknowns = <<>> /\ a.next_actions = <<>>
    <2>1. Rendered(a, natural) = a.facts \o a.hypotheses \o <<>> \o <<>> \o <<>>
      BY <1>1, <1>2, <1>6, Zenon
    <2>2. Rendered(b, natural) = a.facts \o (a.hypotheses \o g) \o <<>> \o <<>> \o <<>>
      BY <1>1, <1>2, <1>6, Zenon
    <2>3. a.facts \o (a.hypotheses \o g) \o <<>> \o <<>> \o <<>>
             = (a.facts \o a.hypotheses \o <<>> \o <<>> \o <<>>) \o g
      BY <1>3, Behind, ZenonT(60)
    <2> QED
      BY <2>1, <2>2, <2>3 DEF Grows
  <1>7. CASE /\ b.facts = a.facts /\ b.hypotheses = a.hypotheses /\ b.unknowns = a.unknowns \o g
             /\ b.next_actions = <<>> /\ a.next_actions = <<>>
    <2> DEFINE p == a.facts \o a.hypotheses
    <2>1. Rendered(a, natural) = p \o a.unknowns \o <<>> \o <<>>
      BY <1>1, <1>2, <1>7, Zenon
    <2>2. Rendered(b, natural) = p \o (a.unknowns \o g) \o <<>> \o <<>>
      BY <1>1, <1>2, <1>7, Zenon
    <2>3. p \in Seq(Told(ledger))
      BY <1>4
    <2> HIDE DEF p
    <2> DEFINE x == a.unknowns
    <2>5. x \in Seq(Told(ledger))
      BY <1>3
    <2> HIDE DEF x
    <2>4. p \o (x \o g) \o <<>> \o <<>> = (p \o x \o <<>> \o <<>>) \o g
      BY <2>3, <2>5, Behind
    <2> QED
      BY <2>1, <2>2, <2>4 DEF Grows, x
  <1>8. CASE /\ b.facts = a.facts /\ b.hypotheses = a.hypotheses /\ b.unknowns = a.unknowns
             /\ b.next_actions = a.next_actions \o g
    <2> DEFINE p == a.facts \o a.hypotheses \o a.unknowns
    <2>1. Rendered(a, natural) = p \o a.next_actions \o <<>>
      BY <1>1, <1>2, <1>8, Zenon
    <2>2. Rendered(b, natural) = p \o (a.next_actions \o g) \o <<>>
      BY <1>1, <1>2, <1>8, Zenon
    <2>3. p \in Seq(Told(ledger))
      BY <1>4
    <2> HIDE DEF p
    <2> DEFINE x == a.next_actions
    <2>5. x \in Seq(Told(ledger))
      BY <1>3
    <2> HIDE DEF x
    <2>4. p \o (x \o g) \o <<>> = (p \o x \o <<>>) \o g
      BY <2>3, <2>5, Behind
    <2> QED
      BY <2>1, <2>2, <2>4 DEF Grows, x
  <1> QED
    BY <1>5, <1>6, <1>7, <1>8 DEF GrowsIn

\* An answer that says how sure it is.
LEMMA SureGrows ==
    ASSUME NEW ledger, NEW natural, NEW a, IsAnswer(a, ledger), NEW b, IsAnswer(b, ledger), ~a.confidence,
           b.facts = a.facts, b.hypotheses = a.hypotheses, b.unknowns = a.unknowns, b.next_actions = a.next_actions
    PROVE  Grows(a, b, ledger, natural)
  <1>1. /\ Rendered(a, natural) = a.facts \o a.hypotheses \o a.unknowns \o a.next_actions \o Sureness(a, natural)
        /\ Rendered(b, natural) = b.facts \o b.hypotheses \o b.unknowns \o b.next_actions \o Sureness(b, natural)
    BY RenderedTold
  <1>2. Sureness(a, natural) = <<>> /\ Sureness(b, natural) \in Seq(Told(ledger))
    BY SurenessTold DEF Sureness
  <1>3. /\ a.facts \in Seq(Told(ledger)) /\ a.hypotheses \in Seq(Told(ledger))
        /\ a.unknowns \in Seq(Told(ledger)) /\ a.next_actions \in Seq(Told(ledger))
    BY AnswerParts
  <1> DEFINE g == Sureness(b, natural)
             p == a.facts \o a.hypotheses \o a.unknowns \o a.next_actions
  <1>4. p \in Seq(Told(ledger))
    BY <1>3, ConcatProperties
  <1>5. Rendered(a, natural) = p \o <<>> /\ Rendered(b, natural) = p \o g
    BY <1>1, <1>2, Zenon
  <1> HIDE DEF p, g
  <1>6. g \in Seq(Told(ledger))
    BY <1>2 DEF g
  <1>7. p \o g = (p \o <<>>) \o g
    BY <1>4, <1>6, Behind
  <1> QED
    BY <1>5, <1>6, <1>7 DEF Grows

\* A claim of a model rests on the evidence it cites, as far as there is such evidence.
LEMMA ClaimTold ==
    ASSUME NEW ledger, NEW u, NEW claim, claim = Part(u.type, u.of \cap Ids(ledger))
    PROVE  /\ u.type = "fact" /\ u.of \cap Ids(ledger) # {} => claim \in FactParts(ledger)
           /\ u.type = "hypothesis" => claim \in HypothesisParts(ledger)
  BY DEF Part, FactParts, HypothesisParts

\* The answer to which a unit is added, and the place that the unit takes.
UnitEnds(b, u, ledger, enforced) ==
    [AddUnit(b, u, ledger, enforced) EXCEPT !.last_order = Order[u.type], !.processed = TRUE]

\* The places of the units.
LEMMA UnitPlaces ==
    ASSUME NEW u, u.type \in DOMAIN Order
    PROVE  /\ u.type \in {"fact", "hypothesis", "unknown", "next_action", "confidence"}
           /\ u.type = "fact" => Order[u.type] = 1
           /\ u.type = "hypothesis" => Order[u.type] = 2
           /\ u.type = "unknown" => Order[u.type] = 3
           /\ u.type = "next_action" => Order[u.type] = 4
           /\ u.type = "confidence" => Order[u.type] = 5
  BY DEF Order

\* A unit that is taken keeps the order of an answer, and its text grows.
LEMMA UnitGrows ==
    ASSUME NEW ledger, NEW natural, NEW enforced, NEW u, NEW b, IsAnswer(b, ledger), InOrder(b), TakesUnit(b, u),
           u.type # "fact" => b.facts # <<>>,
           NEW c, c = UnitEnds(b, u, ledger, enforced)
    PROVE  IsAnswer(c, ledger) /\ InOrder(c) /\ Grows(b, c, ledger, natural)
  <1> DEFINE claim == Part(u.type, u.of \cap Ids(ledger))
             add == AddUnit(b, u, ledger, enforced)
             place == Order[u.type]
  <1>1. /\ u.type \in {"fact", "hypothesis", "unknown", "next_action", "confidence"}
        /\ u.type \in DOMAIN Order
        /\ place >= b.last_order /\ ~b.confidence
    BY UnitPlaces DEF TakesUnit
  <1>2. place \in 1 .. 5
    BY <1>1, UnitPlaces
  <1>3. b = [f \in DOMAIN NewAnswer |-> b[f]]
    BY DEF IsAnswer
  <1>4. ASSUME add = b
        PROVE  IsAnswer(c, ledger) /\ InOrder(c) /\ Grows(b, c, ledger, natural)
    <2> HIDE DEF add, place
    <2>1. c = [b EXCEPT !.last_order = place, !.processed = TRUE]
      BY <1>4 DEF UnitEnds, add, place
    <2>2. /\ c.facts = b.facts /\ c.hypotheses = b.hypotheses /\ c.unknowns = b.unknowns
          /\ c.next_actions = b.next_actions /\ c.confidence = b.confidence /\ c.last_order = place
          /\ c = [f \in DOMAIN NewAnswer |-> c[f]]
      BY <1>3, <2>1, AnswerFieldNames
    <2>3. IsAnswer(c, ledger)
      BY <2>2 DEF IsAnswer
    <2>4. place > 1 => u.type # "fact"
      BY <1>1, UnitPlaces DEF place
    <2>5. InOrder(c)
      BY <1>1, <1>2, <2>2, <2>4 DEF InOrder
    <2>6. Grows(b, c, ledger, natural)
      BY <1>1, <2>2, <2>3, SureGrows
    <2> QED
      BY <2>3, <2>5, <2>6
  <1>5. ASSUME u.type = "fact", u.of \cap Ids(ledger) # {}, add = [b EXCEPT !.facts = Append(b.facts, claim)]
        PROVE  IsAnswer(c, ledger) /\ InOrder(c) /\ Grows(b, c, ledger, natural)
    <2>1. claim \in FactParts(ledger)
      BY <1>5, ClaimTold
    <2>2. place = 1
      BY <1>1, <1>5, UnitPlaces
    <2>3. /\ b.hypotheses = <<>> /\ b.unknowns = <<>> /\ b.next_actions = <<>>
          /\ b.facts \in Seq(FactParts(ledger))
      BY <1>1, <2>2, SMTT(60) DEF InOrder, IsAnswer
    <2> HIDE DEF add, place, claim
    <2>4. c = [[b EXCEPT !.facts = Append(b.facts, claim)] EXCEPT !.last_order = place, !.processed = TRUE]
      BY <1>5 DEF UnitEnds, add, place
    <2>5. /\ c.facts = Append(b.facts, claim) /\ c.hypotheses = b.hypotheses /\ c.unknowns = b.unknowns
          /\ c.next_actions = b.next_actions /\ c.confidence = b.confidence /\ c.last_order = place
          /\ c = [f \in DOMAIN NewAnswer |-> c[f]]
      BY <1>3, <2>4, AnswerFieldNames
    <2>6. claim \in Told(ledger)
      BY <2>1 DEF Told
    <2>7. /\ Append(b.facts, claim) = b.facts \o <<claim>> /\ Append(b.facts, claim) \in Seq(FactParts(ledger))
          /\ <<claim>> \in Seq(Told(ledger))
      <3> HIDE DEF FactParts, Told
      <3> QED
        BY <2>1, <2>3, <2>6, AppendIsBehind
    <2>8. IsAnswer(c, ledger) /\ InOrder(c)
      <3>1. IsAnswer(c, ledger)
        BY <2>5, <2>7 DEF IsAnswer
      <3>2. InOrder(c)
        BY <1>1, <2>2, <2>3, <2>5 DEF InOrder
      <3> QED
        BY <3>1, <3>2
    <2>9. GrowsIn(b, c, <<claim>>)
      BY <2>3, <2>5, <2>7 DEF GrowsIn
    <2> QED
      BY <1>1, <2>5, <2>7, <2>8, <2>9, GrowsInOne
  <1>6. ASSUME u.type = "hypothesis", add = [b EXCEPT !.hypotheses = Append(b.hypotheses, claim)]
        PROVE  IsAnswer(c, ledger) /\ InOrder(c) /\ Grows(b, c, ledger, natural)
    <2>1. claim \in HypothesisParts(ledger)
      BY <1>6, ClaimTold
    <2>2. place = 2
      BY <1>1, <1>6, UnitPlaces
    <2>3. /\ b.unknowns = <<>> /\ b.next_actions = <<>> /\ b.facts # <<>>
          /\ b.hypotheses \in Seq(HypothesisParts(ledger))
      BY <1>1, <1>6, <2>2 DEF InOrder, IsAnswer
    <2> HIDE DEF add, place, claim
    <2>4. c = [[b EXCEPT !.hypotheses = Append(b.hypotheses, claim)] EXCEPT !.last_order = place, !.processed = TRUE]
      BY <1>6 DEF UnitEnds, add, place
    <2>5. /\ c.facts = b.facts /\ c.hypotheses = Append(b.hypotheses, claim) /\ c.unknowns = b.unknowns
          /\ c.next_actions = b.next_actions /\ c.confidence = b.confidence /\ c.last_order = place
          /\ c = [f \in DOMAIN NewAnswer |-> c[f]]
      BY <1>3, <2>4, AnswerFieldNames
    <2>6. claim \in Told(ledger)
      BY <2>1 DEF Told
    <2>7. /\ Append(b.hypotheses, claim) = b.hypotheses \o <<claim>>
          /\ Append(b.hypotheses, claim) \in Seq(HypothesisParts(ledger))
          /\ <<claim>> \in Seq(Told(ledger))
      <3> HIDE DEF HypothesisParts, Told
      <3> QED
        BY <2>1, <2>3, <2>6, AppendIsBehind
    <2>8. IsAnswer(c, ledger) /\ InOrder(c)
      <3>1. IsAnswer(c, ledger)
        BY <2>5, <2>7 DEF IsAnswer
      <3>2. InOrder(c)
        BY <1>1, <2>2, <2>3, <2>5 DEF InOrder
      <3> QED
        BY <3>1, <3>2
    <2>9. GrowsIn(b, c, <<claim>>)
      BY <2>3, <2>5, <2>7 DEF GrowsIn
    <2> QED
      BY <1>1, <2>5, <2>7, <2>8, <2>9, GrowsInOne
  <1>7. ASSUME u.type = "unknown", add = [b EXCEPT !.unknowns = Append(b.unknowns, Part("unknown", {}))]
        PROVE  IsAnswer(c, ledger) /\ InOrder(c) /\ Grows(b, c, ledger, natural)
    <2> DEFINE part == Part("unknown", {})
    <2>1. part \in OtherParts
      BY DEF Part, OtherParts, Others
    <2>2. place = 3
      BY <1>1, <1>7, UnitPlaces
    <2>3. b.next_actions = <<>> /\ b.facts # <<>> /\ b.unknowns \in Seq(OtherParts)
      BY <1>1, <1>7, <2>2 DEF InOrder, IsAnswer
    <2> HIDE DEF add, place, part
    <2>4. c = [[b EXCEPT !.unknowns = Append(b.unknowns, part)] EXCEPT !.last_order = place, !.processed = TRUE]
      BY <1>7 DEF UnitEnds, add, place, part
    <2>5. /\ c.facts = b.facts /\ c.hypotheses = b.hypotheses /\ c.unknowns = Append(b.unknowns, part)
          /\ c.next_actions = b.next_actions /\ c.confidence = b.confidence /\ c.last_order = place
          /\ c = [f \in DOMAIN NewAnswer |-> c[f]]
      BY <1>3, <2>4, AnswerFieldNames
    <2>6. part \in Told(ledger)
      BY <2>1 DEF Told
    <2>7. /\ Append(b.unknowns, part) = b.unknowns \o <<part>> /\ Append(b.unknowns, part) \in Seq(OtherParts)
          /\ <<part>> \in Seq(Told(ledger))
      <3> HIDE DEF OtherParts, Told
      <3> QED
        BY <2>1, <2>3, <2>6, AppendIsBehind
    <2>8. IsAnswer(c, ledger) /\ InOrder(c)
      <3>1. IsAnswer(c, ledger)
        BY <2>5, <2>7 DEF IsAnswer
      <3>2. InOrder(c)
        BY <1>1, <2>2, <2>3, <2>5 DEF InOrder
      <3> QED
        BY <3>1, <3>2
    <2>9. GrowsIn(b, c, <<part>>)
      BY <2>3, <2>5, <2>7 DEF GrowsIn
    <2> QED
      BY <1>1, <2>5, <2>7, <2>8, <2>9, GrowsInOne
  <1>8. ASSUME u.type = "next_action", add = [b EXCEPT !.next_actions = Append(b.next_actions, Part("next_action", {}))]
        PROVE  IsAnswer(c, ledger) /\ InOrder(c) /\ Grows(b, c, ledger, natural)
    <2> DEFINE part == Part("next_action", {})
    <2>1. part \in OtherParts
      BY DEF Part, OtherParts, Others
    <2>2. place = 4
      BY <1>1, <1>8, UnitPlaces
    <2>3. b.facts # <<>> /\ b.next_actions \in Seq(OtherParts)
      BY <1>1, <1>8, <2>2 DEF InOrder, IsAnswer
    <2> HIDE DEF add, place, part
    <2>4. c = [[b EXCEPT !.next_actions = Append(b.next_actions, part)] EXCEPT !.last_order = place, !.processed = TRUE]
      BY <1>8 DEF UnitEnds, add, place, part
    <2>5. /\ c.facts = b.facts /\ c.hypotheses = b.hypotheses /\ c.unknowns = b.unknowns
          /\ c.next_actions = Append(b.next_actions, part) /\ c.confidence = b.confidence /\ c.last_order = place
          /\ c = [f \in DOMAIN NewAnswer |-> c[f]]
      BY <1>3, <2>4, AnswerFieldNames
    <2>6. part \in Told(ledger)
      BY <2>1 DEF Told
    <2>7. /\ Append(b.next_actions, part) = b.next_actions \o <<part>>
          /\ Append(b.next_actions, part) \in Seq(OtherParts)
          /\ <<part>> \in Seq(Told(ledger))
      <3> HIDE DEF OtherParts, Told
      <3> QED
        BY <2>1, <2>3, <2>6, AppendIsBehind
    <2>8. IsAnswer(c, ledger) /\ InOrder(c)
      <3>1. IsAnswer(c, ledger)
        BY <2>5, <2>7 DEF IsAnswer
      <3>2. InOrder(c)
        BY <1>1, <2>2, <2>3, <2>5 DEF InOrder
      <3> QED
        BY <3>1, <3>2
    <2>9. GrowsIn(b, c, <<part>>)
      BY <2>5, <2>7 DEF GrowsIn
    <2> QED
      BY <1>1, <2>5, <2>7, <2>8, <2>9, GrowsInOne
  <1>9. ASSUME u.type = "confidence", add = [b EXCEPT !.confidence = TRUE]
        PROVE  IsAnswer(c, ledger) /\ InOrder(c) /\ Grows(b, c, ledger, natural)
    <2>2. place = 5
      BY <1>1, <1>9, UnitPlaces
    <2> HIDE DEF add, place
    <2>4. c = [[b EXCEPT !.confidence = TRUE] EXCEPT !.last_order = place, !.processed = TRUE]
      BY <1>9 DEF UnitEnds, add, place
    <2>5. /\ c.facts = b.facts /\ c.hypotheses = b.hypotheses /\ c.unknowns = b.unknowns
          /\ c.next_actions = b.next_actions /\ c.confidence = TRUE /\ c.last_order = place
          /\ c = [f \in DOMAIN NewAnswer |-> c[f]]
      BY <1>3, <2>4, AnswerFieldNames
    <2>8. IsAnswer(c, ledger) /\ InOrder(c)
      <3>1. IsAnswer(c, ledger)
        BY <2>5 DEF IsAnswer
      <3>2. InOrder(c)
        BY <1>1, <1>9, <2>2, <2>5 DEF InOrder
      <3> QED
        BY <3>1, <3>2
    <2> QED
      BY <1>1, <2>5, <2>8, SureGrows
  <1>10. \/ add = b
         \/ u.type = "fact" /\ u.of \cap Ids(ledger) # {} /\ add = [b EXCEPT !.facts = Append(b.facts, claim)]
         \/ u.type = "hypothesis" /\ add = [b EXCEPT !.hypotheses = Append(b.hypotheses, claim)]
         \/ u.type = "unknown" /\ add = [b EXCEPT !.unknowns = Append(b.unknowns, Part("unknown", {}))]
         \/ u.type = "next_action" /\ add = [b EXCEPT !.next_actions = Append(b.next_actions, Part("next_action", {}))]
         \/ u.type = "confidence" /\ add = [b EXCEPT !.confidence = TRUE]
    <2> HIDE DEF claim
    <2>1. CASE u.type = "fact"
      BY <2>1 DEF AddUnit, ValidFact, claim
    <2>2. CASE u.type = "hypothesis"
      BY <2>2 DEF AddUnit, claim
    <2>3. CASE u.type = "unknown"
      BY <2>3 DEF AddUnit
    <2>4. CASE u.type = "next_action"
      BY <2>4 DEF AddUnit
    <2>5. CASE u.type = "confidence"
      BY <2>5 DEF AddUnit
    <2> QED
      BY <1>1, <2>1, <2>2, <2>3, <2>4, <2>5
  <1> HIDE DEF claim, add, place
  <1> QED
    BY <1>4, <1>5, <1>6, <1>7, <1>8, <1>9, <1>10

\* A unit keeps the order of an answer, and its text grows.
LEMMA ProcessGrows ==
    ASSUME NEW ledger, ledger # {}, NEW natural, NEW enforced, NEW u, NEW a, IsAnswer(a, ledger), InOrder(a),
           NEW c, c = ProcessUnit(a, u, ledger, enforced)
    PROVE  IsAnswer(c, ledger) /\ InOrder(c) /\ Grows(a, c, ledger, natural)
  <1>1. CASE ~TakesUnit(a, u)
    <2>1. c = a
      BY <1>1 DEF ProcessUnit
    <2> QED
      BY <2>1, GrowsNot
  <1>2. CASE TakesUnit(a, u)
    <2> DEFINE b == IF u.type = "fact" THEN a ELSE WithDeterministicFact(a, ledger)
    <2>1. c = UnitEnds(b, u, ledger, enforced)
      BY <1>2, Zenon DEF ProcessUnit, UnitEnds
    <2>2. /\ IsAnswer(b, ledger) /\ InOrder(b) /\ Grows(a, b, ledger, natural)
          /\ u.type # "fact" => b.facts # <<>>
          /\ b.last_order = a.last_order
      <3>1. CASE u.type = "fact"
        BY <3>1, GrowsNot
      <3>2. CASE u.type # "fact"
        BY <3>2, WithFactGrows
      <3> QED
        BY <3>1, <3>2
    <2>3. TakesUnit(b, u)
      <3>1. b.confidence = a.confidence
        BY AnswerFieldNames DEF WithDeterministicFact, IsAnswer
      <3> QED
        BY <1>2, <2>2, <3>1 DEF TakesUnit
    <2> HIDE DEF b
    <2>4. IsAnswer(c, ledger) /\ InOrder(c) /\ Grows(b, c, ledger, natural)
      BY <2>1, <2>2, <2>3, UnitGrows
    <2> QED
      BY <2>2, <2>4, GrowsTwice
  <1> QED
    BY <1>1, <1>2

\* So does the end of the stream.
LEMMA FinishGrows ==
    ASSUME NEW ledger, ledger # {}, NEW natural, NEW a, IsAnswer(a, ledger), InOrder(a),
           NEW c, c = FinishAnswer(a, ledger)
    PROVE  IsAnswer(c, ledger) /\ Grows(a, c, ledger, natural)
  <1> DEFINE b == WithDeterministicFact(a, ledger)
  <1>1. IsAnswer(b, ledger) /\ Grows(a, b, ledger, natural)
    BY WithFactGrows
  <1>2. c = [b EXCEPT !.confidence = TRUE]
    BY DEF FinishAnswer
  <1> HIDE DEF b
  <1>3. /\ c.facts = b.facts /\ c.hypotheses = b.hypotheses /\ c.unknowns = b.unknowns
        /\ c.next_actions = b.next_actions /\ c.confidence = TRUE
        /\ c = [f \in DOMAIN NewAnswer |-> c[f]]
        /\ b.confidence = TRUE => c = b
    BY <1>1, <1>2, AnswerFieldNames DEF IsAnswer
  <1>4. IsAnswer(c, ledger)
    BY <1>1, <1>3 DEF IsAnswer
  <1>5. Grows(b, c, ledger, natural)
    <2>1. CASE b.confidence = TRUE
      BY <1>1, <1>3, <2>1, GrowsNot
    <2>2. CASE b.confidence = FALSE
      BY <1>1, <1>3, <1>4, <2>2, SureGrows
    <2> QED
      BY <1>1, <2>1, <2>2 DEF IsAnswer
  <1> QED
    BY <1>1, <1>4, <1>5, GrowsTwice

\* The elements of a finite set, one after another.
LEMMA SetAsSeq ==
    ASSUME NEW S, IsFiniteSet(S)
    PROVE  SetToSeq(S) \in Seq(S)
  <1>1. Cardinality(S) \in Nat /\ ExistsBijection(1 .. Cardinality(S), S)
    BY FS_CardinalityType
  <1>2. \E f \in [1 .. Cardinality(S) -> S] : IsInjective(f)
    BY <1>1 DEF ExistsBijection, Bijection, Injection
  <1>3. SetToSeq(S) \in [1 .. Cardinality(S) -> S]
    BY <1>2 DEF SetToSeq
  <1> HIDE DEF SetToSeq
  <1> QED
    BY <1>1, <1>3, SeqDef

\* The answers of the server are answers about the ledger.
LEMMA NoEvidenceIsAnswer ==
    ASSUME NEW ledger
    PROVE  IsAnswer(NoEvidenceAnswer, ledger)
  <1>1. <<Part("unknown", {})>> \in Seq(OtherParts) /\ <<Part("next_action", {})>> \in Seq(OtherParts)
    BY OneTold DEF Others
  <1>2. /\ NoEvidenceAnswer.facts = <<>> /\ NoEvidenceAnswer.hypotheses = <<>>
        /\ NoEvidenceAnswer.unknowns = <<Part("unknown", {})>>
        /\ NoEvidenceAnswer.next_actions = <<Part("next_action", {})>>
        /\ NoEvidenceAnswer.confidence = TRUE
        /\ NoEvidenceAnswer = [f \in DOMAIN NewAnswer |-> NoEvidenceAnswer[f]]
    BY DEF NoEvidenceAnswer, NewAnswer
  <1> QED
    BY <1>1, <1>2, EmptySeq DEF IsAnswer

\* So is the one that lists the evidence.
LEMMA DeterministicIsAnswer ==
    ASSUME NEW ledger, IsFiniteSet(ledger)
    PROVE  IsAnswer(DeterministicAnswer(ledger), ledger)
  <1> DEFINE claims == {Part("fact", {id}) : id \in Ids(ledger)}
             both == {Of(ledger, "internal"), Of(ledger, "live")}
             a == DeterministicAnswer(ledger)
             hypotheses == IF {} \in both THEN <<>> ELSE <<Part("hypothesis", UNION both)>>
             unknowns == IF Of(ledger, "live") = {} THEN <<>> ELSE <<Part("unknown", {})>>
             actions == <<Part("next_action", {})>>
  <1>1. IsFiniteSet(claims)
    <2> DEFINE f == [e \in ledger |-> Part("fact", {e.id})]
    <2>1. f \in Surjection(ledger, claims)
      BY DEF Surjection, Ids
    <2> HIDE DEF f, claims
    <2> QED
      BY <2>1, FS_Surjection
  <1>2. claims \subseteq FactParts(ledger)
    BY DEF Part, FactParts
  <1>3. SetToSeq(claims) \in Seq(FactParts(ledger))
    <2> HIDE DEF claims, FactParts
    <2>1. SetToSeq(claims) \in Seq(claims)
      BY <1>1, SetAsSeq
    <2> HIDE DEF SetToSeq
    <2> QED
      BY <1>2, <2>1
  <1>4. hypotheses \in Seq(HypothesisParts(ledger))
    <2>1. Part("hypothesis", UNION both) \in HypothesisParts(ledger)
      BY DEF Part, HypothesisParts, Of, Ids
    <2> HIDE DEF HypothesisParts
    <2> QED
      BY <2>1, EmptySeq
  <1>5. unknowns \in Seq(OtherParts) /\ actions \in Seq(OtherParts)
    BY OneTold, EmptySeq DEF Others
  <1>6. a = [NewAnswer EXCEPT !.facts = SetToSeq(claims), !.hypotheses = hypotheses, !.unknowns = unknowns,
                              !.next_actions = actions, !.confidence = TRUE]
    BY Zenon DEF DeterministicAnswer
  <1> HIDE DEF claims, hypotheses, unknowns, actions, SetToSeq, a
  <1>7. /\ a.facts = SetToSeq(claims) /\ a.hypotheses = hypotheses /\ a.unknowns = unknowns
        /\ a.next_actions = actions /\ a.confidence = TRUE
        /\ a = [f \in DOMAIN NewAnswer |-> a[f]]
    BY <1>6 DEF NewAnswer
  <1>8. IsAnswer(a, ledger)
    BY <1>3, <1>4, <1>5, <1>7 DEF IsAnswer
  <1> QED
    BY <1>8 DEF a

\* All facts of such an answer hold: the verification has nothing to take back.
LEMMA VerifiedIsSame ==
    ASSUME NEW ledger, NEW governed, governed => Of(ledger, "external") = {},
           NEW a, IsAnswer(a, ledger)
    PROVE  VerifiedAnswer(a, ledger, governed) = a
  <1>1. \A i \in DOMAIN a.facts : a.facts[i].of \subseteq Ids(ledger) /\ a.facts[i].of # {}
    <2>1. \A i \in DOMAIN a.facts : a.facts[i] \in FactParts(ledger)
      <3> HIDE DEF FactParts
      <3> QED
        BY ElementOfSeq DEF IsAnswer
    <2> QED
      BY <2>1 DEF FactParts
  <1>2. \A i \in DOMAIN a.facts :
          /\ a.facts[i].of \cap Ids(ledger) # {}
          /\ ~(governed /\ Of(ledger, "internal") # {} /\ a.facts[i].of \subseteq Of(ledger, "external"))
    BY <1>1
  <1> QED
    BY <1>2 DEF VerifiedAnswer

\* What may be told about the evidence of the request.
Ground == Told(request.ledger)

\* The node reads a stream.
Begun == "none" \notin DOMAIN node.units

\* What the checkpoint and the texts hold.
TextTypes ==
    /\ request \in Requests /\ Shapes /\ record.runs \in Nat
    /\ shown \in Seq(Ground) /\ node.joined \in Seq(Ground)
    /\ graph.text \in Seq(Ground) /\ graph.combined \in Seq(Ground)
    /\ graph.at = "prelude" => graph.combined = <<>>
    /\ graph.at = "verify" => IsAnswer(graph.answer, request.ledger)

\* A request that does not run shows nothing.
Idle == record.status \in {"accepted", "failed", "cancelled"} => node = NoNode /\ shown = <<>>

\* The assembler's units, and that an answer is rendered as they say.
UnitsFit ==
    /\ ~Begun => node.call = NoCall /\ node.rendered = <<>>
    /\ graph.at = "direct" => node.joined = <<>>
    /\ Begun /\ Direct =>
         /\ node.units = [parts |-> node.units.parts, done |-> node.units.done]
         /\ node.units.parts \in Seq(Ground)
    /\ Begun /\ graph.at = "generate" =>
         /\ IsAnswer(node.units, request.ledger) /\ InOrder(node.units)
         /\ request.ledger # {} /\ node.rendered = Text(node.units)

\* A run that goes on behind replies that an earlier one has shown.
GoesOn == record.runs > 1 /\ request.resumed /\ graph.combined # <<>>

\* What is shown is what the node and the checkpoint hold of the text.
ShownFollows ==
    Running =>
      /\ Direct =>
           shown = IF Begun THEN node.joined \o Before(node.joined) \o node.units.parts ELSE node.joined
      /\ graph.at = "generate" =>
           \/ GoesOn
           \/ shown = IF Begun THEN graph.combined \o Before(graph.combined) \o node.rendered ELSE graph.combined
      /\ graph.at = "verify" =>
           GoesOn \/ shown \in {<<>>, graph.combined \o Before(graph.combined) \o Text(graph.answer)}
      /\ graph.at = "end" => GoesOn \/ shown \in {<<>>, graph.text}

\* The inductive invariant of ShownBeginsText and ShownIsGrounded.
ReplyInv == TextTypes /\ Idle /\ UnitsFit /\ ShownFollows

\* A node that begins, and the checkpoint of a new run.
LEMMA NoNodeFits ==
    /\ NoNode = [f \in NodeFields |-> NoNode[f]] /\ "none" \in DOMAIN NoNode.units
    /\ NoNode.call = NoCall /\ NoNode.joined = <<>> /\ NoNode.rendered = <<>>
  BY DEF NodeFields, NoNode, NoUnits

\* The empty line between two texts.
LEMMA BeforeTold ==
    ASSUME NEW ledger, NEW text \in Seq(Told(ledger))
    PROVE  /\ Before(text) \in Seq(Told(ledger)) /\ text \o Before(text) \in Seq(Told(ledger))
           /\ text = <<>> => Before(text) = <<>> /\ text \o Before(text) = <<>>
  <1>1. <<Separator>> \in Seq(Told(ledger))
    BY OneTold DEF Separator, Others
  <1>2. Before(text) \in Seq(Told(ledger)) /\ (text = <<>> => Before(text) = <<>>)
    BY <1>1, EmptySeq DEF Before
  <1> HIDE DEF Before, Told
  <1>3. text \o Before(text) \in Seq(Told(ledger))
    BY <1>2, ConcatProperties
  <1> QED
    BY <1>2, <1>3, ConcatEmptySeq

\* Whatever a model streams of a direct reply, and the server adds to it, tells nothing.
LEMMA DirectTold ==
    ASSUME NEW ledger, NEW kind, NEW d
    PROVE  /\ \A u \in DirectUnits(kind) : u \in Told(ledger)
           /\ DeterministicFallback(kind) \in Seq(Told(ledger))
           /\ GivenUp(kind, d) \in Seq(Told(ledger))
  <1>1. \A u \in DirectUnits(kind) : u \in OtherParts
    BY DEF DirectUnits, Part, OtherParts, Others
  <1>2. \A of \in SUBSET Missing : Part("questions", of) \in OtherParts
    BY DEF Part, OtherParts, Others
  <1>3. /\ Part("fallback", {}) \in OtherParts /\ Part("alternative", {}) \in OtherParts
        /\ Part("stopped", {}) \in OtherParts
    BY DEF Part, OtherParts, Others
  <1> HIDE DEF OtherParts
  <1>4. OtherParts \subseteq Told(ledger)
    BY DEF Told
  <1> HIDE DEF Told
  <1>5. \A p \in Told(ledger) : <<p>> \in Seq(Told(ledger))
    OBVIOUS
  <1>6. /\ <<Part("questions", Missing)>> \in Seq(Told(ledger))
        /\ <<Part("questions", Missing \ AnsweredSlots(d))>> \in Seq(Told(ledger))
    BY <1>2, <1>4, <1>5
  <1>7. /\ <<Part("fallback", {})>> \in Seq(Told(ledger)) /\ <<Part("alternative", {})>> \in Seq(Told(ledger))
        /\ <<Part("stopped", {})>> \in Seq(Told(ledger)) /\ <<>> \in Seq(Told(ledger))
    BY <1>3, <1>4, <1>5, EmptySeq
  <1>8. DeterministicFallback(kind) \in Seq(Told(ledger))
    BY <1>6, <1>7 DEF DeterministicFallback
  <1>9. SafePartialSuffix(kind, d) \in Seq(Told(ledger))
    BY <1>6, <1>7 DEF SafePartialSuffix
  <1>10. GivenUp(kind, d) \in Seq(Told(ledger))
    BY <1>8, <1>9 DEF GivenUp
  <1> QED
    BY <1>1, <1>4, <1>8, <1>10

\* A run that ends shows nothing.
LEMMA EndsFollows ==
    ASSUME ReplyInv, NEW status \in {"failed", "cancelled"}, NEW code, Ends(status, code)
    PROVE  ReplyInv'
  <1>1. /\ record'.status = status /\ record' = [f \in RecordFields |-> record'[f]]
        /\ record'.runs = record.runs /\ UNCHANGED <<request, graph>> /\ node' = NoNode /\ shown' = <<>>
    BY DEF Ends, ReplyInv, TextTypes, Shapes, RecordFields
  <1>2. TextTypes'
    BY <1>1, NoNodeFits, EmptySeq DEF ReplyInv, TextTypes, Shapes, Ground
  <1>3. Idle' /\ UnitsFit' /\ ShownFollows'
    BY <1>1, NoNodeFits DEF Idle, UnitsFit, Begun, ShownFollows, Running
  <1> QED
    BY <1>2, <1>3 DEF ReplyInv

\* A reply without evidence is whole.
LEMMA GeneratedFollows ==
    ASSUME ReplyInv, Running, Direct, NEW text \in Seq(Ground), Generated(text), UNCHANGED <<request, record>>,
           shown' = node.joined \o Before(node.joined) \o text
    PROVE  ReplyInv'
  <1> DEFINE all == node.joined \o Before(node.joined) \o text
  <1>1. /\ node.joined \in Seq(Ground) /\ Ground' = Ground /\ Before(node.joined) \in Seq(Ground)
        /\ node.joined \o Before(node.joined) \in Seq(Ground)
    BY BeforeTold DEF ReplyInv, TextTypes, Ground
  <1>2. all \in Seq(Ground)
    <2> HIDE DEF Ground
    <2> QED
      BY <1>1, ConcatProperties
  <1>3. ~Idle \/ Idle'
    BY DEF Idle, Running
  <1>4. CASE graph.at = "direct"
    <2>1. graph' = [graph EXCEPT !.at = "end", !.text = text] /\ node' = NoNode
      BY <1>4 DEF Generated
    <2>2. /\ graph'.at = "end" /\ graph'.text = text /\ graph'.combined = graph.combined
          /\ graph' = [f \in GraphFields |-> graph'[f]]
      BY <2>1 DEF ReplyInv, TextTypes, Shapes, GraphFields
    <2>3. shown' = text
      <3>1. node.joined = <<>> /\ Before(node.joined) = <<>>
        BY <1>4 DEF ReplyInv, UnitsFit, Before
      <3>2. shown' = <<>> \o <<>> \o text
        BY <3>1
      <3> QED
        BY <3>2, ConcatEmptySeq
    <2>4. TextTypes'
      BY <1>1, <2>1, <2>2, <2>3, NoNodeFits, EmptySeq DEF ReplyInv, TextTypes, Shapes
    <2>5. Idle' /\ UnitsFit' /\ ShownFollows'
      BY <2>1, <2>2, <2>3, NoNodeFits DEF Idle, UnitsFit, Begun, ShownFollows, Running, Direct
    <2> QED
      BY <2>4, <2>5 DEF ReplyInv
  <1>5. CASE graph.at = "prelude" /\ node.replies + 1 < Len(request.preludes)
    <2> HIDE DEF all
    <2>1. node' = [NoNode EXCEPT !.replies = node.replies + 1, !.joined = all] /\ UNCHANGED graph
      BY <1>5 DEF Generated, all
    <2>2. /\ node' = [f \in NodeFields |-> node'[f]] /\ node'.joined = all
          /\ node'.units = NoUnits /\ node'.call = NoCall /\ node'.rendered = <<>>
      BY <2>1 DEF NoNode, NodeFields
    <2>3. shown' = all
      BY DEF all
    <2>4. TextTypes'
      BY <1>1, <1>2, <2>1, <2>2, <2>3 DEF ReplyInv, TextTypes, Shapes
    <2>5. Idle' /\ UnitsFit' /\ ShownFollows'
      <3>1. "none" \in DOMAIN NoUnits
        BY DEF NoUnits
      <3> QED
        BY <1>5, <2>1, <2>2, <2>3, <3>1 DEF Idle, UnitsFit, Begun, ShownFollows, Running, Direct
    <2> QED
      BY <2>4, <2>5 DEF ReplyInv
  <1>6. CASE graph.at = "prelude" /\ ~(node.replies + 1 < Len(request.preludes))
    <2> HIDE DEF all
    <2>1. graph' = [graph EXCEPT !.at = "generate", !.combined = all] /\ node' = NoNode
      BY <1>6 DEF Generated, all
    <2>2. /\ graph'.at = "generate" /\ graph'.text = graph.text /\ graph'.combined = all
          /\ graph' = [f \in GraphFields |-> graph'[f]]
      BY <2>1 DEF ReplyInv, TextTypes, Shapes, GraphFields
    <2>3. shown' = all
      BY DEF all
    <2>4. TextTypes'
      BY <1>1, <1>2, <2>1, <2>2, <2>3, NoNodeFits, EmptySeq DEF ReplyInv, TextTypes, Shapes
    <2>5. Idle' /\ UnitsFit' /\ ShownFollows'
      BY <2>1, <2>2, <2>3, NoNodeFits DEF Idle, UnitsFit, Begun, ShownFollows, Running, Direct
    <2> QED
      BY <2>4, <2>5 DEF ReplyInv
  <1> QED
    BY <1>4, <1>5, <1>6 DEF Direct

\* The node goes on with its reply or its answer.
LEMMA NodeFollows ==
    ASSUME ReplyInv, Running, UNCHANGED <<request, graph, record>>, shown' \in Seq(Ground),
           node' = [f \in NodeFields |-> node'[f]], node'.joined = node.joined,
           UnitsFit', ShownFollows'
    PROVE  ReplyInv'
  BY DEF ReplyInv, TextTypes, Shapes, Ground, Idle, Running

\* A stream goes on or is followed by another one; the node keeps its units.
LEMMA CallFollows ==
    ASSUME ReplyInv, Streaming, UNCHANGED <<request, graph, shown, record>>,
           node' = [f \in NodeFields |-> node'[f]], node'.joined = node.joined,
           node'.units = node.units, node'.rendered = node.rendered
    PROVE  ReplyInv'
  <1>1. Running /\ Begun
    BY DEF ReplyInv, Streaming, UnitsFit
  <1>2. UnitsFit'
    BY <1>1 DEF ReplyInv, UnitsFit, Begun, Direct, Text, Ground
  <1>3. ShownFollows'
    BY <1>1 DEF ReplyInv, ShownFollows, Begun, Direct, Text, Before, Running, GoesOn
  <1>4. shown' \in Seq(Ground)
    BY DEF ReplyInv, TextTypes
  <1> QED
    BY <1>1, <1>2, <1>3, <1>4, NodeFollows

\* What is added behind a part of a text is added to the text.
LEMMA AddedBehind ==
    ASSUME NEW S, NEW p \in Seq(S), NEW x \in Seq(S), NEW g \in Seq(S)
    PROVE  /\ p \o x \in Seq(S) /\ x \o g \in Seq(S) /\ (p \o x) \o g \in Seq(S)
           /\ (p \o x) \o g = p \o (x \o g)
           /\ p \o <<>> = p
  BY ConcatProperties, ConcatAssociative, ConcatEmptySeq, SMTT(60)

\* A reply that is given up.
LEMMA GiveUpFollows ==
    ASSUME ReplyInv, Streaming, Direct, GiveUp
    PROVE  ReplyInv'
  <1> DEFINE parts == node.units.parts
             p == node.joined \o Before(node.joined)
             suffix == GivenUp(Kind, node.units)
  <1>1. Running /\ Begun
    BY DEF ReplyInv, Streaming, UnitsFit
  <1>2. p \in Seq(Ground)
    BY BeforeTold DEF ReplyInv, TextTypes, Ground
  <1>3. parts \in Seq(Ground) /\ shown = p \o parts
    BY <1>1 DEF ReplyInv, UnitsFit, ShownFollows
  <1>4. suffix \in Seq(Ground)
    BY DirectTold DEF Ground
  <1>5. shown' = shown \o suffix /\ Generated(parts \o suffix) /\ UNCHANGED <<request, record>>
    BY DEF GiveUp
  <1> HIDE DEF parts, p, suffix, Ground
  <1>6. parts \o suffix \in Seq(Ground) /\ shown' = p \o (parts \o suffix)
    BY <1>2, <1>3, <1>4, <1>5, AddedBehind
  <1> QED
    BY <1>1, <1>5, <1>6, GeneratedFollows DEF p

\* A stream is followed by another one.
LEMMA RetryFollows ==
    ASSUME ReplyInv, Streaming, NEW trouble, NEW left, Retry(trouble, left)
    PROVE  ReplyInv'
  <1>1. PICK next : node' = [node EXCEPT !.call = next, !.dangling = left,
                                         !.refused = @ \/ trouble = "callback_error"]
    BY DEF Retry
  <1>2. /\ node' = [f \in NodeFields |-> node'[f]] /\ node'.joined = node.joined
        /\ node'.units = node.units /\ node'.rendered = node.rendered
    BY <1>1 DEF ReplyInv, TextTypes, Shapes, NodeFields, NoNode
  <1> QED
    BY <1>2, CallFollows DEF Retry

\* A reply begins.
LEMMA BeginReplyFollows ==
    ASSUME ReplyInv, BeginReply
    PROVE  ReplyInv'
  <1> DEFINE p == node.joined \o Before(node.joined)
             text == DeterministicFallback(Kind)
  <1>1. Running /\ Direct /\ ~Begun
    BY DEF BeginReply, NoUnits, Begun
  <1>2. p \in Seq(Ground) /\ text \in Seq(Ground)
    BY BeforeTold, DirectTold DEF ReplyInv, TextTypes, Ground
  <1>3. shown = node.joined /\ shown \o Before(node.joined) = p
    BY <1>1 DEF ReplyInv, ShownFollows
  <1>4. UNCHANGED <<request, record>>
    BY DEF BeginReply
  <1>5. CASE request.demo
    <2>1. shown' = p \o text /\ Generated(text)
      BY <1>3, <1>5 DEF BeginReply
    <2> HIDE DEF text
    <2> QED
      BY <1>1, <1>2, <1>4, <2>1, GeneratedFollows
  <1>6. CASE ~request.demo
    <2>1. /\ node' = [node EXCEPT !.call = Open(1), !.units = NewDirect]
          /\ shown' = p /\ UNCHANGED graph
      BY <1>3, <1>6 DEF BeginReply
    <2>2. /\ node' = [f \in NodeFields |-> node'[f]] /\ node'.joined = node.joined
          /\ node'.units = NewDirect
      BY <2>1 DEF ReplyInv, TextTypes, Shapes, NodeFields, NoNode
    <2>3. /\ "none" \notin DOMAIN NewDirect /\ NewDirect.parts = <<>>
          /\ NewDirect = [parts |-> NewDirect.parts, done |-> NewDirect.done]
      BY DEF NewDirect
    <2>4. UnitsFit'
      <3>1. node'.units.parts \in Seq(Ground)'
        BY <2>2, <2>3, EmptySeq
      <3> QED
        BY <1>1, <1>4, <2>1, <2>2, <2>3, <3>1 DEF ReplyInv, UnitsFit, Begun, Direct
    <2>5. p \o <<>> = p
      <3> HIDE DEF p, Ground
      <3> QED
        BY <1>2, AddedBehind, EmptySeq
    <2>6. ShownFollows'
      BY <1>1, <1>4, <2>1, <2>2, <2>3, <2>5 DEF ShownFollows, Begun, Running, Direct, Before
    <2> QED
      BY <1>1, <1>2, <1>4, <2>1, <2>2, <2>4, <2>6, NodeFollows
  <1> QED
    BY <1>5, <1>6

\* A unit passes, ends the reply, or raises.
LEMMA StreamReplyFollows ==
    ASSUME ReplyInv, StreamReply
    PROVE  ReplyInv'
  <1> DEFINE p == node.joined \o Before(node.joined)
  <1>1. Streaming /\ Running /\ Direct /\ Begun
    BY DEF StreamReply, ReplyInv, Streaming, UnitsFit
  <1>2. PICK parts, done : node.units = [parts |-> parts, done |-> done]
    BY <1>1 DEF ReplyInv, UnitsFit
  <1>3. /\ p \in Seq(Ground) /\ parts \in Seq(Ground) /\ shown = p \o parts
        /\ node = [f \in NodeFields |-> node[f]]
    <2>1. p \in Seq(Ground)
      BY BeforeTold DEF ReplyInv, TextTypes, Ground
    <2>2. node.units.parts = parts
      BY <1>2
    <2>3. node.units.parts \in Seq(Ground) /\ shown = p \o node.units.parts
      BY <1>1 DEF ReplyInv, UnitsFit, ShownFollows
    <2> QED
      BY <2>1, <2>2, <2>3 DEF ReplyInv, TextTypes, Shapes
  <1>4. PICK u \in DirectUnits(Kind) : ReplyUnit(u) \/ ReplyDone(u) \/ ReplyUnitError(u)
    BY DEF StreamReply
  <1>5. u \in Ground
    BY DirectTold DEF Ground
  <1>6. CASE ReplyUnit(u)
    <2>1. /\ node' = [node EXCEPT !.call.content = TRUE, !.dangling = FALSE,
                            !.units.parts = Append(@, u), !.voices = @ \cup {Voice}]
          /\ shown' = Append(shown, u) /\ UNCHANGED <<request, graph, record>>
      BY <1>6 DEF ReplyUnit
    <2>2. /\ node' = [f \in NodeFields |-> node'[f]] /\ node'.joined = node.joined
          /\ node'.units = [node.units EXCEPT !.parts = Append(@, u)]
      BY <1>3, <2>1 DEF NodeFields, NoNode
    <2>3. node'.units = [parts |-> Append(parts, u), done |-> done]
      <3>1. \A x : [node.units EXCEPT !.parts = Append(@, x)] = [parts |-> Append(parts, x), done |-> done]
        BY <1>2, RecordUpdates
      <3> QED
        BY <2>2, <3>1, Zenon
    <2>4. /\ Append(parts, u) \in Seq(Ground) /\ Append(parts, u) = parts \o <<u>> /\ <<u>> \in Seq(Ground)
          /\ Append(shown, u) \in Seq(Ground) /\ Append(shown, u) = shown \o <<u>>
      <3>1. shown \in Seq(Ground)
        BY DEF ReplyInv, TextTypes
      <3> HIDE DEF Ground
      <3> QED
        BY <1>3, <1>5, <3>1, AppendIsBehind
    <2>5. shown' = p \o Append(parts, u)
      <3> HIDE DEF p, Ground
      <3>1. (p \o parts) \o <<u>> = p \o (parts \o <<u>>)
        BY <1>3, <2>4, AddedBehind
      <3> QED
        BY <1>3, <2>1, <2>4, <3>1
    <2>6. "none" \notin DOMAIN node'.units /\ node'.units.parts = Append(parts, u) /\ node'.units.done = done
      BY <2>3
    <2>7. UnitsFit'
      BY <1>1, <2>1, <2>2, <2>3, <2>4, <2>6 DEF ReplyInv, UnitsFit, Begun, Direct, Ground
    <2>8. ShownFollows'
      BY <1>1, <2>1, <2>2, <2>5, <2>6 DEF ShownFollows, Begun, Running, Direct, Before
    <2> QED
      BY <1>1, <2>1, <2>2, <2>4, <2>7, <2>8, NodeFollows
  <1>7. CASE ReplyDone(u)
    <2>1. /\ UNCHANGED <<request, graph, shown, record>>
          /\ node' = [node EXCEPT !.call.content = TRUE, !.dangling = FALSE, !.units.done = TRUE]
      BY <1>7 DEF ReplyDone
    <2>2. /\ node' = [f \in NodeFields |-> node'[f]] /\ node'.joined = node.joined
          /\ node'.units = [node.units EXCEPT !.done = TRUE]
      BY <1>3, <2>1 DEF NodeFields, NoNode
    <2>3. node'.units = [parts |-> parts, done |-> TRUE]
      <3>1. \A x : [node.units EXCEPT !.done = x] = [parts |-> parts, done |-> x]
        BY <1>2, RecordUpdates
      <3>2. [node.units EXCEPT !.done = TRUE] = [parts |-> parts, done |-> TRUE]
        BY <3>1, Zenon
      <3> QED
        BY <2>2, <3>2
    <2>6. "none" \notin DOMAIN node'.units /\ node'.units.parts = parts /\ node'.units.done = TRUE
      BY <2>3
    <2>7. UnitsFit'
      BY <1>1, <1>3, <2>1, <2>2, <2>3, <2>6 DEF ReplyInv, UnitsFit, Begun, Direct, Ground
    <2>8. ShownFollows'
      <3>1. shown' = p \o node'.units.parts
        BY <1>3, <2>1, <2>6
      <3> QED
        BY <1>1, <2>1, <2>2, <2>6, <3>1 DEF ShownFollows, Begun, Running, Direct, Before
    <2>9. shown' \in Seq(Ground)
      BY <2>1 DEF ReplyInv, TextTypes
    <2> QED
      BY <1>1, <2>1, <2>2, <2>7, <2>8, <2>9, NodeFollows
  <1>8. CASE ReplyUnitError(u)
    BY <1>1, <1>8, RetryFollows, GiveUpFollows DEF ReplyUnitError
  <1> QED
    BY <1>4, <1>6, <1>7, <1>8

\* The stream of a reply ends.
LEMMA EndReplyFollows ==
    ASSUME ReplyInv, EndReply
    PROVE  ReplyInv'
  <1>1. Streaming /\ Running /\ Direct /\ Begun
    BY DEF EndReply, Ended, ReplyInv, Streaming, UnitsFit
  <1>2. CASE GiveUp
    BY <1>1, <1>2, GiveUpFollows
  <1>3. CASE Generated(node.units.parts) /\ UNCHANGED <<request, shown, record>>
    <2>1. /\ node.units.parts \in Seq(Ground)
          /\ shown = node.joined \o Before(node.joined) \o node.units.parts
      BY <1>1 DEF ReplyInv, UnitsFit, ShownFollows
    <2> QED
      BY <1>1, <1>3, <2>1, GeneratedFollows
  <1> QED
    BY <1>2, <1>3 DEF EndReply

\* An answer that has yet to be said.
LEMMA NewAnswerFits ==
    ASSUME NEW ledger, NEW natural
    PROVE  /\ IsAnswer(NewAnswer, ledger) /\ InOrder(NewAnswer) /\ Rendered(NewAnswer, natural) = <<>>
           /\ "none" \notin DOMAIN NewAnswer
  <1>1. /\ NewAnswer.facts = <<>> /\ NewAnswer.hypotheses = <<>> /\ NewAnswer.unknowns = <<>>
        /\ NewAnswer.next_actions = <<>> /\ NewAnswer.confidence = FALSE /\ NewAnswer.last_order = 0
        /\ NewAnswer = [f \in DOMAIN NewAnswer |-> NewAnswer[f]] /\ "none" \notin DOMAIN NewAnswer
    BY DEF NewAnswer
  <1>2. IsAnswer(NewAnswer, ledger)
    BY <1>1, EmptySeq DEF IsAnswer
  <1>3. InOrder(NewAnswer)
    BY <1>1 DEF InOrder
  <1>4. Sureness(NewAnswer, natural) = <<>>
    BY <1>1 DEF Sureness
  <1>5. Rendered(NewAnswer, natural)
          = NewAnswer.facts \o NewAnswer.hypotheses \o NewAnswer.unknowns \o NewAnswer.next_actions
              \o Sureness(NewAnswer, natural)
    BY <1>2, RenderedTold
  <1>6. Rendered(NewAnswer, natural) = <<>> \o <<>> \o <<>> \o <<>> \o <<>>
    BY <1>1, <1>4, <1>5, Zenon
  <1>7. <<>> \in Seq(Told(ledger))
    BY EmptySeq
  <1>8. Rendered(NewAnswer, natural) = <<>>
    BY <1>6, <1>7, NothingBehind
  <1> QED
    BY <1>1, <1>2, <1>3, <1>8

\* An answer is whole.
LEMMA AnsweredFollows ==
    ASSUME ReplyInv, Running, graph.at = "generate", NEW a, IsAnswer(a, request.ledger),
           NEW growth \in Seq(Ground), Answered(a, growth),
           GoesOn \/ shown \o growth = graph.combined \o Before(graph.combined) \o Text(a)
    PROVE  ReplyInv'
  <1>1. /\ shown' = shown \o growth /\ node' = NoNode /\ UNCHANGED <<request, record>>
        /\ graph' = [graph EXCEPT !.at = "verify", !.answer = a]
    BY DEF Answered
  <1>2. /\ graph'.at = "verify" /\ graph'.answer = a /\ graph'.combined = graph.combined
        /\ graph'.text = graph.text /\ graph' = [f \in GraphFields |-> graph'[f]]
    BY <1>1 DEF ReplyInv, TextTypes, Shapes, GraphFields
  <1>3. shown' \in Seq(Ground)
    <2>1. shown \in Seq(Ground)
      BY DEF ReplyInv, TextTypes
    <2> HIDE DEF Ground
    <2> QED
      BY <1>1, <2>1, ConcatProperties
  <1>4. TextTypes'
    BY <1>1, <1>2, <1>3, NoNodeFits, EmptySeq DEF ReplyInv, TextTypes, Shapes, Ground
  <1>5. Idle' /\ UnitsFit'
    BY <1>1, <1>2, NoNodeFits DEF Idle, UnitsFit, Begun, Running, Direct
  <1>6. ShownFollows'
    BY <1>1, <1>2 DEF ShownFollows, Running, Direct, GoesOn, Text, Before
  <1> QED
    BY <1>4, <1>5, <1>6 DEF ReplyInv

\* The server answers itself, or an answer begins.
LEMMA BeginAnswerFollows ==
    ASSUME ReplyInv, BeginAnswer
    PROVE  ReplyInv'
  <1> DEFINE c == graph.combined
             b == Before(graph.combined)
             p == c \o b
  <1>1. Running /\ graph.at = "generate" /\ ~Begun
    BY DEF BeginAnswer, NoUnits, Begun
  <1>2. c \in Seq(Ground) /\ b \in Seq(Ground) /\ p \in Seq(Ground) /\ shown \in Seq(Ground)
    BY BeforeTold DEF ReplyInv, TextTypes, Ground
  <1>3. GoesOn \/ shown = c
    BY <1>1 DEF ReplyInv, ShownFollows
  <1>4. ASSUME NEW a, IsAnswer(a, request.ledger), Answered(a, Before(graph.combined) \o Text(a))
        PROVE  ReplyInv'
    <2> DEFINE t == Text(a)
    <2>1. t \in Seq(Ground)
      BY <1>4, RenderedTold DEF Text, Ground
    <2> HIDE DEF t, c, b, Ground
    <2>2. b \o t \in Seq(Ground) /\ (c \o b) \o t = c \o (b \o t)
      BY <1>2, <2>1, AddedBehind
    <2> QED
      BY <1>1, <1>3, <1>4, <2>2, AnsweredFollows DEF b, c, t
  <1>5. CASE request.ledger = {}
    <2>1. Answered(NoEvidenceAnswer, Before(graph.combined) \o Text(NoEvidenceAnswer))
      BY <1>5 DEF BeginAnswer
    <2> QED
      BY <1>4, <2>1, NoEvidenceIsAnswer
  <1>6. CASE request.ledger # {} /\ request.demo
    <2> DEFINE a == DeterministicAnswer(request.ledger)
    <2>1. Answered(a, Before(graph.combined) \o Text(a))
      BY <1>6 DEF BeginAnswer
    <2>2. IsFiniteSet(request.ledger)
      BY RequestsAssumption DEF ReplyInv, TextTypes, RequestType
    <2>3. IsAnswer(a, request.ledger)
      BY <2>2, DeterministicIsAnswer
    <2> HIDE DEF a
    <2> QED
      BY <1>4, <2>1, <2>3
  <1>7. CASE request.ledger # {} /\ ~request.demo
    <2>1. /\ shown' = shown \o b /\ UNCHANGED <<request, graph, record>>
          /\ node' = [node EXCEPT !.call = Open(1), !.units = NewAnswer]
      BY <1>7 DEF BeginAnswer
    <2>2. /\ node' = [f \in NodeFields |-> node'[f]] /\ node'.joined = node.joined
          /\ node'.units = NewAnswer /\ node'.rendered = <<>>
      BY <1>1, <2>1 DEF ReplyInv, UnitsFit, TextTypes, Shapes, NodeFields, NoNode
    <2>3. UnitsFit'
      BY <1>1, <1>7, <2>1, <2>2, NewAnswerFits DEF UnitsFit, Begun, Direct, Text
    <2>4. shown' \in Seq(Ground) /\ p \o <<>> = p
      <3> HIDE DEF p, Ground, b
      <3> QED
        BY <1>2, <2>1, AddedBehind
    <2>5. GoesOn \/ shown' = p \o <<>>
      BY <1>3, <2>1, <2>4
    <2>6. ShownFollows'
      BY <1>1, <2>1, <2>2, <2>5, NewAnswerFits DEF ShownFollows, Begun, Running, Direct, Before, GoesOn
    <2> QED
      BY <1>1, <2>1, <2>2, <2>3, <2>4, <2>6, NodeFollows
  <1> QED
    BY <1>5, <1>6, <1>7

\* What a growing text adds to what is shown.
LEMMA GrowthShown ==
    ASSUME ReplyInv, Streaming, graph.at = "generate", NEW a, IsAnswer(a, request.ledger),
           Grows(node.units, a, request.ledger, request.natural)
    PROVE  /\ Growth(a) \in Seq(Ground) /\ IsPrefix(node.rendered, Text(a)) /\ shown \o Growth(a) \in Seq(Ground)
           /\ GoesOn \/ shown \o Growth(a) = graph.combined \o Before(graph.combined) \o Text(a)
  <1> DEFINE p == graph.combined \o Before(graph.combined)
             r == node.rendered
  <1>1. Running /\ Begun
    BY DEF ReplyInv, Streaming, UnitsFit
  <1>2. IsAnswer(node.units, request.ledger) /\ r = Text(node.units) /\ (GoesOn \/ shown = p \o r)
    BY <1>1 DEF ReplyInv, UnitsFit, ShownFollows
  <1>3. p \in Seq(Ground) /\ shown \in Seq(Ground)
    BY BeforeTold DEF ReplyInv, TextTypes, Ground
  <1>4. r \in Seq(Ground)
    <2>1. Text(node.units) \in Seq(Ground)
      BY <1>2, RenderedTold DEF Text, Ground
    <2> QED
      BY <1>2, <2>1
  <1>5. PICK g \in Seq(Ground) : Text(a) = r \o g
    BY <1>2 DEF Grows, Text, Ground
  <1> HIDE DEF p, r, Ground
  <1>6. IsPrefix(r, Text(a)) /\ SubSeq(Text(a), Len(r) + 1, Len(Text(a))) = g
    BY <1>4, <1>5, TextGrows
  <1>7. Growth(a) = g
    BY <1>6 DEF Growth, r
  <1>8. shown \o g \in Seq(Ground) /\ (p \o r) \o g = p \o (r \o g)
    BY <1>3, <1>4, AddedBehind, SMTT(60)
  <1> QED
    BY <1>2, <1>5, <1>6, <1>7, <1>8 DEF p, r

\* A unit of an answer; its text always begins with that of the units before.
LEMMA StreamAnswerFollows ==
    ASSUME ReplyInv, StreamAnswer
    PROVE  ReplyInv'
  <1>1. Streaming /\ Running /\ graph.at = "generate" /\ Begun
    BY DEF StreamAnswer, ReplyInv, Streaming, UnitsFit
  <1>2. PICK u \in AnswerUnits :
          LET a == ProcessUnit(node.units, u, request.ledger, ~request.natural)
          IN  IF IsPrefix(node.rendered, Text(a)) THEN AnswerUnit(a) ELSE AnswerUnitError(a)
    BY DEF StreamAnswer
  <1> DEFINE a == ProcessUnit(node.units, u, request.ledger, ~request.natural)
  <1>3. IsAnswer(node.units, request.ledger) /\ InOrder(node.units) /\ request.ledger # {}
    BY <1>1 DEF ReplyInv, UnitsFit
  <1>4. IsAnswer(a, request.ledger) /\ InOrder(a) /\ Grows(node.units, a, request.ledger, request.natural)
    BY <1>3, ProcessGrows
  <1> HIDE DEF a
  <1>5. /\ IsPrefix(node.rendered, Text(a)) /\ shown \o Growth(a) \in Seq(Ground)
        /\ GoesOn \/ shown \o Growth(a) = graph.combined \o Before(graph.combined) \o Text(a)
    BY <1>1, <1>4, GrowthShown
  <1>6. AnswerUnit(a)
    BY <1>2, <1>5 DEF a
  <1>7. /\ node' = [node EXCEPT !.call.content = TRUE, !.dangling = FALSE, !.taken = @ + 1,
                            !.units = a, !.rendered = Text(a), !.voices = @ \cup {Voice}]
        /\ shown' = shown \o Growth(a) /\ UNCHANGED <<request, graph, record>>
    BY <1>6 DEF AnswerUnit
  <1>8. /\ node' = [f \in NodeFields |-> node'[f]] /\ node'.joined = node.joined
        /\ node'.units = a /\ node'.rendered = Text(a)
    BY <1>7 DEF ReplyInv, TextTypes, Shapes, NodeFields, NoNode
  <1>9. "none" \notin DOMAIN a
    BY <1>4, AnswerFieldNames DEF IsAnswer
  <1>10. UnitsFit'
    BY <1>1, <1>3, <1>4, <1>7, <1>8, <1>9 DEF UnitsFit, Begun, Direct, Text
  <1>11. ShownFollows'
    BY <1>1, <1>5, <1>7, <1>8, <1>9 DEF ShownFollows, Begun, Running, Direct, Before, GoesOn
  <1> QED
    BY <1>1, <1>5, <1>7, <1>8, <1>10, <1>11, NodeFollows

\* The stream of an answer ends.
LEMMA EndAnswerFollows ==
    ASSUME ReplyInv, EndAnswer
    PROVE  ReplyInv'
  <1> DEFINE a == FinishAnswer(node.units, request.ledger)
  <1>1. Streaming /\ Running /\ graph.at = "generate" /\ Begun
    BY DEF EndAnswer, Ended, ReplyInv, Streaming, UnitsFit
  <1>2. CASE Ends("failed", "verification_failed")
    BY <1>2, EndsFollows
  <1>3. CASE Answered(a, Growth(a))
    <2>1. IsAnswer(node.units, request.ledger) /\ InOrder(node.units) /\ request.ledger # {}
      BY <1>1 DEF ReplyInv, UnitsFit
    <2>2. IsAnswer(a, request.ledger) /\ Grows(node.units, a, request.ledger, request.natural)
      BY <2>1, FinishGrows
    <2> HIDE DEF a
    <2>3. /\ Growth(a) \in Seq(Ground)
          /\ GoesOn \/ shown \o Growth(a) = graph.combined \o Before(graph.combined) \o Text(a)
      BY <1>1, <2>2, GrowthShown
    <2> QED
      BY <1>1, <1>3, <2>2, <2>3, AnsweredFollows
  <1> QED
    BY <1>2, <1>3 DEF EndAnswer

\* The verification takes nothing back.
LEMMA VerifyFollows ==
    ASSUME ReplyInv, VerifyAnswer
    PROVE  ReplyInv'
  <1> DEFINE a == graph.answer
             p == graph.combined \o Before(graph.combined)
  <1>1. Running /\ graph.at = "verify" /\ IsAnswer(a, request.ledger)
    BY DEF VerifyAnswer, ReplyInv, TextTypes
  <1>2. VerifiedAnswer(a, request.ledger, request.governed) = a
    <2>1. request.governed => Of(request.ledger, "external") = {}
      BY RequestsAssumption DEF ReplyInv, TextTypes
    <2> QED
      BY <1>1, <2>1, VerifiedIsSame
  <1>3. /\ graph' = [graph EXCEPT !.at = "end", !.answer = a, !.text = p \o Text(a)]
        /\ UNCHANGED <<request, node, shown, record>>
    BY <1>2 DEF VerifyAnswer
  <1>4. p \o Text(a) \in Seq(Ground)
    <2>1. p \in Seq(Ground) /\ Text(a) \in Seq(Ground)
      BY <1>1, BeforeTold, RenderedTold DEF ReplyInv, TextTypes, Ground, Text
    <2> HIDE DEF p, Ground
    <2> QED
      BY <2>1, ConcatProperties
  <1> HIDE DEF a
  <1>5. /\ graph'.at = "end" /\ graph'.text = p \o Text(a) /\ graph'.combined = graph.combined
        /\ graph' = [f \in GraphFields |-> graph'[f]]
    BY <1>3 DEF ReplyInv, TextTypes, Shapes, GraphFields
  <1>6. GoesOn \/ shown \in {<<>>, p \o Text(a)}
    BY <1>1 DEF ReplyInv, ShownFollows, a
  <1> HIDE DEF p
  <1>7. TextTypes'
    BY <1>3, <1>4, <1>5 DEF ReplyInv, TextTypes, Shapes, Ground
  <1>8. Idle' /\ UnitsFit'
    BY <1>1, <1>3, <1>5 DEF ReplyInv, Idle, UnitsFit, Begun, Running, Direct
  <1>9. ShownFollows'
    BY <1>3, <1>5, <1>6 DEF ShownFollows, Running, Direct, GoesOn
  <1> QED
    BY <1>7, <1>8, <1>9 DEF ReplyInv

\* A checkpoint that starts afresh.
LEMMA FreshFits ==
    /\ Fresh = [f \in GraphFields |-> Fresh[f]]
    /\ Fresh.at \in {"direct", "prelude", "generate"} /\ Fresh.combined = <<>> /\ Fresh.text = <<>>
  BY DEF Fresh, GraphFields, StartAt

\* A run begins, afresh or at the node of the checkpoint.
LEMMA SendFollows ==
    ASSUME ReplyInv, Send
    PROVE  ReplyInv'
  <1>1. /\ record.status \in {"accepted", "failed", "cancelled"}
        /\ record' = [record EXCEPT !.status = "running", !.code = "none", !.runs = @ + 1]
        /\ UNCHANGED <<request, node, shown>>
    BY DEF Send
  <1>2. node = NoNode /\ shown = <<>> /\ record.runs \in Nat
    BY <1>1 DEF ReplyInv, Idle, TextTypes
  <1>3. /\ record' = [f \in RecordFields |-> record'[f]] /\ record'.status = "running"
        /\ record'.runs = record.runs + 1
    BY <1>1 DEF ReplyInv, TextTypes, Shapes, RecordFields
  <1>4. ~Begun /\ ~Begun'
    BY <1>1, <1>2, NoNodeFits DEF Begun
  <1>5. CASE request.resumed /\ record.runs > 0 /\ graph' = graph
    <2>1. record'.runs \in Nat /\ record'.runs > 1
      BY <1>2, <1>3, <1>5
    <2>2. TextTypes' /\ Idle' /\ UnitsFit'
      BY <1>1, <1>3, <1>4, <1>5, <2>1 DEF ReplyInv, TextTypes, Shapes, Ground, Idle, UnitsFit, Direct
    <2>3. ShownFollows'
      BY <1>1, <1>2, <1>4, <1>5, <2>1, NoNodeFits DEF ShownFollows, Direct, GoesOn
    <2> QED
      BY <2>2, <2>3 DEF ReplyInv
  <1>6. CASE graph' = Fresh
    <2>1. record'.runs \in Nat
      BY <1>2, <1>3
    <2>2. TextTypes'
      BY <1>1, <1>2, <1>3, <1>6, <2>1, NoNodeFits, FreshFits, EmptySeq DEF ReplyInv, TextTypes, Shapes, Ground
    <2>3. Idle' /\ UnitsFit'
      BY <1>1, <1>2, <1>3, <1>4, <1>6, NoNodeFits DEF ReplyInv, Idle, UnitsFit, Direct
    <2>4. ShownFollows'
      BY <1>1, <1>2, <1>4, <1>6, NoNodeFits, FreshFits DEF ShownFollows, Direct
    <2> QED
      BY <2>2, <2>3, <2>4 DEF ReplyInv
  <1> QED
    BY <1>5, <1>6 DEF Send

\* The message is stored, or the run ends.
LEMMA FinalizeFollows ==
    ASSUME ReplyInv, Finalize
    PROVE  ReplyInv'
  <1>1. CASE Ends("failed", "verification_failed")
    BY <1>1, EndsFollows
  <1>2. CASE /\ shown' = graph.text
             /\ record' = [record EXCEPT !.status = "completed", !.stored = graph.text]
             /\ UNCHANGED <<request, graph, node>>
    <2>1. /\ record' = [f \in RecordFields |-> record'[f]] /\ record'.status = "completed"
          /\ record'.runs = record.runs
      BY <1>2 DEF ReplyInv, TextTypes, Shapes, RecordFields
    <2>2. TextTypes'
      BY <1>2, <2>1 DEF ReplyInv, TextTypes, Shapes, Ground
    <2>3. UnitsFit'
      BY <1>2 DEF ReplyInv, UnitsFit, Begun, Direct, Text, Ground
    <2>4. Idle' /\ ShownFollows'
      BY <2>1 DEF Idle, ShownFollows, Running
    <2> QED
      BY <2>2, <2>3, <2>4 DEF ReplyInv
  <1> QED
    BY <1>1, <1>2 DEF Finalize

\* Every step keeps the invariant.
LEMMA ReplyStep == ReplyInv /\ [Next]_vars => ReplyInv'
  <1> SUFFICES ASSUME ReplyInv, [Next]_vars PROVE ReplyInv'
    OBVIOUS
  <1>1. CASE UNCHANGED vars
    <2>1. TextTypes' /\ Idle'
      BY <1>1 DEF vars, ReplyInv, TextTypes, Shapes, Ground, Idle
    <2>2. UnitsFit'
      BY <1>1 DEF vars, ReplyInv, UnitsFit, Begun, Direct, Text, Ground
    <2>3. ShownFollows'
      BY <1>1 DEF vars, ReplyInv, ShownFollows, Begun, Direct, Text, Before, Running, GoesOn
    <2> QED
      BY <2>1, <2>2, <2>3 DEF ReplyInv
  <1>2. CASE Cancel
    BY <1>2, EndsFollows DEF Cancel
  <1>3. CASE StreamFragment
    <2>1. /\ node' = [node EXCEPT !.call.content = TRUE, !.dangling = TRUE]
          /\ Streaming /\ UNCHANGED <<request, graph, shown, record>>
      BY <1>3 DEF StreamFragment
    <2>2. /\ node' = [f \in NodeFields |-> node'[f]] /\ node'.joined = node.joined
          /\ node'.units = node.units /\ node'.rendered = node.rendered
      BY <2>1 DEF ReplyInv, TextTypes, Shapes, NodeFields, NoNode
    <2> QED
      BY <2>1, <2>2, CallFollows
  <1>4. CASE ReplyTrouble
    BY <1>4, RetryFollows, GiveUpFollows DEF ReplyTrouble
  <1>5. CASE AnswerTrouble
    BY <1>5, RetryFollows, EndsFollows DEF AnswerTrouble
  <1> QED
    BY <1>1, <1>2, <1>3, <1>4, <1>5, SendFollows, BeginReplyFollows, StreamReplyFollows, EndReplyFollows,
       BeginAnswerFollows, StreamAnswerFollows, EndAnswerFollows, VerifyFollows, FinalizeFollows
       DEF Next, Step, Rest

\* The invariant holds at the start.
LEMMA ReplyStarts == Init => ReplyInv
  <1> SUFFICES ASSUME Init PROVE ReplyInv
    OBVIOUS
  <1>1. record = [f \in RecordFields |-> record[f]] /\ record.runs = 0 /\ record.status = "accepted"
    BY DEF Init, RecordFields
  <1>2. TextTypes
    BY <1>1, NoNodeFits, FreshFits, EmptySeq DEF Init, TextTypes, Shapes
  <1>3. Idle /\ UnitsFit /\ ShownFollows
    BY <1>1, NoNodeFits, FreshFits DEF Init, Idle, UnitsFit, Begun, ShownFollows, Running
  <1> QED
    BY <1>2, <1>3 DEF ReplyInv

\* Whatever a model streams and wherever its streams break off, what a run has shown begins
\* the text that it is to store, so that no message is refused for it (stream_message of
\* service.py), unless the run goes on behind replies that an earlier one has shown.
THEOREM ShownAlwaysBeginsText == Spec => []ShownBeginsText
  <1>1. ReplyInv => ShownBeginsText
    <2> SUFFICES ASSUME ReplyInv, Running, graph.at = "end", ~GoesOn
                 PROVE  IsPrefix(shown, graph.text)
      BY DEF ShownBeginsText, GoesOn
    <2>1. shown \in {<<>>, graph.text} /\ graph.text \in Seq(Ground)
      BY DEF ReplyInv, ShownFollows, TextTypes
    <2>2. ASSUME NEW S, NEW t \in Seq(S)
          PROVE  IsPrefix(<<>>, t) /\ IsPrefix(t, t)
      <3>1. <<>> \in Seq(S) /\ <<>> \o t = t /\ t \o <<>> = t
        BY ConcatEmptySeq, EmptySeq
      <3>2. IsPrefix(<<>>, <<>> \o t)
        BY <3>1, TextGrows
      <3>3. IsPrefix(t, t \o <<>>)
        BY <3>1, TextGrows
      <3> QED
        BY <3>1, <3>2, <3>3
    <2> QED
      BY <2>1, <2>2
  <1> QED
    BY <1>1, ReplyStarts, ReplyStep, PTL DEF Spec

\* Whatever a model cites, what is told as a fact rests on evidence of the ledger, and a
\* hypothesis on no other, from the moment a user sees it (_validated_claim of streaming_answer.py).
THEOREM ShownAlwaysGrounded == Spec => []ShownIsGrounded
  <1>1. ReplyInv => ShownIsGrounded
    <2> SUFFICES ASSUME ReplyInv, NEW i \in DOMAIN shown
                 PROVE  /\ shown[i].part = "fact" => shown[i].of # {}
                        /\ shown[i].part \in {"fact", "hypothesis"} => shown[i].of \subseteq Ids(request.ledger)
      BY DEF ShownIsGrounded
    <2>1. shown[i] \in Ground
      <3>1. shown \in Seq(Ground)
        BY DEF ReplyInv, TextTypes
      <3> HIDE DEF Ground
      <3> QED
        BY <3>1, ElementOfSeq
    <2> QED
      BY <2>1 DEF Ground, Told, OtherParts, Others, FactParts, HypothesisParts
  <1> QED
    BY <1>1, ReplyStarts, ReplyStep, PTL DEF Spec

-----------------------------------------------------------------------------
(* The audit of the attempts of a call                                    *)

\* The clients of providers on their own, without fairness.
ClientsSpec == ClientsInit /\ [][ClientsStep]_clientVars

\* How a request ends.
Results == Failures \cup {"none"}

\* An entry of the audit.
Entry ==
    [round : Nat, attempt : Nat, outcome : {"retrying", "failed", "succeeded"}, failure : Results]

\* A request that was sent.
SentEntry == [round : Nat, attempt : Nat, result : Results]

\* What is known of a call.
CallRecord ==
    [pc : {"idle", "calling", "returned", "done"}, round : Nat, tried : Seq(Entry),
     log : Seq(Entry), sent : Seq(SentEntry), polls : Nat, told : Seq(Entry),
     overtaken : BOOLEAN, answered : BOOLEAN]

\* The entry that tells of a request.
TellsOf(s, outcome) ==
    [round |-> s.round, attempt |-> s.attempt, outcome |-> outcome, failure |-> s.result]

\* The outcome of the i-th of n requests.
OutcomeIn(sent, i, n) ==
    IF sent[i].result = "none" THEN "succeeded"
    ELSE IF i < n /\ sent[i + 1].round = sent[i].round THEN "retrying"
    ELSE "failed"

\* The log tells of the first requests.
LogStands(log, sent) ==
    \A i \in 1 .. Len(log) : log[i] = TellsOf(sent[i], OutcomeIn(sent, i, Len(log)))

\* The round at work tells of the requests behind the first n.
RoundStands(tried, n, sent, round) ==
    \A i \in 1 .. Len(tried) :
        /\ tried[i] = TellsOf(sent[n + i], "retrying")
        /\ sent[n + i].round = round
        /\ sent[n + i].result # "none"

\* A request whose failure ended its round is of an earlier round than this one.
RoundsBefore(n, sent, round) ==
    n > 0 => /\ sent[n].round <= round
             /\ sent[n].result # "none" => sent[n].round < round

\* The log and the round at work together tell of all requests.  The entries of a
\* round say retrying while it is at work, so the account of the requests so far is
\* not what the audit holds: the invariant splits them where the round began.
SoFar(log, tried, sent, round) ==
    /\ Len(sent) = Len(log) + Len(tried)
    /\ LogStands(log, sent)
    /\ RoundStands(tried, Len(log), sent, round)
    /\ RoundsBefore(Len(log), sent, round)

\* A log that tells of all requests is their account.
LEMMA LogIsAccount ==
    ASSUME NEW log \in Seq(Entry), NEW sent \in Seq(SentEntry),
           Len(sent) = Len(log), LogStands(log, sent)
    PROVE  log = Account(sent)
  <1>1. DOMAIN log = 1 .. Len(log) /\ DOMAIN sent = 1 .. Len(log)
    OBVIOUS
  <1>2. log = [i \in 1 .. Len(log) |-> log[i]]
    OBVIOUS
  <1>3. Account(sent) = [i \in 1 .. Len(log) |-> TellsOf(sent[i], OutcomeIn(sent, i, Len(log)))]
    BY <1>1 DEF Account, TellsOf, OutcomeIn
  <1> QED
    BY <1>2, <1>3 DEF LogStands

\* A request is sent once more.
LEMMA OnceMore ==
    ASSUME NEW log \in Seq(Entry), NEW tried \in Seq(Entry), NEW sent \in Seq(SentEntry),
           NEW round \in Nat, SoFar(log, tried, sent, round),
           NEW s \in SentEntry, s.round = round, s.result # "none"
    PROVE  SoFar(log, Append(tried, TellsOf(s, "retrying")), Append(sent, s), round)
  <1> DEFINE more == Append(tried, TellsOf(s, "retrying"))
             told == Append(sent, s)
             n == Len(log)
             m == Len(tried)
  <1>1. /\ n \in Nat /\ m \in Nat /\ Len(sent) = n + m
        /\ Len(more) = m + 1 /\ Len(told) = n + m + 1
        /\ \A i \in 1 .. m : more[i] = tried[i]
        /\ more[m + 1] = TellsOf(s, "retrying")
        /\ \A i \in 1 .. n + m : told[i] = sent[i]
        /\ told[n + m + 1] = s
    BY DEF SoFar
  <1> HIDE DEF more, told
  <1>2. LogStands(log, told)
    <2> SUFFICES ASSUME NEW i \in 1 .. n
                 PROVE  log[i] = TellsOf(told[i], OutcomeIn(told, i, n))
      BY DEF LogStands
    <2>1. told[i] = sent[i] /\ (i < n => told[i + 1] = sent[i + 1])
      BY <1>1
    <2> QED
      BY <2>1 DEF SoFar, LogStands, OutcomeIn
  <1>3. RoundStands(more, n, told, round)
    <2> SUFFICES ASSUME NEW i \in 1 .. m + 1
                 PROVE  /\ more[i] = TellsOf(told[n + i], "retrying")
                        /\ told[n + i].round = round /\ told[n + i].result # "none"
      BY <1>1 DEF RoundStands
    <2>1. CASE i \in 1 .. m
      <3>1. more[i] = tried[i] /\ told[n + i] = sent[n + i]
        BY <1>1, <2>1
      <3> QED
        BY <2>1, <3>1 DEF SoFar, RoundStands
    <2>2. CASE i = m + 1
      BY <1>1, <2>2
    <2> QED
      BY <2>1, <2>2, <1>1
  <1>4. RoundsBefore(n, told, round)
    BY <1>1 DEF SoFar, RoundsBefore
  <1> QED
    BY <1>1, <1>2, <1>3, <1>4 DEF SoFar, more, told

\* A round ends with an answer, or with a failure that is not retried.
LEMMA RoundEnds ==
    ASSUME NEW log \in Seq(Entry), NEW tried \in Seq(Entry), NEW sent \in Seq(SentEntry),
           NEW round \in Nat, SoFar(log, tried, sent, round),
           NEW s \in SentEntry, s.round = round,
           NEW outcome, outcome = IF s.result = "none" THEN "succeeded" ELSE "failed"
    PROVE  LET all == log \o Append(tried, TellsOf(s, outcome))
               told == Append(sent, s)
           IN  /\ Len(told) = Len(all) /\ Len(all) > 0 /\ told[Len(all)] = s
               /\ LogStands(all, told)
  <1> DEFINE more == Append(tried, TellsOf(s, outcome))
             all == log \o more
             told == Append(sent, s)
             n == Len(log)
             m == Len(tried)
  <1>0. TellsOf(s, outcome) \in Entry
    BY DEF TellsOf, Entry, SentEntry
  <1>1. /\ n \in Nat /\ m \in Nat /\ Len(sent) = n + m
        /\ more \in Seq(Entry) /\ Len(more) = m + 1
        /\ \A i \in 1 .. m : more[i] = tried[i]
        /\ more[m + 1] = TellsOf(s, outcome)
        /\ Len(told) = n + m + 1
        /\ \A i \in 1 .. n + m : told[i] = sent[i]
        /\ told[n + m + 1] = s
    BY <1>0 DEF SoFar
  <1> HIDE DEF more, told
  <1>2. /\ Len(all) = n + m + 1
        /\ \A i \in 1 .. n : all[i] = log[i]
        /\ \A i \in 1 .. m + 1 : all[n + i] = more[i]
    <2>1. /\ Len(all) = Len(log) + Len(more)
          /\ \A i \in 1 .. Len(log) + Len(more) :
                all[i] = IF i <= Len(log) THEN log[i] ELSE more[i - Len(log)]
      BY <1>1, ConcatProperties
    <2> HIDE DEF all
    <2>2. ASSUME NEW i \in 1 .. m + 1 PROVE all[n + i] = more[i]
      <3>1. n + i \in 1 .. Len(log) + Len(more) /\ ~(n + i <= n) /\ n + i - n = i
        BY <1>1
      <3> QED
        BY <2>1, <3>1
    <2>3. ASSUME NEW i \in 1 .. n PROVE all[i] = log[i]
      <3>1. i \in 1 .. Len(log) + Len(more) /\ i <= n
        BY <1>1
      <3> QED
        BY <2>1, <3>1
    <2> QED
      BY <1>1, <2>1, <2>2, <2>3
  <1> HIDE DEF all
  <1>3. ASSUME NEW i \in 1 .. n + m + 1
        PROVE  all[i] = TellsOf(told[i], OutcomeIn(told, i, n + m + 1))
    <2>1. CASE i \in 1 .. n
      <3>1. all[i] = log[i] /\ told[i] = sent[i]
        BY <1>1, <1>2, <2>1
      <3>2. log[i] = TellsOf(sent[i], OutcomeIn(sent, i, n))
        BY <2>1 DEF SoFar, LogStands
      <3>3. OutcomeIn(sent, i, n) = OutcomeIn(told, i, n + m + 1)
        <4>1. CASE i < n
          <5>1. told[i + 1] = sent[i + 1] /\ i < n + m + 1
            BY <1>1, <4>1
          <5> QED
            BY <3>1, <4>1, <5>1 DEF OutcomeIn
        <4>2. CASE i = n
          <5>1. told[n + 1].round = round
            <6>1. CASE m = 0
              BY <1>1, <6>1
            <6>2. CASE m > 0
              <7>1. n + 1 \in 1 .. n + m /\ 1 \in 1 .. m
                BY <1>1, <6>2
              <7>2. told[n + 1] = sent[n + 1]
                BY <1>1, <7>1
              <7> QED
                BY <7>1, <7>2 DEF SoFar, RoundStands
            <6> QED
              BY <1>1, <6>1, <6>2
          <5>2. sent[n].result # "none" => sent[n].round < round
            BY <2>1, <4>2 DEF SoFar, RoundsBefore
          <5>3. sent[n].round \in Nat
            <6>1. n \in 1 .. Len(sent)
              BY <1>1, <2>1, <4>2
            <6>2. sent[n] \in SentEntry
              BY <6>1
            <6> QED
              BY <6>2 DEF SentEntry
          <5> QED
            BY <1>1, <3>1, <4>2, <5>1, <5>2, <5>3 DEF OutcomeIn
        <4> QED
          BY <1>1, <2>1, <4>1, <4>2
      <3> QED
        BY <3>1, <3>2, <3>3
    <2>2. CASE i \in n + 1 .. n + m
      <3>0. i - n \in 1 .. m /\ i = n + (i - n)
        BY <1>1, <2>2
      <3>1. PICK j \in 1 .. m : i = n + j
        BY <3>0
      <3>2. all[i] = tried[j] /\ told[i] = sent[n + j]
        BY <1>1, <1>2, <3>1
      <3>3. /\ tried[j] = TellsOf(sent[n + j], "retrying")
            /\ sent[n + j].round = round /\ sent[n + j].result # "none"
        BY DEF SoFar, RoundStands
      <3>4. i < n + m + 1 /\ told[i + 1].round = round
        <4>1. CASE j = m
          BY <1>1, <3>1, <4>1
        <4>2. CASE j < m
          <5>0. j + 1 \in 1 .. m /\ i + 1 \in 1 .. n + m /\ i + 1 = n + (j + 1)
            BY <1>1, <3>1, <4>2
          <5>1. told[i + 1] = sent[n + (j + 1)] /\ j + 1 \in 1 .. m
            BY <1>1, <5>0
          <5> QED
            BY <1>1, <3>1, <5>1 DEF SoFar, RoundStands
        <4> QED
          BY <1>1, <4>1, <4>2
      <3> QED
        BY <3>2, <3>3, <3>4 DEF OutcomeIn
    <2>3. CASE i = n + m + 1
      <3>1. all[i] = TellsOf(s, outcome) /\ told[i] = s
        BY <1>1, <1>2, <2>3
      <3> QED
        BY <1>1, <2>3, <3>1 DEF OutcomeIn
    <2> QED
      BY <1>1, <2>1, <2>2, <2>3
  <1>4. LogStands(all, told)
    BY <1>2, <1>3 DEF LogStands
  <1>5. Len(told) = Len(all) /\ Len(all) > 0 /\ told[Len(all)] = s
    BY <1>1, <1>2
  <1> QED
    BY <1>4, <1>5 DEF all, more, told

\* What the audit holds at each moment of a call.
CallStands(c) ==
    /\ call[c].pc = "idle" => call[c] = IdleCall
    /\ call[c].pc = "calling" => SoFar(call[c].log, call[c].tried, call[c].sent, call[c].round)
    /\ call[c].pc \in {"returned", "done"} => call[c].log = Account(call[c].sent)
    /\ call[c].pc = "returned" => client \in Threaded /\ (~call[c].overtaken => last = call[c].log)
    /\ call[c].pc = "done" /\ ~call[c].overtaken => call[c].told = call[c].log

\* Clients and calls have their shapes.
AuditTypes ==
    /\ client \in Clients
    /\ last \in Seq(Entry)
    /\ call \in [Callers -> CallRecord]

\* The inductive invariant.
AuditInv == AuditTypes /\ \A c \in Callers : CallStands(c)

\* A call that has not begun.
LEMMA IdleTyped ==
    IdleCall \in CallRecord /\ SoFar(<<>>, <<>>, <<>>, 1) /\ <<>> \in Seq(Entry)
  BY DEF IdleCall, CallRecord, SoFar, LogStands, RoundStands, RoundsBefore

\* Other calls are overtaken, and nothing else of them changes.
LEMMA Overtaken ==
    ASSUME NEW calls \in [Callers -> CallRecord], NEW c \in Callers
    PROVE  /\ Overtake(calls, c) \in [Callers -> CallRecord]
           /\ Overtake(calls, c)[c] = calls[c]
           /\ \A d \in Callers : d # c =>
                 \/ calls[d].pc # "returned" /\ Overtake(calls, c)[d] = calls[d]
                 \/ /\ calls[d].pc = "returned"
                    /\ Overtake(calls, c)[d] = [calls[d] EXCEPT !.overtaken = TRUE]
  BY DEF Overtake, CallRecord

\* The other calls stand when one begins or ends.
LEMMA OthersStand ==
    ASSUME AuditInv, NEW c \in Callers, NEW calls \in [Callers -> CallRecord],
           \A d \in Callers : d # c => calls[d] = call[d],
           call' = Overtake(calls, c), UNCHANGED client
    PROVE  \A d \in Callers : d # c => CallStands(d)'
  <1> SUFFICES ASSUME NEW d \in Callers, d # c PROVE CallStands(d)'
    OBVIOUS
  <1>1. CallStands(d) /\ call[d] \in CallRecord
    BY DEF AuditInv, AuditTypes
  <1>0. calls[d] = call[d] /\ call'[d] = Overtake(calls, c)[d]
    OBVIOUS
  <1> DEFINE e == Overtake(calls, c)[d]
  <1>4. \/ calls[d].pc # "returned" /\ e = calls[d]
        \/ calls[d].pc = "returned" /\ e = [calls[d] EXCEPT !.overtaken = TRUE]
    BY DEF Overtake
  <1> HIDE DEF e
  <1>2. CASE call[d].pc # "returned"
    <2>1. call'[d] = call[d]
      BY <1>0, <1>2, <1>4 DEF e
    <2> QED
      BY <1>1, <1>2, <2>1 DEF CallStands
  <1>3. CASE call[d].pc = "returned"
    <2>1. call'[d] = [call[d] EXCEPT !.overtaken = TRUE]
      BY <1>0, <1>3, <1>4 DEF e
    <2>2. /\ call'[d].pc = "returned" /\ call'[d].overtaken = TRUE
          /\ call'[d].log = call[d].log /\ call'[d].sent = call[d].sent
      BY <1>1, <1>3, <2>1 DEF CallRecord
    <2> QED
      BY <1>1, <1>3, <2>2 DEF CallStands
  <1> QED
    BY <1>2, <1>3

\* A call ends with the account of its requests.
LEMMA ReturnStands ==
    ASSUME AuditInv, NEW c \in Callers, call[c].pc = "calling", UNCHANGED client,
           NEW log \in Seq(Entry), NEW sent \in Seq(SentEntry), NEW answered \in BOOLEAN,
           log = Account(sent), Return(c, log, sent, answered)
    PROVE  AuditInv'
  <1> DEFINE later == ReadsLater(answered)
             back == [call[c] EXCEPT !.pc = IF later THEN "returned" ELSE "done", !.log = log,
                                     !.sent = sent, !.tried = <<>>, !.answered = answered,
                                     !.told = IF later THEN call[c].told ELSE log]
             calls == [call EXCEPT ![c] = back]
  <1>1. call[c] \in CallRecord /\ <<>> \in Seq(Entry)
    BY IdleTyped DEF AuditInv, AuditTypes
  <1>2. last' = log /\ call' = Overtake(calls, c)
    BY DEF Return
  <1>3. /\ back \in CallRecord /\ back.log = log /\ back.sent = sent
        /\ back.pc = (IF later THEN "returned" ELSE "done")
        /\ ~later => back.told = log
    BY <1>1 DEF CallRecord
  <1>4. later => client \in Threaded
    BY DEF ReadsLater
  <1> HIDE DEF later, back
  <1>5. /\ calls \in [Callers -> CallRecord] /\ calls[c] = back
        /\ \A d \in Callers : d # c => calls[d] = call[d]
    BY <1>3 DEF AuditInv, AuditTypes
  <1> HIDE DEF calls
  <1>6. call' \in [Callers -> CallRecord] /\ call'[c] = back
    BY <1>2, <1>5, Overtaken
  <1>7. \A d \in Callers : d # c => CallStands(d)'
    BY <1>2, <1>5, OthersStand
  <1>8. CallStands(c)'
    BY <1>2, <1>3, <1>4, <1>6 DEF CallStands
  <1>9. AuditTypes'
    BY <1>2, <1>6 DEF AuditInv, AuditTypes
  <1> QED
    BY <1>7, <1>8, <1>9 DEF AuditInv

\* A call goes on with another round.
LEMMA NextRoundStands ==
    ASSUME AuditInv, NEW c \in Callers, call[c].pc = "calling", UNCHANGED client,
           NEW log \in Seq(Entry), NEW sent \in Seq(SentEntry), NEW round \in Nat,
           SoFar(log, <<>>, sent, round), NextRound(c, round, log, sent)
    PROVE  AuditInv'
  <1>1. call[c] \in CallRecord /\ <<>> \in Seq(Entry) /\ call \in [Callers -> CallRecord]
    BY IdleTyped DEF AuditInv, AuditTypes
  <1>2. PICK polls \in Nat : call' = [call EXCEPT ![c] =
            [@ EXCEPT !.round = round, !.tried = <<>>, !.log = log, !.sent = sent, !.polls = polls]]
    <2> DEFINE polls == IF round = call[c].round THEN call[c].polls + 1 ELSE call[c].polls
    <2>1. polls \in Nat
      BY <1>1 DEF CallRecord
    <2>2. call' = [call EXCEPT ![c] =
            [@ EXCEPT !.round = round, !.tried = <<>>, !.log = log, !.sent = sent, !.polls = polls]]
      BY <1>1 DEF NextRound
    <2> QED
      BY <2>1, <2>2
  <1>3. /\ call'[c] \in CallRecord /\ call'[c].pc = "calling"
        /\ call'[c].round = round /\ call'[c].tried = <<>>
        /\ call'[c].log = log /\ call'[c].sent = sent
    BY <1>1, <1>2 DEF CallRecord
  <1>4. call' \in [Callers -> CallRecord] /\ \A d \in Callers : d # c => call'[d] = call[d]
    BY <1>1, <1>2, <1>3
  <1>5. last' \in Seq(Entry) /\ (client \in Threaded => last' = last)
    BY DEF NextRound, AuditInv, AuditTypes, Threaded
  <1>6. CallStands(c)'
    BY <1>3 DEF CallStands
  <1>7. ASSUME NEW d \in Callers, d # c PROVE CallStands(d)'
    BY <1>4, <1>5, <1>7 DEF AuditInv, CallStands
  <1> QED
    BY <1>4, <1>5, <1>6, <1>7 DEF AuditInv, AuditTypes

\* Another round begins with nothing tried.
LEMMA RoundBegins ==
    ASSUME NEW log \in Seq(Entry), NEW sent \in Seq(SentEntry), NEW round \in Nat, NEW next \in Nat,
           Len(sent) = Len(log), LogStands(log, sent),
           Len(log) > 0 => /\ sent[Len(log)].round <= round
                           /\ sent[Len(log)].result # "none" => sent[Len(log)].round < next,
           round <= next
    PROVE  SoFar(log, <<>>, sent, next)
  <1>1. Len(log) > 0 => sent[Len(log)].round \in Nat
    <2> SUFFICES ASSUME Len(log) > 0 PROVE sent[Len(log)] \in SentEntry
      BY DEF SentEntry
    <2>1. Len(log) \in 1 .. Len(sent)
      OBVIOUS
    <2> QED
      BY <2>1
  <1> QED
    BY <1>1 DEF SoFar, RoundStands, RoundsBefore

\* A request that fails does not end with none.
LEMMA FailureTyped ==
    ASSUME NEW round, NEW failure \in FailuresOf(round), client \in Clients
    PROVE  failure \in Results /\ failure # "none"
  <1>1. failure \in Failures
    BY DEF FailuresOf, CompletionFailures, HydeFailures, ProbeFailures, EncodingFailures,
           RerankFailures, VisionFailures, WebFailures, PdfFailures, HttpFailures, InvalidAnswer,
           Clients, Completing, Threaded, Alone
  <1> QED
    BY <1>1, FailuresAssumption DEF Results, Retryable

\* What the client holds at a call that is under way.
LEMMA CallKnows ==
    ASSUME AuditInv, NEW c \in Callers, Calling(c)
    PROVE  /\ call[c].pc = "calling" /\ UNCHANGED client
           /\ call[c].log \in Seq(Entry) /\ call[c].tried \in Seq(Entry)
           /\ call[c].sent \in Seq(SentEntry) /\ call[c].round \in Nat
           /\ SoFar(call[c].log, call[c].tried, call[c].sent, call[c].round)
  BY DEF AuditInv, AuditTypes, CallStands, Calling, CallRecord

\* An attempt tells of the request it has sent.
LEMMA AttemptTold ==
    ASSUME AuditInv, NEW c \in Callers, Calling(c), NEW result \in Results, NEW outcome,
           outcome \in {"retrying", "failed", "succeeded"}
    PROVE  /\ Sent(c, result) \in SentEntry
           /\ Sent(c, result).round = call[c].round /\ Sent(c, result).result = result
           /\ Attempt(c, outcome, result) = TellsOf(Sent(c, result), outcome)
           /\ Attempt(c, outcome, result) \in Entry
  BY CallKnows DEF Sent, SentEntry, Attempt, TellsOf, Entry

\* A provider is passed over.
LEMMA MisconfiguredStands ==
    ASSUME AuditInv, NEW c \in Callers, Misconfigured(c)
    PROVE  AuditInv'
  <1>1. Calling(c) /\ call[c].tried = <<>>
    BY DEF Misconfigured
  <1> DEFINE log == call[c].log
             sent == call[c].sent
             round == call[c].round
  <1>2. /\ log \in Seq(Entry) /\ sent \in Seq(SentEntry) /\ round \in Nat
        /\ SoFar(log, <<>>, sent, round)
        /\ call[c].pc = "calling" /\ UNCHANGED client
    BY <1>1, CallKnows
  <1>3. NextRound(c, round + 1, log, sent) \/ Return(c, log, sent, FALSE)
    BY DEF Misconfigured
  <1> HIDE DEF log, sent, round
  <1>4. Len(sent) = Len(log) /\ LogStands(log, sent) /\ RoundsBefore(Len(log), sent, round)
    BY <1>2 DEF SoFar
  <1>5. CASE NextRound(c, round + 1, log, sent)
    <2>1. Len(log) > 0 => sent[Len(log)].round \in Nat
      <3> SUFFICES ASSUME Len(log) > 0 PROVE sent[Len(log)] \in SentEntry
        BY DEF SentEntry
      <3>1. Len(log) \in 1 .. Len(sent)
        BY <1>2, <1>4
      <3> QED
        BY <1>2, <3>1
    <2>2. SoFar(log, <<>>, sent, round + 1)
      BY <1>2, <1>4, <2>1, RoundBegins DEF RoundsBefore
    <2> QED
      BY <1>2, <1>5, <2>2, NextRoundStands
  <1>6. CASE Return(c, log, sent, FALSE)
    <2>1. log = Account(sent)
      BY <1>2, <1>4, LogIsAccount
    <2> QED
      BY <1>2, <1>6, <2>1, ReturnStands
  <1> QED
    BY <1>3, <1>5, <1>6

\* The time for a PDF has passed.
LEMMA TimeIsUpStands ==
    ASSUME AuditInv, NEW c \in Callers, TimeIsUp(c)
    PROVE  AuditInv'
  <1>1. Calling(c) /\ call[c].tried = <<>> /\ Return(c, call[c].log, call[c].sent, FALSE)
    BY DEF TimeIsUp
  <1>2. Len(call[c].sent) = Len(call[c].log) /\ LogStands(call[c].log, call[c].sent)
    <2>1. SoFar(call[c].log, <<>>, call[c].sent, call[c].round) /\ call[c].log \in Seq(Entry)
      BY <1>1, CallKnows
    <2> QED
      BY <2>1 DEF SoFar
  <1>3. call[c].log = Account(call[c].sent)
    BY <1>1, <1>2, CallKnows, LogIsAccount
  <1> QED
    BY <1>1, <1>3, CallKnows, ReturnStands

\* A request is repeated.
LEMMA RetriedStands ==
    ASSUME AuditInv, NEW c \in Callers, RequestRetried(c)
    PROVE  AuditInv'
  <1>1. Calling(c) /\ UNCHANGED last
    BY DEF RequestRetried
  <1>2. PICK failure \in FailuresOf(call[c].round) :
            call' = [call EXCEPT ![c].tried = Append(@, Attempt(c, "retrying", failure)),
                                 ![c].sent = Append(@, Sent(c, failure))]
    BY DEF RequestRetried
  <1> DEFINE s == Sent(c, failure)
             e == Attempt(c, "retrying", failure)
             tried == Append(call[c].tried, e)
             sent == Append(call[c].sent, s)
  <1>3. client \in Clients /\ call[c] \in CallRecord /\ call \in [Callers -> CallRecord]
    BY DEF AuditInv, AuditTypes
  <1>4. failure \in Results /\ failure # "none"
    BY <1>3, FailureTyped
  <1>5. /\ s \in SentEntry /\ s.round = call[c].round /\ s.result # "none"
        /\ e = TellsOf(s, "retrying") /\ e \in Entry
    BY <1>1, <1>4, AttemptTold
  <1> HIDE DEF s, e
  <1>6. SoFar(call[c].log, tried, sent, call[c].round)
    BY <1>1, <1>5, CallKnows, OnceMore
  <1>7. tried \in Seq(Entry) /\ sent \in Seq(SentEntry)
    BY <1>1, <1>5, CallKnows
  <1>8. call' = [call EXCEPT ![c] = [@ EXCEPT !.tried = tried, !.sent = sent]]
    BY <1>2, <1>3 DEF s, e
  <1> HIDE DEF tried, sent
  <1>9. /\ call'[c] \in CallRecord /\ call'[c].pc = call[c].pc /\ call'[c].tried = tried
        /\ call'[c].sent = sent /\ call'[c].log = call[c].log /\ call'[c].round = call[c].round
    BY <1>3, <1>7, <1>8 DEF CallRecord
  <1>10. call' \in [Callers -> CallRecord] /\ \A d \in Callers : d # c => call'[d] = call[d]
    BY <1>3, <1>8, <1>9
  <1>11. CallStands(c)'
    BY <1>1, <1>6, <1>9, CallKnows DEF CallStands
  <1>12. ASSUME NEW d \in Callers, d # c PROVE CallStands(d)'
    BY <1>1, <1>10, <1>12 DEF AuditInv, CallStands, Calling
  <1> QED
    BY <1>1, <1>10, <1>11, <1>12 DEF AuditInv, AuditTypes, Calling

\* What a round that ends hands on.
LEMMA RoundHandsOn ==
    ASSUME AuditInv, NEW c \in Callers, Calling(c), NEW result \in Results, NEW outcome,
           outcome = IF result = "none" THEN "succeeded" ELSE "failed", NEW answered
    PROVE  LET log == Logged(c, Append(call[c].tried, Attempt(c, outcome, result)), answered)
               sent == Append(call[c].sent, Sent(c, result))
           IN  /\ log \in Seq(Entry) /\ sent \in Seq(SentEntry)
               /\ log = Account(sent)
               /\ \A next \in Nat :
                     (IF result = "none" THEN call[c].round <= next ELSE call[c].round < next)
                       => SoFar(log, <<>>, sent, next)
  <1> DEFINE s == Sent(c, result)
             log == Logged(c, Append(call[c].tried, Attempt(c, outcome, result)), answered)
             sent == Append(call[c].sent, s)
             round == call[c].round
  <1>0. outcome \in {"retrying", "failed", "succeeded"}
    OBVIOUS
  <1>1. /\ s \in SentEntry /\ s.round = round /\ s.result = result
        /\ Attempt(c, outcome, result) = TellsOf(s, outcome)
        /\ Attempt(c, outcome, result) \in Entry
    BY <1>0, AttemptTold
  <1>2. log = call[c].log \o Append(call[c].tried, TellsOf(s, outcome))
    BY <1>1 DEF Logged
  <1> HIDE DEF s, log
  <1>3. log \in Seq(Entry) /\ sent \in Seq(SentEntry) /\ round \in Nat
    <2>1. Append(call[c].tried, TellsOf(s, outcome)) \in Seq(Entry)
      BY <1>1, CallKnows
    <2> QED
      BY <1>1, <1>2, <2>1, CallKnows, ConcatProperties
  <1>4. Len(sent) = Len(log) /\ Len(log) > 0 /\ sent[Len(log)] = s /\ LogStands(log, sent)
    <2>1. outcome = IF s.result = "none" THEN "succeeded" ELSE "failed"
      BY <1>1
    <2>2. /\ call[c].log \in Seq(Entry) /\ call[c].tried \in Seq(Entry)
          /\ call[c].sent \in Seq(SentEntry) /\ round \in Nat
          /\ SoFar(call[c].log, call[c].tried, call[c].sent, round)
          /\ s \in SentEntry /\ s.round = round
      BY <1>1, CallKnows
    <2> HIDE DEF round
    <2>3. LET all == call[c].log \o Append(call[c].tried, TellsOf(s, outcome))
              told == Append(call[c].sent, s)
          IN  /\ Len(told) = Len(all) /\ Len(all) > 0 /\ told[Len(all)] = s
              /\ LogStands(all, told)
      BY <2>1, <2>2, RoundEnds
    <2> QED
      BY <1>2, <2>3
  <1> HIDE DEF sent, round
  <1>5. log = Account(sent)
    BY <1>3, <1>4, LogIsAccount
  <1>6. ASSUME NEW next \in Nat, IF result = "none" THEN round <= next ELSE round < next
        PROVE  SoFar(log, <<>>, sent, next)
    BY <1>1, <1>3, <1>4, <1>6, RoundBegins
  <1> QED
    BY <1>3, <1>5, <1>6 DEF log, sent, round, s

\* A round fails.
LEMMA ExhaustedStands ==
    ASSUME AuditInv, NEW c \in Callers, RoundExhausted(c)
    PROVE  AuditInv'
  <1>1. Calling(c)
    BY DEF RoundExhausted
  <1>2. PICK failure \in FailuresOf(call[c].round) :
            LET log == Logged(c, Append(call[c].tried, Attempt(c, "failed", failure)), FALSE)
                sent == Append(call[c].sent, Sent(c, failure))
            IN  NextRound(c, call[c].round + 1, log, sent) \/ Return(c, log, sent, FALSE)
    BY DEF RoundExhausted
  <1> DEFINE log == Logged(c, Append(call[c].tried, Attempt(c, "failed", failure)), FALSE)
             sent == Append(call[c].sent, Sent(c, failure))
  <1>3. failure \in Results /\ failure # "none"
    BY FailureTyped DEF AuditInv, AuditTypes
  <1>4. call[c].round \in Nat /\ call[c].pc = "calling" /\ UNCHANGED client
    BY <1>1, CallKnows
  <1>5. /\ log \in Seq(Entry) /\ sent \in Seq(SentEntry) /\ log = Account(sent)
        /\ SoFar(log, <<>>, sent, call[c].round + 1)
    <2>1. "failed" = IF failure = "none" THEN "succeeded" ELSE "failed"
      BY <1>3
    <2>2. /\ log \in Seq(Entry) /\ sent \in Seq(SentEntry) /\ log = Account(sent)
          /\ \A next \in Nat :
                (IF failure = "none" THEN call[c].round <= next ELSE call[c].round < next)
                  => SoFar(log, <<>>, sent, next)
      BY <1>1, <1>3, <2>1, RoundHandsOn
    <2> HIDE DEF log, sent
    <2> QED
      BY <1>3, <1>4, <2>2
  <1>6. NextRound(c, call[c].round + 1, log, sent) \/ Return(c, log, sent, FALSE)
    BY <1>2
  <1> HIDE DEF log, sent
  <1>7. CASE NextRound(c, call[c].round + 1, log, sent)
    <2>1. call[c].round + 1 \in Nat
      BY <1>4
    <2> QED
      BY <1>4, <1>5, <1>7, <2>1, NextRoundStands
  <1>8. CASE Return(c, log, sent, FALSE)
    BY <1>4, <1>5, <1>8, ReturnStands
  <1> QED
    BY <1>6, <1>7, <1>8

\* A round is answered.
LEMMA AnsweredStands ==
    ASSUME AuditInv, NEW c \in Callers, RoundAnswered(c)
    PROVE  AuditInv'
  <1>1. Calling(c)
    BY DEF RoundAnswered
  <1> DEFINE log == Logged(c, Append(call[c].tried, Attempt(c, "succeeded", "none")), TRUE)
             sent == Append(call[c].sent, Sent(c, "none"))
             round == call[c].round
  <1>2. \/ \E next \in {round, round + 1} : NextRound(c, next, log, sent)
        \/ \E answered \in BOOLEAN : Return(c, log, sent, answered)
    <2>1. PICK answer \in Answers(round) :
              CASE AsksAgain(answer, round) -> NextRound(c, 2, log, sent)
                [] answer = "working" -> call[c].polls < MaxPolls /\ NextRound(c, round, log, sent)
                [] PdfGoesOn(answer, round) -> NextRound(c, round + 1, log, sent)
                [] OTHER -> Return(c, log, sent, answer # "unusable")
      BY DEF RoundAnswered
    <2> HIDE DEF log, sent
    <2>2. AsksAgain(answer, round) => 2 = round + 1 /\ answer = "none"
      BY DEF AsksAgain
    <2>3. PdfGoesOn(answer, round) => answer \in {"batch", "value", "done"}
      BY DEF PdfGoesOn
    <2> HIDE DEF round
    <2>4. CASE AsksAgain(answer, round)
      BY <2>1, <2>2, <2>3, <2>4
    <2>5. CASE answer = "working"
      BY <2>1, <2>2, <2>3, <2>5
    <2>6. CASE PdfGoesOn(answer, round)
      BY <2>1, <2>2, <2>3, <2>6
    <2>7. CASE ~AsksAgain(answer, round) /\ answer # "working" /\ ~PdfGoesOn(answer, round)
      BY <2>1, <2>7
    <2> QED
      BY <2>4, <2>5, <2>6, <2>7
  <1>4. round \in Nat /\ call[c].pc = "calling" /\ UNCHANGED client /\ "none" \in Results
    BY <1>1, CallKnows DEF Results
  <1>5. /\ log \in Seq(Entry) /\ sent \in Seq(SentEntry) /\ log = Account(sent)
        /\ \A next \in {round, round + 1} : SoFar(log, <<>>, sent, next)
    <2>1. "succeeded" = IF "none" = "none" THEN "succeeded" ELSE "failed"
      OBVIOUS
    <2>2. /\ log \in Seq(Entry) /\ sent \in Seq(SentEntry) /\ log = Account(sent)
          /\ \A next \in Nat :
                (IF "none" = "none" THEN round <= next ELSE round < next)
                  => SoFar(log, <<>>, sent, next)
      BY <1>1, <1>4, <2>1, RoundHandsOn
    <2> HIDE DEF log, sent
    <2>3. \A next \in Nat : round <= next => SoFar(log, <<>>, sent, next)
      BY <2>2
    <2> HIDE DEF round
    <2>4. round \in Nat /\ round + 1 \in Nat /\ round <= round /\ round <= round + 1
      BY <1>4
    <2> QED
      BY <2>2, <2>3, <2>4
  <1> HIDE DEF log, sent, round
  <1>6. \A next \in {round, round + 1} : next \in Nat
    BY <1>4
  <1>7. CASE \E next \in {round, round + 1} : NextRound(c, next, log, sent)
    <2>1. PICK next \in {round, round + 1} : NextRound(c, next, log, sent)
      BY <1>7
    <2> QED
      BY <1>4, <1>5, <1>6, <2>1, NextRoundStands
  <1>8. CASE \E answered \in BOOLEAN : Return(c, log, sent, answered)
    <2>1. PICK answered \in BOOLEAN : Return(c, log, sent, answered)
      BY <1>8
    <2> QED
      BY <1>4, <1>5, <2>1, ReturnStands
  <1> QED
    BY <1>2, <1>7, <1>8

\* A call begins.
LEMMA BeginStands ==
    ASSUME AuditInv, NEW c \in Callers, BeginCall(c)
    PROVE  AuditInv'
  <1> DEFINE begun == [IdleCall EXCEPT !.pc = "calling"]
             calls == [call EXCEPT ![c] = begun]
  <1>1. call[c] = IdleCall /\ call \in [Callers -> CallRecord] /\ CallStands(c)
    BY DEF AuditInv, AuditTypes, CallStands, BeginCall, MayBegin
  <1>2. last' = <<>> /\ UNCHANGED client /\ call' = Overtake(calls, c)
    BY <1>1 DEF BeginCall
  <1>3. /\ begun \in CallRecord /\ begun.pc = "calling" /\ begun.log = <<>> /\ begun.tried = <<>>
        /\ begun.sent = <<>> /\ begun.round = 1
    BY IdleTyped DEF IdleCall, CallRecord
  <1> HIDE DEF begun
  <1>4. /\ calls \in [Callers -> CallRecord] /\ calls[c] = begun
        /\ \A d \in Callers : d # c => calls[d] = call[d]
    BY <1>1, <1>3
  <1> HIDE DEF calls
  <1>5. call' \in [Callers -> CallRecord] /\ call'[c] = begun
    BY <1>2, <1>4, Overtaken
  <1>6. CallStands(c)'
    BY <1>3, <1>5, IdleTyped DEF CallStands
  <1>7. \A d \in Callers : d # c => CallStands(d)'
    BY <1>2, <1>4, OthersStand
  <1> QED
    BY <1>2, <1>5, <1>6, <1>7, IdleTyped DEF AuditInv, AuditTypes

\* A search reads the attempts of its call.
LEMMA ReadStands ==
    ASSUME AuditInv, NEW c \in Callers, ReadAttempts(c)
    PROVE  AuditInv'
  <1>1. /\ call \in [Callers -> CallRecord] /\ call[c] \in CallRecord /\ last \in Seq(Entry)
        /\ CallStands(c) /\ call[c].pc = "returned" /\ UNCHANGED <<client, last>>
        /\ call' = [call EXCEPT ![c] = [@ EXCEPT !.pc = "done", !.told = last]]
    BY DEF AuditInv, AuditTypes, ReadAttempts
  <1>2. /\ call'[c] \in CallRecord /\ call'[c].pc = "done" /\ call'[c].told = last
        /\ call'[c].log = call[c].log /\ call'[c].sent = call[c].sent
        /\ call'[c].overtaken = call[c].overtaken
    BY <1>1 DEF CallRecord
  <1>3. call' \in [Callers -> CallRecord] /\ \A d \in Callers : d # c => call'[d] = call[d]
    BY <1>1, <1>2
  <1>4. CallStands(c)'
    BY <1>1, <1>2 DEF CallStands
  <1>5. ASSUME NEW d \in Callers, d # c PROVE CallStands(d)'
    BY <1>1, <1>3, <1>5 DEF AuditInv, CallStands
  <1> QED
    BY <1>1, <1>3, <1>4, <1>5 DEF AuditInv, AuditTypes

\* Every request of a call is told in its order and with its outcome, for any callers,
\* failures, providers, attempts and polls, unless another call came between the end of
\* the call and the reading of its attempts (AuditIsWhole).
THEOREM AuditsAreWhole == ClientsSpec => []AuditIsWhole
  <1>1. ClientsInit => AuditInv
    <2> SUFFICES ASSUME ClientsInit PROVE AuditInv
      OBVIOUS
    <2>1. \A c \in Callers : call[c] = IdleCall /\ call[c].pc = "idle"
      BY DEF ClientsInit, IdleCall
    <2> QED
      BY <2>1, IdleTyped DEF ClientsInit, AuditInv, AuditTypes, CallStands
  <1>2. AuditInv /\ [ClientsStep]_clientVars => AuditInv'
    <2> SUFFICES ASSUME AuditInv, [ClientsStep]_clientVars PROVE AuditInv'
      OBVIOUS
    <2>1. CASE UNCHANGED clientVars
      BY <2>1 DEF clientVars, AuditInv, AuditTypes, CallStands
    <2>2. CASE \E c \in Callers : BeginCall(c) \/ ClientStepOf(c)
      BY <2>2, BeginStands, MisconfiguredStands, RetriedStands, ExhaustedStands, AnsweredStands,
         TimeIsUpStands, ReadStands DEF ClientStepOf
    <2> QED
      BY <2>1, <2>2 DEF ClientsStep, ClientsRest
  <1>3. AuditInv => AuditIsWhole
    BY DEF AuditInv, CallStands, AuditIsWhole
  <1> QED
    BY <1>1, <1>2, <1>3, PTL DEF ClientsSpec

================================================================================
