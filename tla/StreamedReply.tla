---------------------------- MODULE StreamedReply ----------------------------
(***************************************************************************)
(* The text of one request, from the provider's stream to the stored       *)
(* message (the generating nodes of agent_runtime/graph.py, and            *)
(* stream_message of service.py): replies that need no evidence, answers   *)
(* from evidence, and answers that are preceded by replies about the       *)
(* history.  Parts are shown as they pass their checks; what is stored is  *)
(* put together at the end, and has to begin with what was shown.          *)
(*                                                                         *)
(* A request that fails or is cancelled may be sent again.  When it        *)
(* answered a clarification its run goes on at the node that the           *)
(* checkpoint names, else it starts afresh (AgentTurns).  How the request  *)
(* claims the thread is told by MessageRequests.                           *)
(***************************************************************************)
EXTENDS ProviderCalls, StreamingAnswer

CONSTANTS
    Requests,     \* what may be asked: see RequestType
    AnswerUnits,  \* what a model may stream of an answer
    MaxUnits,     \* units of an answer in one run
    MaxRuns       \* times the request is sent

RequestType(r) ==
    /\ r.kind \in DirectKinds \cup {"answer"}
    /\ \A i \in DOMAIN r.preludes : r.preludes[i] \in {"history_recall", "history_transform"}
    /\ r.kind # "answer" => r.preludes = <<>> /\ r.ledger = {}
    /\ IsFiniteSet(r.ledger)
    /\ r.resumed => r.kind # "clarification"
    /\ r.natural \in BOOLEAN /\ r.governed \in BOOLEAN /\ r.resumed \in BOOLEAN /\ r.demo \in BOOLEAN

\* A question about controlled documents is no public one, and the web is asked about
\* public ones alone (ControlledRestsOnInternal of AgentTurns).
ASSUME RequestsAssumption ==
    \A r \in Requests :
      /\ RequestType(r)
      /\ r.governed => ~r.natural
      /\ Of(r.ledger, "external") # {} => r.natural

VARIABLES
    request,   \* what is asked, and what was found for it
    graph,     \* the checkpoint: [at, combined, answer, text]
    node,      \* what the running node holds: [replies, joined, call, units, ...]: see NoNode
    shown,     \* streamed_answer: the parts the user has seen
    record     \* the request's entry in the ledger, and its message: [status, code, runs, stored]

vars == <<request, graph, node, shown, record>>

-----------------------------------------------------------------------------
(* Helpers *)

NoUnits == [none |-> TRUE]

NoNode ==
    [replies |-> 0, joined |-> <<>>, call |-> NoCall, units |-> NoUnits, rendered |-> <<>>, taken |-> 0,
     dangling |-> FALSE, voices |-> {}, refused |-> FALSE]

Separator == Part("separator", {})

\* The empty line between a text, if there is one, and what follows it.
Before(text) == IF text = <<>> THEN <<>> ELSE <<Separator>>

Text(a) == Rendered(a, request.natural)

StartAt == IF request.kind # "answer" THEN "direct"
           ELSE IF request.preludes = <<>> THEN "generate"
           ELSE "prelude"

Running == record.status = "running"

Direct == graph.at \in {"direct", "prelude"}

Kind == IF graph.at = "direct" THEN request.kind ELSE request.preludes[node.replies + 1]

Voice == [provider |-> node.call.provider, attempt |-> node.call.attempt]

Streaming == Running /\ node.call # NoCall

\* The run ends without an answer; what was shown of it is not kept.
Ends(status, code) ==
    /\ record' = [record EXCEPT !.status = status, !.code = code]
    /\ node' = NoNode /\ shown' = <<>>
    /\ UNCHANGED <<request, graph>>

-----------------------------------------------------------------------------
(* Runs of the request *)

Fresh == [at |-> StartAt, combined |-> <<>>, answer |-> NewAnswer, text |-> <<>>]

Send ==
    /\ record.status \in {"accepted", "failed", "cancelled"} /\ record.runs < MaxRuns
    /\ record' = [record EXCEPT !.status = "running", !.code = "none", !.runs = @ + 1]
    /\ graph' = IF request.resumed /\ record.runs > 0 THEN graph ELSE Fresh
    /\ UNCHANGED <<request, node, shown>>

\* A user who stops the generation, or whose connection is lost.
Cancel ==
    /\ Running
    /\ Ends("cancelled", "cancelled")

-----------------------------------------------------------------------------
(* Streams *)

\* The next stream, which the same assembler reads with whatever is left in its buffer.
Retry(trouble, left) ==
    LET next == AfterFailure(node.call, FailureKind(node.call, trouble))
    IN  /\ next # NoCall
        /\ node' = [node EXCEPT !.call = next, !.dangling = left,
                                !.refused = @ \/ trouble = "callback_error"]
        /\ UNCHANGED <<request, graph, shown, record>>

Exhausted(trouble) == AfterFailure(node.call, FailureKind(node.call, trouble)) = NoCall

Trouble == Troubles \cup (IF ConfigurationTrouble(node.call) THEN {"configuration"} ELSE {})

\* A part of a unit: nothing of it is shown, but the stream has begun.
StreamFragment ==
    /\ Streaming /\ (node.dangling => ~node.call.content)
    /\ node' = [node EXCEPT !.call.content = TRUE, !.dangling = TRUE]
    /\ UNCHANGED <<request, graph, shown, record>>

\* A stream ends as it should only after some content.
Ended == Streaming /\ node.call.content

-----------------------------------------------------------------------------
(* Replies without evidence *)

Generated(text) ==
    IF graph.at = "direct"
    THEN /\ graph' = [graph EXCEPT !.at = "end", !.text = text]
         /\ node' = NoNode
    ELSE LET joined == node.joined \o Before(node.joined) \o text
         IN  IF node.replies + 1 < Len(request.preludes)
             THEN /\ node' = [NoNode EXCEPT !.replies = node.replies + 1, !.joined = joined]
                  /\ UNCHANGED graph
             ELSE /\ graph' = [graph EXCEPT !.at = "generate", !.combined = joined]
                  /\ node' = NoNode

BeginReply ==
    /\ Running /\ Direct /\ node.units = NoUnits
    /\ LET begun == shown \o Before(node.joined)
       IN  IF request.demo
           THEN /\ shown' = begun \o DeterministicFallback(Kind)
                /\ Generated(DeterministicFallback(Kind))
           ELSE /\ shown' = begun
                /\ node' = [node EXCEPT !.call = Open(1), !.units = NewDirect]
                /\ UNCHANGED graph
    /\ UNCHANGED <<request, record>>

ReplyUnit(u) ==
    /\ AcceptsUnit(Kind, node.units, u)
    /\ node' = [node EXCEPT !.call.content = TRUE, !.dangling = FALSE,
                            !.units.parts = Append(@, u), !.voices = @ \cup {Voice}]
    /\ shown' = Append(shown, u)
    /\ UNCHANGED <<request, graph, record>>

ReplyDone(u) ==
    /\ EndsReply(node.units, u)
    /\ node' = [node EXCEPT !.call.content = TRUE, !.dangling = FALSE, !.units.done = TRUE]
    /\ UNCHANGED <<request, graph, shown, record>>

\* The model and its stream are given up; what has passed stays.
GiveUp ==
    LET suffix == GivenUp(Kind, node.units)
    IN  /\ shown' = shown \o suffix
        /\ Generated(node.units.parts \o suffix)
        /\ UNCHANGED <<request, record>>

\* A unit that does not pass raises in the middle of the stream.
ReplyUnitError(u) ==
    /\ ~AcceptsUnit(Kind, node.units, u) /\ ~EndsReply(node.units, u)
    /\ \/ \E left \in BOOLEAN : Retry("callback_error", left)
       \/ Exhausted("callback_error") /\ GiveUp

StreamReply ==
    /\ Streaming /\ Direct
    /\ \E u \in DirectUnits(Kind) : ReplyUnit(u) \/ ReplyDone(u) \/ ReplyUnitError(u)

ReplyTrouble ==
    /\ Streaming /\ Direct
    /\ \E trouble \in Trouble : Retry(trouble, node.dangling) \/ (Exhausted(trouble) /\ GiveUp)

EndReply ==
    /\ Ended /\ Direct
    /\ IF FinishedReply(Kind, node.units) /\ ~node.dangling
       THEN Generated(node.units.parts) /\ UNCHANGED <<request, shown, record>>
       ELSE GiveUp

-----------------------------------------------------------------------------
(* Answers from evidence *)

Answered(a, growth) ==
    /\ shown' = shown \o growth
    /\ graph' = [graph EXCEPT !.at = "verify", !.answer = a]
    /\ node' = NoNode
    /\ UNCHANGED <<request, record>>

BeginAnswer ==
    /\ Running /\ graph.at = "generate" /\ node.units = NoUnits
    /\ LET whole(a) == Answered(a, Before(graph.combined) \o Text(a))
       IN  IF request.ledger = {} THEN whole(NoEvidenceAnswer)
           ELSE IF request.demo THEN whole(DeterministicAnswer(request.ledger))
           ELSE /\ shown' = shown \o Before(graph.combined)
                /\ node' = [node EXCEPT !.call = Open(1), !.units = NewAnswer]
                /\ UNCHANGED <<request, graph, record>>

Growth(a) == SubSeq(Text(a), Len(node.rendered) + 1, Len(Text(a)))

AnswerUnit(a) ==
    /\ node' = [node EXCEPT !.call.content = TRUE, !.dangling = FALSE, !.taken = @ + 1,
                            !.units = a, !.rendered = Text(a), !.voices = @ \cup {Voice}]
    /\ shown' = shown \o Growth(a)
    /\ UNCHANGED <<request, graph, record>>

AnswerUnitError(a) ==
    IF Exhausted("callback_error") THEN Ends("failed", "provider")
    ELSE /\ node' = [node EXCEPT !.call = AfterFailure(@, "transport"), !.units = a, !.taken = @ + 1, !.refused = TRUE]
         /\ UNCHANGED <<request, graph, shown, record>>

\* The text of the units has to begin with that of the units before.
StreamAnswer ==
    /\ Streaming /\ graph.at = "generate" /\ node.taken < MaxUnits
    /\ \E a \in {ProcessUnit(node.units, u, request.ledger, ~request.natural) : u \in AnswerUnits} :
         IF IsPrefix(node.rendered, Text(a)) THEN AnswerUnit(a) ELSE AnswerUnitError(a)

AnswerTrouble ==
    /\ Streaming /\ graph.at = "generate"
    /\ \E trouble \in Trouble : Retry(trouble, node.dangling) \/ (Exhausted(trouble) /\ Ends("failed", "provider"))

EndAnswer ==
    /\ Ended /\ graph.at = "generate"
    /\ LET a == FinishAnswer(node.units, request.ledger)
       IN  IF node.units.processed /\ ~node.dangling
           THEN Answered(a, Growth(a))
           ELSE Ends("failed", "verification_failed")

VerifyAnswer ==
    /\ Running /\ graph.at = "verify"
    /\ LET a == VerifiedAnswer(graph.answer, request.ledger, request.governed)
           text == Text(a)
       IN  graph' = [graph EXCEPT !.at = "end", !.answer = a,
                                  !.text = graph.combined \o Before(graph.combined) \o text]
    /\ UNCHANGED <<request, node, shown, record>>

-----------------------------------------------------------------------------
(* The stored message *)

Finalize ==
    /\ Running /\ graph.at = "end"
    /\ IF IsPrefix(shown, graph.text)
       THEN /\ shown' = graph.text
            /\ record' = [record EXCEPT !.status = "completed", !.stored = graph.text]
            /\ UNCHANGED <<request, graph, node>>
       ELSE Ends("failed", "verification_failed")

-----------------------------------------------------------------------------

Init ==
    /\ request \in Requests
    /\ graph = Fresh
    /\ node = NoNode /\ shown = <<>>
    /\ record = [status |-> "accepted", code |-> "none", runs |-> 0, stored |-> <<>>]

Step ==
    \/ StreamFragment
    \/ BeginReply \/ StreamReply \/ ReplyTrouble \/ EndReply
    \/ BeginAnswer \/ StreamAnswer \/ AnswerTrouble \/ EndAnswer
    \/ VerifyAnswer \/ Finalize

\* The request is answered, or it is not sent again.
Rest ==
    /\ record.status = "completed" \/ (record.runs = MaxRuns /\ ~Running)
    /\ UNCHANGED vars

Next == Send \/ Cancel \/ Step \/ Rest

\* A stream that brings nothing times out, and the event loop runs every node.
Spec == Init /\ [][Next]_vars /\ WF_vars(Step)

-----------------------------------------------------------------------------
(* Properties *)

\* No run is refused because its text does not begin as shown, but for one that goes on
\* behind replies which only an earlier run has shown.
ShownBeginsText ==
    Running /\ graph.at = "end"
      => \/ IsPrefix(shown, graph.text)
         \/ record.runs > 1 /\ request.resumed /\ graph.combined # <<>>

\* What is told as a fact cites evidence of the ledger from the first moment it is seen,
\* and a hypothesis cites nothing else: the verification comes too late to take it back.
ShownIsGrounded ==
    \A i \in DOMAIN shown :
      /\ shown[i].part = "fact" => shown[i].of # {}
      /\ shown[i].part \in {"fact", "hypothesis"} => shown[i].of \subseteq Ids(request.ledger)

Times(slot) == Cardinality({i \in DOMAIN shown : slot \in shown[i].of})

\* A clarification asks for every missing slot once, also when a provider takes it over
\* from another or the server ends it.
AsksEachOnce ==
    request.kind = "clarification" =>
      \A slot \in Missing : IF record.status = "completed" THEN Times(slot) = 1 ELSE Times(slot) <= 1

\* A run comes to an end.
RunsEnd == []<>~Running

\* A provider changes only before the first visible delta: what broke off in part is not
\* continued by another stream, unless it was a unit of the reply that was refused
\* (docs/T9-4.5Provider韧性验收.md:18, which knows no such exception).
OneVoice == Cardinality(node.voices) <= 1 \/ node.refused

=============================================================================
