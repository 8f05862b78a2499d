--------------------------- MODULE MCStreamedReply ---------------------------
(***************************************************************************)
(* The requests that StreamedReply is checked with: every kind of reply,   *)
(* and answers with and without evidence, behind up to two replies about   *)
(* the history; and, in behaviours of their own, calls of the other        *)
(* clients of providers.                                                   *)
(***************************************************************************)
EXTENDS StreamedReply, ProviderClients

VARIABLE part

Chunk == [id |-> "chunk", source |-> "internal", preview |-> FALSE]
Preview == [id |-> "preview", source |-> "internal", preview |-> TRUE]
Live == [id |-> "live", source |-> "live", preview |-> FALSE]
Web == [id |-> "web", source |-> "external", preview |-> FALSE]

Request(kind, preludes, ledger, natural, governed) ==
    {[kind |-> kind, preludes |-> preludes, ledger |-> ledger, natural |-> natural, governed |-> governed,
      resumed |-> resumed, demo |-> FALSE] : resumed \in {FALSE, kind # "clarification"}}

Plain(kind) == Request(kind, <<>>, {}, FALSE, FALSE)

MCRequests ==
    UNION {Plain(k) : k \in DirectKinds}
      \cup Request("answer", <<>>, {Preview, Live}, FALSE, TRUE)
      \cup Request("answer", <<>>, {Chunk, Web}, TRUE, FALSE)
      \cup Request("answer", <<"history_recall">>, {Chunk}, FALSE, TRUE)
      \cup Request("answer", <<"history_transform", "history_recall">>, {}, FALSE, FALSE)
      \cup {[r EXCEPT !.demo = TRUE] :
              r \in Plain("refusal") \cup Request("answer", <<"history_recall", "history_transform">>, {Chunk, Live}, FALSE, FALSE)}

Unit(type, of) == [type |-> type, of |-> of, text |-> TRUE, total |-> FALSE]

MCAnswerUnits ==
    {Unit("fact", of) : of \in {{}, {"gone"}, {"chunk", "gone"}, {"preview"}, {"web"}}}
      \cup {[Unit("fact", {"preview"}) EXCEPT !.total = TRUE], [Unit("fact", {"chunk"}) EXCEPT !.text = FALSE]}
      \cup {Unit("hypothesis", {"live"}), Unit("unknown", {}), Unit("next_action", {}), Unit("confidence", {}),
            Unit("other", {})}

-----------------------------------------------------------------------------

Quiet == CHOOSE r \in Requests : r.kind = "general_chat" /\ ~r.resumed

BothInit ==
    \/ part = "reply" /\ Init /\ client = "complete" /\ last = <<>> /\ call = [c \in Callers |-> IdleCall]
    \/ /\ part = "clients" /\ ClientsInit
       /\ request = Quiet /\ graph = Fresh /\ node = NoNode /\ shown = <<>>
       /\ record = [status |-> "accepted", code |-> "none", runs |-> 0, stored |-> <<>>]

ReplyPart(step) == part = "reply" /\ step /\ UNCHANGED <<part, clientVars>>

ClientsPart(step) == part = "clients" /\ step /\ UNCHANGED <<part, vars>>

BothNext == ReplyPart(Next) \/ ClientsPart(ClientsStep)

both == <<part, vars, clientVars>>

BothSpec ==
    /\ BothInit /\ [][BothNext]_both
    /\ WF_both(ReplyPart(Step))
    /\ \A c \in Callers : WF_both(ClientsPart(ClientStepOf(c)))

\* Requests and calls come to an end, whatever fails on their way (RunsEnd of
\* StreamedReply, CallsComeBack of ProviderClients).
RunsAndCallsEnd == RunsEnd /\ CallsComeBack

=============================================================================
