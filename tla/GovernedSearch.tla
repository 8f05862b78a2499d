--------------------------- MODULE GovernedSearch ---------------------------
(***************************************************************************)
(* Searches of the governed knowledge base (production_service.py and      *)
(* production_repository.py) among publications, withdrawals and the       *)
(* migration of the index.  A search recalls rows through the alias,       *)
(* route by route, reads their records in chunk_catalog and then in        *)
(* document_catalog, and selects its evidence; a follow-up question reads  *)
(* the evidence of an earlier search once more.                            *)
(***************************************************************************)
EXTENDS IndexMigration, EvidenceSelection, AccessFilter

CONSTANTS
    Facts,          \* what the records of each document say of who may read it, and when
    Asker,          \* the scope of the actor who asks
    Asked,          \* the constraints of the request
    Guarded,        \* documents that are protected evidence for the query
    RecallK, TopK,  \* retrieval_recall_k, top_k
    Scores,         \* those a reranker gives
    LastMoment,     \* bound: the clock
    MaxSearches     \* bound: searches and re-uses

ASSUME SearchAssumption == RecallK \in Nat \ {0} /\ TopK \in Nat \ {0} /\ LastMoment \in Nat

\* Rows are made of published records.
ASSUME FactsAssumption ==
    /\ Asked.asOf \in Int \cup {Never}
    /\ \A d \in Docs :
          /\ Facts[d] = [f \in {"published", "approved", "effective", "expires", "key", "of"} |-> Facts[d][f]]
          /\ Facts[d].published = TRUE
          /\ Facts[d].effective \in Int /\ Facts[d].expires \in Int \cup {Never}

VARIABLES
    query,  \* the request at work
    trace,  \* the evidence of the last trace that was saved
    now,    \* the clock
    asks,   \* searches and re-uses there may still be
    watch   \* what has been so ever since the request began

searchVars == <<query, trace, now, asks, watch>>

NoQuery == [pc |-> "idle", kind |-> "none", routes |-> 0, filter |-> {}, found |-> {}]

QueryAt(pc) == query.pc = pc
Then(pc) == query' = [query EXCEPT !.pc = pc]

\* A record that is published may be read.
Open(d) == Accessible([Facts[d] EXCEPT !.published = TRUE], Asker, Asked, now)

\* Dense, sparse or both, and HyDE adds a dense one if its text could be made.
Routes == 1 .. 3

\* search builds its filter when it begins.
BeginSearch ==
    /\ QueryAt("idle") /\ asks > 0
    /\ \E routes \in Routes :
         query' = [pc |-> "recall", kind |-> "search", routes |-> routes, found |-> {},
                   filter |-> {d \in Docs : Admits(Row(Facts[d]), Asker, Asked, now)}]
    /\ asks' = asks - 1
    /\ UNCHANGED <<trace, now>>

\* Each route is searched through the alias and finds the nearest rows that the filter admits.
Nearest(S) == {N \in SUBSET S : Cardinality(N) = Smaller(RecallK, Cardinality(S))}

Recall ==
    /\ QueryAt("recall")
    /\ \E hits \in Nearest(rows[alias] \cap query.filter) :
         query' = [query EXCEPT !.routes = @ - 1, !.found = @ \cup hits,
                                !.pc = IF query.routes = 1 THEN "chunks" ELSE "recall",
                                !.filter = IF query.routes = 1 THEN {} ELSE @]
    /\ UNCHANGED <<trace, now, asks>>

\* The encoder fails, and the trace of the failure has no evidence; or a route raises.
RecallFails ==
    /\ QueryAt("recall")
    /\ query' = NoQuery
    /\ trace' \in {trace, {}}
    /\ UNCHANGED <<now, asks>>

\* get_chunks reads chunk_catalog,
GetChunks ==
    /\ QueryAt("chunks")
    /\ query' = [query EXCEPT !.pc = "documents", !.found = {d \in @ : chunks[d].state = "published"}]
    /\ UNCHANGED <<trace, now, asks>>

\* Mutant of GetDocuments: document_catalog is not asked for the state of a document.
GetAnyDocuments ==
    /\ QueryAt("documents")
    /\ LET found == {d \in query.found : Open(d)} IN
         query' = IF query.kind = "search" THEN [query EXCEPT !.pc = "select", !.found = found]
                  ELSE IF found = trace THEN [query EXCEPT !.pc = "answered", !.found = found]
                  ELSE NoQuery
    /\ UNCHANGED <<trace, now, asks>>

\* then document_catalog; what the actor may not read now is left out.
GetDocuments ==
    /\ QueryAt("documents")
    /\ LET found == {d \in query.found \cap Published(documents) : Open(d)} IN
         query' = IF query.kind = "search" THEN [query EXCEPT !.pc = "select", !.found = found]
                  ELSE IF found = trace THEN [query EXCEPT !.pc = "answered", !.found = found]
                  ELSE NoQuery
    /\ UNCHANGED <<trace, now, asks>>

\* The candidates in the order of their scores, those of the reranker or of the fusion.
Ranked(S) ==
    {c \in [1 .. Cardinality(S) -> [doc : S, score : Scores, protected : BOOLEAN]] :
        /\ {c[i].doc : i \in DOMAIN c} = S
        /\ \A i \in DOMAIN c : c[i].protected <=> c[i].doc \in Guarded
        /\ \A i, j \in DOMAIN c : i < j => c[i].score >= c[j].score}

\* The reranker scores the candidates, fails or is not asked; the evidence is selected.
SelectEvidence ==
    /\ QueryAt("select")
    /\ \E c \in Ranked(query.found), reranked \in BOOLEAN :
         query' = [query EXCEPT !.pc = "save", !.found = {c[i].doc : i \in Selected(c, TopK, reranked)}]
    /\ UNCHANGED <<trace, now, asks>>

SaveTrace ==
    /\ QueryAt("save")
    /\ \/ trace' = query.found /\ Then("answered")
       \/ trace' \in {trace, query.found} /\ query' = NoQuery
    /\ UNCHANGED <<now, asks>>

\* reuse_trace_evidence reads all the evidence of a trace again, or gives it up.
BeginReuse ==
    /\ QueryAt("idle") /\ asks > 0 /\ trace # {}
    /\ query' = [NoQuery EXCEPT !.pc = "chunks", !.kind = "reuse", !.found = trace]
    /\ asks' = asks - 1
    /\ UNCHANGED <<trace, now>>

EndQuery == QueryAt("answered") /\ query' = NoQuery /\ UNCHANGED <<trace, now, asks>>

Tick == ~QueryAt("idle") /\ now < LastMoment /\ now' = now + 1 /\ UNCHANGED <<query, trace, asks>>

SearchStep ==
    \/ BeginSearch \/ Recall \/ RecallFails
    \/ GetChunks \/ GetDocuments \/ SelectEvidence \/ SaveTrace
    \/ BeginReuse \/ EndQuery \/ Tick

-----------------------------------------------------------------------------
(* What the properties remember of a request *)

Expiring(d) ==
    Facts[d].expires # Never /\ Seconds(Facts[d].expires) = Seconds(PointInTime(Asked, now))

\* A search could find d: it has a row, is published and may be read.
Findable ==
    {d \in rows[alias] \cap Published(documents) \cap Published(chunks) : Open(d) /\ ~Expiring(d)}

Sight ==
    [unpublished |-> Docs \ Published(documents), unlisted |-> Docs \ Published(chunks),
     barred |-> {d \in Docs : ~Open(d)}, findable |-> Findable]

NoSight == [unpublished |-> {}, unlisted |-> {}, barred |-> {}, findable |-> {}]

Watching ==
    IF query'.pc = "idle" THEN watch' = NoSight
    ELSE \E sight \in {Sight'} :
           watch' = IF query.pc = "idle" THEN sight
                    ELSE [what \in DOMAIN watch |-> watch[what] \cap sight[what]]

SearchInit ==
    /\ query = NoQuery /\ trace = {} /\ now \in 0 .. LastMoment
    /\ asks = MaxSearches /\ watch = NoSight

GovernedInit == IndexInit /\ SearchInit

GovernedStep ==
    \/ IndexNext /\ UNCHANGED <<query, trace, now, asks>>
    \/ SearchStep /\ UNCHANGED indexVars

GovernedNext == GovernedStep /\ Watching

-----------------------------------------------------------------------------

\* The evidence a user is given has been published in each of the two catalogs, and open
\* to that user, at some moment since the request began, whatever rows the collections of
\* the index still have (get_chunks and is_accessible, production_repository.py).
FoundIsServed ==
    QueryAt("answered") => query.found \cap (watch.unpublished \cup watch.unlisted \cup watch.barred) = {}

\* Protected evidence that could be found throughout a search is in its evidence, though
\* its score be low, the candidates many or the alias be switched between two routes
\* (search and _retain_protected, production_service.py), if a route may find as many rows
\* as there are: beyond RecallK the nearest crowd out the rest.
ProtectedIsFound ==
    QueryAt("answered") /\ query.kind = "search" => Guarded \cap watch.findable \subseteq query.found

=============================================================================
